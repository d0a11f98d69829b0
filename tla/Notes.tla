--------------------------------- MODULE Notes ---------------------------------
(***************************************************************************)
(* internal/service/task_notes.go over PostgreSQL: the notes of one task,   *)
(* written while the task is patched, deleted and restored (tasks.go),      *)
(* statement by statement, interleaved under READ COMMITTED.                *)
(*                                                                         *)
(* A note write reads without a lock, then takes the task's row by touching *)
(* it, then writes the note.  A patch and a delete take the row first       *)
(* (FOR UPDATE) and read the timeline under it.  The task is the root of    *)
(* the delete: a child's row is not held until it goes.                     *)
(* Texts, authors and status entries are left out.                          *)
(***************************************************************************)
EXTENDS Requests   \* undo: the timeline in the last delete's response

CONSTANTS Note, Date

VARIABLES
    alive,     \* the task has its row in table tasks
    notes,     \* table task_activity: [Note -> Date or None]
    kept,      \* history: notes acknowledged and not deleted since
    strays     \* history: notes written by a request that found no task to touch

tables == <<alive, notes, used>>
vars == <<tables, req, undo, kept, strays>>

-------------------------------------------------------------------------------

Timeline == [Note -> Date \cup {None}]

\* dated: the client sent a date; holds: the request has the task's row.
NoteWrite == [op : {"add", "edit", "remove"}, note : Note, date : Date, dated : BOOLEAN,
              stage : {"touch", "write"}, holds : BOOLEAN]
TaskWrite == [op : {"patch", "delete"}, stage : {"read", "write"}, holds : {TRUE},
              seen : Timeline]

ASSUME NotesAssumption == None \notin Date \cup NoteWrite \cup TaskWrite \cup Timeline

At(r, op, stage) == Does(r, op) /\ req[r].stage = stage

\* Somebody has the task's row.
Locked == \E r \in Request : req[r] # None /\ req[r].holds

NoteRequest(op, n, d, dated) ==
    [op |-> op, note |-> n, date |-> d, dated |-> dated, stage |-> "touch", holds |-> FALSE]

Gone == [n \in Note |-> None]

Init ==
    /\ alive = TRUE
    /\ notes \in Timeline
    /\ used = {n \in Note : notes[n] # None}
    /\ req = [r \in Request |-> None]
    /\ undo = None
    /\ kept = used
    /\ strays = {}

-------------------------------------------------------------------------------
(* Notes: noteTask, findNote and validateNote read without a lock.          *)

\* An omitted date is today's: any.
AddNote(r, n) ==
    /\ alive /\ n \notin used
    /\ \E d \in Date : Begin(r, NoteRequest("add", n, d, TRUE))
    /\ used' = used \cup {n}
    /\ UNCHANGED <<alive, notes, undo, kept, strays>>

\* An omitted date is the note's, as read here.
EditNote(r, n) ==
    /\ alive /\ notes[n] # None
    /\ \/ \E d \in Date : Begin(r, NoteRequest("edit", n, d, TRUE))
       \/ Begin(r, NoteRequest("edit", n, notes[n], FALSE))
    /\ UNCHANGED <<tables, undo, kept, strays>>

DeleteNote(r, n) ==
    /\ alive /\ notes[n] # None
    /\ Begin(r, NoteRequest("remove", n, notes[n], FALSE))
    /\ UNCHANGED <<tables, undo, kept, strays>>

Touching(r) == \E op \in {"add", "edit", "remove"} : At(r, op, "touch")

\* Mutant: the row is not touched, hence not waited for.
TouchNot(r) ==
    /\ Touching(r)
    /\ req' = [req EXCEPT ![r].stage = "write"]
    /\ UNCHANGED <<tables, undo, kept, strays>>

\* touchTask: an add needs the task, the others go on without it.
Touch(r) ==
    /\ Touching(r)
    /\ alive => ~Locked
    /\ IF alive \/ req[r].op # "add"
       THEN req' = [req EXCEPT ![r].stage = "write", ![r].holds = alive]
       ELSE End(r)
    /\ UNCHANGED <<tables, undo, kept, strays>>

\* A note written without the task's row.
Straying(r) == IF req[r].holds THEN {} ELSE {req[r].note}

InsertNote(r) ==
    /\ At(r, "add", "write") /\ alive
    /\ notes' = [notes EXCEPT ![req[r].note] = req[r].date]
    /\ kept' = kept \cup {req[r].note}
    /\ End(r)
    /\ UNCHANGED <<alive, used, undo, strays>>

\* Gone meanwhile: 404.
UpdateNote(r) ==
    /\ At(r, "edit", "write")
    /\ LET n == req[r].note IN
       IF notes[n] # None
       THEN notes' = [notes EXCEPT ![n] = req[r].date] /\ strays' = strays \cup Straying(r)
       ELSE UNCHANGED <<notes, strays>>
    /\ End(r)
    /\ UNCHANGED <<alive, used, undo, kept>>

\* Gone meanwhile: fine.
RemoveNote(r) ==
    /\ At(r, "remove", "write")
    /\ LET n == req[r].note IN
       /\ notes' = [notes EXCEPT ![n] = None]
       /\ kept' = kept \ {n}
       /\ strays' = strays \cup Straying(r)
    /\ End(r)
    /\ UNCHANGED <<alive, used, undo>>

-------------------------------------------------------------------------------
(* The task.                                                                *)

LockTask(r, op) ==
    /\ alive /\ ~Locked
    /\ Begin(r, [op |-> op, stage |-> "read", holds |-> TRUE, seen |-> Gone])
    /\ UNCHANGED <<tables, undo, kept, strays>>

\* loadActivityFor
ReadTimeline(r) ==
    /\ At(r, "patch", "read") \/ At(r, "delete", "read")
    /\ req' = [req EXCEPT ![r].stage = "write", ![r].seen = notes]
    /\ UNCHANGED <<tables, undo, kept, strays>>

\* The UPDATE never touches the timeline's notes; the response has them as read.
PatchTask(r) ==
    /\ At(r, "patch", "write")
    /\ End(r)
    /\ UNCHANGED <<tables, undo, kept, strays>>

\* The notes go with the row; the response is what the client's undo replays.
DeleteTask(r) ==
    /\ At(r, "delete", "write")
    /\ alive' = FALSE /\ notes' = Gone
    /\ undo' = req[r].seen
    /\ End(r)
    /\ UNCHANGED <<used, kept, strays>>

\* Mutant: the undo brings back the task without its timeline.
RestoreBare ==
    /\ undo # None /\ ~alive
    /\ alive' = TRUE /\ notes' = Gone
    /\ UNCHANGED <<used, req, undo, kept, strays>>

\* A task that is there is skipped, its timeline with it.
RestoreTask ==
    /\ undo # None /\ ~alive
    /\ alive' = TRUE /\ notes' = undo
    /\ UNCHANGED <<used, req, undo, kept, strays>>

\* A check that fails, a deadlock, a client that hangs up: rolled back.
Abort(r) == req[r] # None /\ End(r) /\ UNCHANGED <<tables, undo, kept, strays>>

Next ==
    \/ \E r \in Request :
         \/ \E n \in Note : AddNote(r, n) \/ EditNote(r, n) \/ DeleteNote(r, n)
         \/ Touch(r) \/ InsertNote(r) \/ UpdateNote(r) \/ RemoveNote(r)
         \/ LockTask(r, "patch") \/ LockTask(r, "delete")
         \/ ReadTimeline(r) \/ PatchTask(r) \/ DeleteTask(r) \/ Abort(r)
    \/ RestoreTask

Spec == Init /\ [][Next]_vars

-------------------------------------------------------------------------------
(* Properties.                                                              *)

Held(table) == {n \in Note : table[n] # None}

\* Types; a task that is gone has no notes.
TypeOK ==
    /\ alive \in BOOLEAN /\ notes \in Timeline
    /\ used \subseteq Note /\ Held(notes) \subseteq used
    /\ req \in [Request -> NoteWrite \cup TaskWrite \cup {None}]
    /\ undo \in Timeline \cup {None}
    /\ kept \subseteq used /\ strays \subseteq Note
    /\ ~alive => notes = Gone

\* A note that was acknowledged and that nobody deleted is on the task, or in
\* the response that undoes the task's delete, whatever note writes, patches,
\* deletes and undos interleave.
NotesSurvive ==
    IF alive THEN kept \subseteq Held(notes)
    ELSE undo # None /\ kept \subseteq Held(undo)

\* "serializes a note write against an in-flight PatchTask" (task_notes.go:77-79):
\* while a patch or a delete has the timeline it read, it stays as it was read,
\* but for writes that found the task gone when they touched it.
ReadersAreCurrent ==
    \A r \in Request : At(r, "patch", "write") \/ At(r, "delete", "write") =>
        \A n \in Note \ strays : req[r].seen[n] = notes[n]
===============================================================================
