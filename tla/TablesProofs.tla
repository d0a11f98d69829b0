------------------------------ MODULE TablesProofs ------------------------------
(***************************************************************************)
(* Proofs about the tables that concurrent requests share.                  *)
(*                                                                          *)
(* Notes, for any number of notes, dates and requests: who has the task's   *)
(* row is unique and keeps the task alive; what a patch or a delete has     *)
(* read under it holds every acknowledged note until it ends.               *)
(*                                                                          *)
(* Teams (T), for any teams, members, tasks and requests: a row has one     *)
(* writer at a time; what a request has read of it or validated stands      *)
(* until it ends; and whoever leaves a team is remembered.                  *)
(***************************************************************************)
EXTENDS Notes, TeamTables, TLAPS

CONSTANT Login

T == INSTANCE Teams

-------------------------------------------------------------------------------
(* Notes.                                                                   *)


Holds(r) == req[r] # None /\ req[r].holds

OneHolder == \A r, p \in Request : Holds(r) /\ Holds(p) => r = p

\* What a request under way may rely on.
Fit(q) == q # None =>
    /\ q.holds => alive
    /\ q.op \in {"add", "edit", "remove"} => q.note \in used
    /\ q.op = "add" /\ q.stage = "write" => q.holds
    /\ q.op \in {"patch", "delete"} => Held(q.seen) \subseteq used
    /\ q.op \in {"patch", "delete"} /\ q.stage = "write" =>
          /\ kept \subseteq Held(q.seen)
          /\ \A n \in Note \ strays : q.seen[n] = notes[n]

Fits == \A r \in Request : Fit(req[r])

UndoKnown == undo # None => Held(undo) \subseteq used

IInv == TypeOK /\ OneHolder /\ Fits /\ UndoKnown /\ NotesSurvive

-------------------------------------------------------------------------------
(* Initial states and steps.                                                *)

LEMMA InitInvariant == Init => IInv
<1> SUFFICES ASSUME Init PROVE IInv
  OBVIOUS
<1>1. TypeOK
  BY DEF Init, TypeOK, Held, Gone
<1>2. OneHolder /\ Fits /\ UndoKnown
  BY DEF Init, OneHolder, Holds, Fits, Fit, UndoKnown
<1>3. NotesSurvive
  BY DEF Init, NotesSurvive, Held
<1> QED
  BY <1>1, <1>2, <1>3 DEF IInv

\* A patch and a delete have the task's row.
LEMMA TaskWritesHold ==
    ASSUME TypeOK, NEW r \in Request, req[r] # None, req[r].op \in {"patch", "delete"}
    PROVE  req[r] \in TaskWrite /\ Holds(r)
<1>1. req[r] \in TaskWrite
  BY DEF TypeOK, NoteWrite
<1> QED
  BY <1>1 DEF TaskWrite, Holds

\* The tables stand: a request begins, goes on or ends.
LEMMA RequestStep ==
    ASSUME IInv, NEW r \in Request,
           NEW q \in NoteWrite \cup TaskWrite \cup {None},
           req' = [req EXCEPT ![r] = q],
           UNCHANGED <<alive, notes, undo, kept, strays>>,
           used \subseteq used', used' \subseteq Note,
           q # None /\ q.holds => \A p \in Request \ {r} : ~Holds(p),
           Fit(q)'
    PROVE  IInv'
<1> USE DEF IInv
<1>1. \A p \in Request : req'[p] = IF p = r THEN q ELSE req[p]
  BY DEF TypeOK
<1>2. TypeOK'
  BY DEF TypeOK, Held, Gone, Timeline
<1>3. OneHolder'
  BY <1>1 DEF OneHolder, Holds
<1>4. Fits'
  <2> SUFFICES ASSUME NEW p \in Request, p # r PROVE Fit(req[p])'
    BY <1>1 DEF Fits
  <2>1. Fit(req[p]) /\ req'[p] = req[p]
    BY <1>1 DEF Fits
  <2>2. \A x : Held(x)' = Held(x)
    BY DEF Held
  <2> QED
    BY <2>1, <2>2 DEF Fit
<1>5. UndoKnown' /\ NotesSurvive'
  <2>1. \A x : Held(x)' = Held(x)
    BY DEF Held
  <2> QED
    BY <2>1 DEF UndoKnown, NotesSurvive
<1> QED
  BY <1>2, <1>3, <1>4, <1>5

\* The tables change under the request r, which ends; what the others may rely
\* on still stands.
LEMMA LastStep ==
    ASSUME IInv, NEW r \in Request, End(r), TypeOK', UndoKnown', NotesSurvive',
           \A p \in Request \ {r} : Fit(req[p]) => Fit(req[p])'
    PROVE  IInv'
<1>1. \A p \in Request : req'[p] = IF p = r THEN None ELSE req[p]
  BY DEF IInv, TypeOK, End
<1>2. OneHolder'
  BY <1>1 DEF IInv, OneHolder, Holds
<1> QED
  BY <1>1, <1>2 DEF IInv, Fits, Fit

\* Note requests begin on a task that is there and a note that has its id.
LEMMA NoteBegins ==
    ASSUME IInv, NEW r \in Request, NEW n \in Note,
           AddNote(r, n) \/ EditNote(r, n) \/ DeleteNote(r, n)
    PROVE  IInv'
<1>1. PICK op \in {"add", "edit", "remove"}, d \in Date, dated \in BOOLEAN :
         /\ req' = [req EXCEPT ![r] = NoteRequest(op, n, d, dated)]
         /\ UNCHANGED <<alive, notes, undo, kept, strays>>
         /\ used \subseteq used' /\ used' \subseteq Note /\ n \in used'
  <2>1. CASE AddNote(r, n)
    BY <2>1 DEF AddNote, Begin, IInv, TypeOK
  <2>2. CASE EditNote(r, n)
    BY <2>2 DEF EditNote, Begin, IInv, TypeOK, Timeline, Held, tables
  <2>3. CASE DeleteNote(r, n)
    BY <2>3 DEF DeleteNote, Begin, IInv, TypeOK, Timeline, Held, tables
  <2> QED
    BY <2>1, <2>2, <2>3
<1>2. PICK q : q = NoteRequest(op, n, d, dated)
  OBVIOUS
<1>3. q \in NoteWrite /\ q.holds = FALSE /\ q.op = op /\ q.stage = "touch" /\ q.note = n
  BY <1>2 DEF NoteRequest, NoteWrite
<1>4. Fit(q)'
  BY <1>1, <1>3 DEF Fit
<1> QED
  BY <1>1, <1>2, <1>3, <1>4, RequestStep

LEMMA Touches ==
    ASSUME IInv, NEW r \in Request, Touch(r)
    PROVE  IInv'
<1> USE DEF IInv
<1>1. req[r] \in NoteWrite
  BY DEF Touch, Touching, At, Does, TypeOK, TaskWrite
<1>2. CASE alive \/ req[r].op # "add"
  <2>0. PICK q : q = [req[r] EXCEPT !.stage = "write", !.holds = alive]
    OBVIOUS
  <2>1. req' = [req EXCEPT ![r] = q]
    BY <1>1, <1>2, <2>0 DEF Touch, TypeOK
  <2>2. q \in NoteWrite /\ q.op = req[r].op /\ q.holds = alive /\ q.note = req[r].note
    BY <1>1, <2>0 DEF TypeOK, NoteWrite
  <2>3. q.holds => \A p \in Request : ~Holds(p)
    BY <2>2 DEF Touch, Locked, Holds
  <2>4. Fit(req[r]) /\ req[r] # None
    BY DEF Fits, Touch, Touching, At, Does
  <2>5. q.op \in {"add", "edit", "remove"}
    BY <1>1, <2>2 DEF NoteWrite
  <2>6. UNCHANGED <<alive, notes, used, undo, kept, strays>>
    BY DEF Touch, tables
  <2>7. Fit(q)'
    BY <1>2, <2>2, <2>4, <2>5, <2>6 DEF Fit
  <2> QED
    BY <2>1, <2>2, <2>3, <2>6, <2>7, RequestStep DEF TypeOK
<1>3. CASE ~alive /\ req[r].op = "add"
  BY <1>3, RequestStep DEF Touch, End, tables, TypeOK, Fit
<1> QED
  BY <1>2, <1>3

\* A patch or a delete takes the row, reads the timeline, and a patch ends.
LEMMA TaskRequests ==
    ASSUME IInv, NEW r \in Request,
           LockTask(r, "patch") \/ LockTask(r, "delete") \/ ReadTimeline(r)
             \/ PatchTask(r) \/ Abort(r)
    PROVE  IInv'
<1> USE DEF IInv
<1>0. UNCHANGED <<alive, notes, used, undo, kept, strays>> /\ used \subseteq Note
  BY DEF LockTask, ReadTimeline, PatchTask, Abort, tables, TypeOK
<1>1. CASE LockTask(r, "patch") \/ LockTask(r, "delete")
  <2>1. PICK op \in {"patch", "delete"} : LockTask(r, op)
    BY <1>1
  <2> DEFINE q == [op |-> op, stage |-> "read", holds |-> TRUE, seen |-> Gone]
  <2>2. q \in TaskWrite
    BY DEF TaskWrite, Gone, Timeline
  <2>3. alive /\ \A p \in Request : ~Holds(p)
    BY <2>1 DEF LockTask, Locked, Holds
  <2>4. Held(Gone) = {}
    BY DEF Held, Gone
  <2>5. Fit(q)'
    BY <1>0, <2>3, <2>4 DEF Fit, Held
  <2>6. req' = [req EXCEPT ![r] = q]
    BY <2>1 DEF LockTask, Begin
  <2> HIDE DEF q
  <2> QED
    BY <1>0, <2>2, <2>3, <2>5, <2>6, RequestStep
<1>2. CASE ReadTimeline(r)
  <2>1. req[r] # None /\ req[r].op \in {"patch", "delete"}
    BY <1>2 DEF ReadTimeline, At, Does
  <2>2. req[r] \in TaskWrite /\ Holds(r)
    BY <2>1, TaskWritesHold
  <2>0. PICK q : q = [req[r] EXCEPT !.stage = "write", !.seen = notes]
    OBVIOUS
  <2>3. req' = [req EXCEPT ![r] = q]
    BY <1>2, <2>0, <2>2 DEF ReadTimeline, TypeOK
  <2>4. q \in TaskWrite /\ q.op = req[r].op /\ q.seen = notes /\ q.holds
    BY <2>0, <2>2 DEF TypeOK, TaskWrite
  <2>5. alive /\ \A p \in Request \ {r} : ~Holds(p)
    BY <2>2 DEF OneHolder, Fits, Fit, Holds
  <2>6. kept \subseteq Held(notes) /\ Held(notes) \subseteq used
    BY <2>5 DEF NotesSurvive, TypeOK
  <2>7. \A x : Held(x)' = Held(x)
    BY DEF Held
  <2>8. Fit(q)'
    BY <1>0, <2>1, <2>4, <2>5, <2>6, <2>7 DEF Fit
  <2> QED
    BY <1>0, <2>3, <2>4, <2>5, <2>8, RequestStep
<1>3. CASE PatchTask(r) \/ Abort(r)
  <2>1. req' = [req EXCEPT ![r] = None]
    BY <1>3 DEF PatchTask, Abort, End
  <2>2. Fit(None)'
    BY DEF Fit
  <2> QED
    BY <1>0, <2>1, <2>2, RequestStep
<1> QED
  BY <1>1, <1>2, <1>3

-------------------------------------------------------------------------------
(* The statements that write.                                               *)

\* Whoever has the row, no patch or delete of another request has it.
LEMMA NoOtherReader ==
    ASSUME IInv, NEW r \in Request, Holds(r), NEW p \in Request \ {r}, req[p] # None
    PROVE  req[p].op \notin {"patch", "delete"}
BY TaskWritesHold DEF IInv, OneHolder

LEMMA Inserts ==
    ASSUME IInv, NEW r \in Request, InsertNote(r)
    PROVE  IInv'
<1> USE DEF IInv
<1>1. req[r] # None /\ req[r] \in NoteWrite /\ Holds(r) /\ req[r].note \in used /\ alive
  BY DEF InsertNote, At, Does, TypeOK, TaskWrite, Fits, Fit, Holds
<1> DEFINE n == req[r].note
<1>2. n \in Note /\ req[r].date \in Date /\ req[r].date # None
  BY <1>1, NotesAssumption DEF NoteWrite
<1>3. notes' \in Timeline /\ Held(notes') = Held(notes) \cup {n} /\ kept' = kept \cup {n}
      /\ UNCHANGED <<alive, used, undo, strays>>
  BY <1>2 DEF InsertNote, TypeOK, Timeline, Held
<1>4. TypeOK'
  <2>1. req' \in [Request -> NoteWrite \cup TaskWrite \cup {None}]
    BY DEF InsertNote, End, TypeOK
  <2>2. Held(notes)' = Held(notes')
    BY DEF Held
  <2> HIDE DEF n
  <2> QED
    BY <1>1, <1>3, <2>1, <2>2 DEF TypeOK, n
<1>5. UndoKnown' /\ NotesSurvive'
  <2>1. Held(notes)' = Held(notes') /\ Held(undo)' = Held(undo)
    BY <1>3 DEF Held
  <2> HIDE DEF n
  <2> QED
    BY <1>1, <1>3, <2>1 DEF UndoKnown, NotesSurvive
<1>6. ASSUME NEW p \in Request \ {r}, Fit(req[p]) PROVE Fit(req[p])'
  <2>1. req[p] # None => req[p].op \notin {"patch", "delete"}
    BY <1>1, NoOtherReader
  <2>2. req'[p] = req[p]
    BY DEF InsertNote, End, TypeOK
  <2> QED
    BY <1>3, <1>6, <2>1, <2>2 DEF Fit
<1> QED
  BY <1>4, <1>5, <1>6, LastStep DEF InsertNote

\* An edit and a delete of a note, which may go on without the task's row.
LEMMA Rewrites ==
    ASSUME IInv, NEW r \in Request, UpdateNote(r) \/ RemoveNote(r)
    PROVE  IInv'
<1> USE DEF IInv
<1>1. /\ req[r] # None /\ req[r] \in NoteWrite /\ End(r)
      /\ UNCHANGED <<alive, used, undo>>
  BY DEF UpdateNote, RemoveNote, At, Does, TypeOK, TaskWrite
<1>2. PICK n \in Note : n = req[r].note
  BY <1>1 DEF NoteWrite
<1> DEFINE Writes(d) ==
        /\ notes' = [notes EXCEPT ![n] = d]
        /\ d # None => notes[n] # None /\ kept' = kept
        /\ d = None => kept' \subseteq kept /\ (n \in kept' => notes[n] = None)
        /\ strays \subseteq strays' /\ strays' \subseteq strays \cup {n}
        /\ notes[n] # d => (Holds(r) \/ n \in strays')
<1>3. PICK d \in Date \cup {None} : Writes(d)
  <2>1. CASE UpdateNote(r) /\ notes[n] # None
    <3>1. req[r].date \in Date /\ req[r].date # None
      BY <1>1, NotesAssumption DEF NoteWrite
    <3> QED
      BY <1>1, <1>2, <2>1, <3>1 DEF UpdateNote, Straying, Holds
  <2>2. CASE UpdateNote(r) /\ notes[n] = None
    <3>1. notes' = notes /\ kept' = kept /\ strays' = strays
      BY <1>2, <2>2 DEF UpdateNote
    <3>2. notes = [notes EXCEPT ![n] = None]
      BY <2>2 DEF TypeOK, Timeline
    <3>3. Writes(None)
      BY <2>2, <3>1, <3>2
    <3> QED
      BY <3>3
  <2>3. CASE RemoveNote(r)
    <3>1. /\ notes' = [notes EXCEPT ![n] = None] /\ kept' = kept \ {n}
          /\ strays' = strays \cup Straying(r)
      BY <1>2, <2>3 DEF RemoveNote
    <3>2. Straying(r) \subseteq {n} /\ (Holds(r) \/ n \in Straying(r))
      BY <1>1, <1>2 DEF Straying, Holds
    <3>3. Writes(None)
      BY <3>1, <3>2
    <3> QED
      BY <3>3
  <2> QED
    BY <2>1, <2>2, <2>3
<1>4. /\ notes' \in Timeline
      /\ \A m \in Note : notes'[m] = IF m = n THEN d ELSE notes[m]
  BY <1>3 DEF TypeOK, Timeline
<1>5. kept' \subseteq kept
  BY <1>3
<1>6. Held(notes)' \subseteq Held(notes) /\ Held(undo)' = Held(undo)
  BY <1>1, <1>3, <1>4 DEF Held
<1>7. kept \subseteq Held(notes) => kept' \subseteq Held(notes)'
  BY <1>3, <1>4 DEF Held
<1>8. TypeOK'
  <2>1. req' \in [Request -> NoteWrite \cup TaskWrite \cup {None}] /\ strays' \subseteq Note
    BY <1>1, <1>3 DEF End, TypeOK
  <2>2. ~alive => notes' = Gone
    <3> SUFFICES ASSUME ~alive PROVE notes' = Gone
      OBVIOUS
    <3>1. notes = Gone /\ notes[n] = None
      BY DEF TypeOK, Gone
    <3> QED
      BY <1>3, <3>1 DEF Gone
  <2> QED
    BY <1>1, <1>4, <1>5, <1>6, <2>1, <2>2 DEF TypeOK, Gone
<1>9. UndoKnown' /\ NotesSurvive'
  BY <1>1, <1>5, <1>6, <1>7 DEF UndoKnown, NotesSurvive
<1>10. ASSUME NEW p \in Request \ {r}, Fit(req[p]) PROVE Fit(req[p])'
  <2>1. req'[p] = req[p] /\ \A x : Held(x)' = Held(x)
    BY <1>1 DEF End, TypeOK, Held
  <2>2. CASE Holds(r)
    <3>1. req[p] # None => req[p].op \notin {"patch", "delete"}
      BY <2>2, NoOtherReader
    <3> QED
      BY <1>1, <1>10, <2>1, <3>1 DEF Fit
  <2>3. CASE ~Holds(r)
    <3>1. \A m \in Note \ strays' : m \in Note \ strays /\ notes'[m] = notes[m]
      BY <1>3, <1>4, <2>3
    <3>2. req[p] # None /\ req[p].op \in {"patch", "delete"} /\ req[p].stage = "write" =>
            /\ kept' \subseteq Held(req[p].seen)
            /\ \A m \in Note \ strays' : req[p].seen[m] = notes'[m]
      BY <1>5, <1>10, <3>1 DEF Fit
    <3> QED
      BY <1>1, <1>10, <2>1, <3>2 DEF Fit
  <2> QED
    BY <2>2, <2>3
<1> QED
  BY <1>1, <1>8, <1>9, <1>10, LastStep

LEMMA TaskGoes ==
    ASSUME IInv, NEW r \in Request, DeleteTask(r)
    PROVE  IInv'
<1> USE DEF IInv
<1>1. req[r] # None /\ req[r].op = "delete" /\ req[r].stage = "write" /\ End(r)
  BY DEF DeleteTask, At, Does
<1>2. req[r] \in TaskWrite /\ Holds(r)
  BY <1>1, TaskWritesHold
<1>3. /\ undo' \in Timeline /\ undo' # None
      /\ Held(undo') \subseteq used /\ kept \subseteq Held(undo')
      /\ ~alive' /\ alive' \in BOOLEAN /\ notes' = Gone /\ UNCHANGED <<used, kept, strays>>
  <2>1. Fit(req[r])
    BY DEF Fits
  <2> QED
    BY <1>1, <1>2, <2>1, NotesAssumption DEF DeleteTask, Fit, TaskWrite
<1>4. Held(undo)' = Held(undo') /\ Held(notes)' = {} /\ Gone \in Timeline
  BY <1>3 DEF Held, Gone, Timeline
<1>5. TypeOK'
  <2>1. req' \in [Request -> NoteWrite \cup TaskWrite \cup {None}]
    BY <1>1 DEF End, TypeOK
  <2> QED
    BY <1>3, <1>4, <2>1 DEF TypeOK, Gone
<1>6. UndoKnown' /\ NotesSurvive'
  BY <1>3, <1>4 DEF UndoKnown, NotesSurvive
<1>7. ASSUME NEW p \in Request \ {r}, Fit(req[p]) PROVE Fit(req[p])'
  <2>1. req'[p] = req[p]
    BY <1>1 DEF End, TypeOK
  <2>2. ~Holds(p)
    BY <1>2 DEF OneHolder
  <2>3. req[p] # None => req[p].op \notin {"patch", "delete"}
    BY <1>2, NoOtherReader
  <2> QED
    BY <1>3, <1>7, <2>1, <2>2, <2>3 DEF Fit, Holds
<1> QED
  BY <1>1, <1>5, <1>6, <1>7, LastStep

LEMMA TaskReturns ==
    ASSUME IInv, RestoreTask
    PROVE  IInv'
<1> USE DEF IInv
<1>1. /\ ~alive /\ undo # None /\ undo \in Timeline /\ alive' = TRUE /\ notes' = undo
      /\ UNCHANGED <<used, req, undo, kept, strays>>
  BY DEF RestoreTask, TypeOK
<1>2. \A x : Held(x)' = Held(x)
  BY DEF Held
<1>3. Held(notes)' = Held(undo) /\ Held(undo)' = Held(undo)
  BY <1>1 DEF Held
<1>4. TypeOK'
  BY <1>1, <1>3 DEF TypeOK, UndoKnown
<1>5. UndoKnown' /\ NotesSurvive'
  BY <1>1, <1>3 DEF UndoKnown, NotesSurvive
<1>6. OneHolder'
  BY <1>1 DEF OneHolder, Holds
<1>7. Fits'
  <2> SUFFICES ASSUME NEW p \in Request PROVE Fit(req[p])'
    BY DEF Fits
  <2>1. Fit(req[p]) /\ req'[p] = req[p]
    BY <1>1 DEF Fits
  <2>2. req[p] # None => req[p].op \notin {"patch", "delete"}
    BY <1>1, <2>1, TaskWritesHold DEF Fit, Holds
  <2> QED
    BY <1>1, <2>1, <2>2 DEF Fit
<1> QED
  BY <1>4, <1>5, <1>6, <1>7

LEMMA Stutters == IInv /\ UNCHANGED vars => IInv'
<1> SUFFICES ASSUME IInv, UNCHANGED vars PROVE IInv'
  OBVIOUS
<1>1. UNCHANGED <<alive, notes, used, req, undo, kept, strays>>
  BY DEF vars, tables
<1>2. \A x : Held(x)' = Held(x)
  BY DEF Held
<1>3. TypeOK' /\ OneHolder' /\ UndoKnown' /\ NotesSurvive'
  BY <1>1 DEF IInv, TypeOK, OneHolder, Holds, UndoKnown, NotesSurvive, Held, Gone, Timeline
<1>4. Fits'
  BY <1>1, <1>2 DEF IInv, Fits, Fit
<1> QED
  BY <1>3, <1>4 DEF IInv

LEMMA NextInvariant == IInv /\ [Next]_vars => IInv'
<1> SUFFICES ASSUME IInv, [Next]_vars PROVE IInv'
  OBVIOUS
<1>1. CASE \E r \in Request, n \in Note :
             AddNote(r, n) \/ EditNote(r, n) \/ DeleteNote(r, n)
  BY <1>1, NoteBegins
<1>2. CASE \E r \in Request : Touch(r)
  BY <1>2, Touches
<1>3. CASE \E r \in Request : InsertNote(r)
  BY <1>3, Inserts
<1>4. CASE \E r \in Request : UpdateNote(r) \/ RemoveNote(r)
  BY <1>4, Rewrites
<1>5. CASE \E r \in Request :
             LockTask(r, "patch") \/ LockTask(r, "delete") \/ ReadTimeline(r)
               \/ PatchTask(r) \/ Abort(r)
  BY <1>5, TaskRequests
<1>6. CASE \E r \in Request : DeleteTask(r)
  BY <1>6, TaskGoes
<1>7. CASE RestoreTask
  BY <1>7, TaskReturns
<1>8. CASE UNCHANGED vars
  BY <1>8, Stutters
<1> QED
  BY <1>1, <1>2, <1>3, <1>4, <1>5, <1>6, <1>7, <1>8 DEF Next

-------------------------------------------------------------------------------
(* Theorems.                                                                *)

\* The invariant holds in every reachable state: one request at a time has the
\* task's row (touchTask, getTaskRow), and what it read under it still holds.
THEOREM Invariance == Spec => []IInv
BY InitInvariant, NextInvariant, PTL DEF Spec

\* Tables and requests keep their types, and a task that is gone has no notes
\* (task_activity.task_id, ON DELETE CASCADE).
THEOREM TypeCorrect == Spec => []TypeOK
<1>1. IInv => TypeOK
  BY DEF IInv
<1> QED
  BY <1>1, Invariance, PTL

\* No acknowledged note is lost: it is on the task or in the response that undoes
\* the task's delete (AddNote, DeleteTaskCascade, RestoreTasks).
THEOREM NotesKept == Spec => []NotesSurvive
<1>1. IInv => NotesSurvive
  BY DEF IInv
<1> QED
  BY <1>1, Invariance, PTL

\* While a patch or a delete has the timeline it read, it stays as it was read,
\* but for writes that found the task gone (touchTask).
THEOREM TimelinesStand == Spec => []ReadersAreCurrent
<1>1. IInv => ReadersAreCurrent
  BY DEF IInv, Fits, Fit, ReadersAreCurrent, At, Does
<1> QED
  BY <1>1, Invariance, PTL

\* An add that found its task writes before the task can go: the foreign key
\* never turns it away (task_notes.go:114-117).
AddsFindTheirTask ==
    \A r \in Request : At(r, "add", "write") => alive

\* The task of an add that has touched it is there until the note is (AddNote).
THEOREM AddsSucceed == Spec => []AddsFindTheirTask
<1>1. IInv => AddsFindTheirTask
  BY DEF IInv, Fits, Fit, AddsFindTheirTask, At, Does
<1> QED
  BY <1>1, Invariance, PTL
-------------------------------------------------------------------------------
(* Teams.                                                                   *)


WritesOfMember(q) == q # None /\ q.op \in {"createMember", "patchMember", "deleteMember"}
WritesOfTask(q) == q # None /\ q.op \in {"createTask", "patchTask"}

OneWriter == \A r, p \in Request :
    /\ WritesOfMember(req[r]) /\ WritesOfMember(req[p])
       /\ req[r].member = req[p].member => r = p
    /\ WritesOfTask(req[r]) /\ WritesOfTask(req[p])
       /\ req[r].task = req[p].task => r = p

\* Whoever has the task is, or was, in its team.
Entitled(row) == row.assignee # None =>
    row.team \in teamIDs[row.assignee] \/ <<row.assignee, row.team>> \in left

\* What a request under way may rely on.
FitTask(q) == WritesOfTask(q) =>
    /\ q.task \in used
    /\ Entitled(q.new)
    /\ q.op = "createTask" => /\ q.orig = None /\ tasks[q.task] = None
                              /\ undo # None => undo.task # q.task
    /\ q.op = "patchTask" => q.orig # None /\ tasks[q.task] = q.orig

FitMember(q) == WritesOfMember(q) =>
    /\ q.member \in used
    /\ q.op = "createMember" => q.member \notin members
    /\ q.op = "patchMember" => /\ q.member \in members
                               /\ q.had \subseteq used
                               /\ q.had \cap teams = teamIDs[q.member]
    /\ q.op # "deleteMember" => q.want \ q.todo \subseteq teams

TeamFits == \A r \in Request : FitTask(req[r]) /\ FitMember(req[r])

Known == /\ teams \subseteq used /\ members \subseteq used
         /\ \A t \in Task : tasks[t] # None => t \in used
         /\ undo # None => undo.task \in used /\ Entitled(undo.row)

TeamInv == T!TypeOK /\ RefsStand /\ OutsidersHaveLeft /\ Known /\ OneWriter /\ TeamFits

-------------------------------------------------------------------------------
(* Initial states and steps.                                                *)

LEMMA TeamInitInvariant == T!Init => TeamInv
<1> SUFFICES ASSUME T!Init PROVE TeamInv
  OBVIOUS
<1>1. T!TypeOK
  BY DEF T!Init, T!TypeOK
<1>2. RefsStand /\ OutsidersHaveLeft
  BY DEF T!Init, RefsStand, OutsidersHaveLeft
<1>3. Known /\ OneWriter /\ TeamFits
  BY DEF T!Init, Known, OneWriter, TeamFits, FitTask, FitMember, WritesOfTask, WritesOfMember
<1> QED
  BY <1>1, <1>2, <1>3 DEF TeamInv

\* The tables stand: a request begins, goes on or ends.
LEMMA TeamRequestStep ==
    ASSUME TeamInv, NEW r \in Request,
           NEW q \in T!TaskWrite \cup T!MemberWrite \cup T!Removal \cup {None},
           req' = [req EXCEPT ![r] = q],
           UNCHANGED <<teams, members, teamIDs, tasks, undo, left>>,
           used \subseteq used', used' \subseteq Team \cup Member \cup Task,
           \A p \in Request \ {r} :
             /\ WritesOfMember(q) /\ WritesOfMember(req[p]) => req[p].member # q.member
             /\ WritesOfTask(q) /\ WritesOfTask(req[p]) => req[p].task # q.task,
           FitTask(q)', FitMember(q)'
    PROVE  TeamInv'
<1> USE DEF TeamInv
<1>1. \A p \in Request : req'[p] = IF p = r THEN q ELSE req[p]
  BY DEF T!TypeOK
<1>2. T!TypeOK'
  BY DEF T!TypeOK
<1>3. RefsStand' /\ OutsidersHaveLeft' /\ Known'
  BY DEF RefsStand, OutsidersHaveLeft, Known, Entitled
<1>4. OneWriter'
  BY <1>1 DEF OneWriter, WritesOfTask, WritesOfMember
<1>5. TeamFits'
  <2> SUFFICES ASSUME NEW p \in Request, p # r PROVE FitTask(req[p])' /\ FitMember(req[p])'
    BY <1>1 DEF TeamFits
  <2>1. FitTask(req[p]) /\ FitMember(req[p]) /\ req'[p] = req[p]
    BY <1>1 DEF TeamFits
  <2>2. FitTask(req[p])'
    BY <2>1 DEF FitTask, Entitled, WritesOfTask
  <2>3. FitMember(req[p])'
    BY <2>1 DEF FitMember, WritesOfMember
  <2> QED
    BY <2>2, <2>3
<1> QED
  BY <1>2, <1>3, <1>4, <1>5

\* The tables change under the request r, which ends.
LEMMA TeamLastStep ==
    ASSUME TeamInv, NEW r \in Request, T!End(r),
           T!TypeOK', RefsStand', OutsidersHaveLeft', Known',
           \A p \in Request \ {r} : FitTask(req[p])' /\ FitMember(req[p])'
    PROVE  TeamInv'
<1>1. \A p \in Request : req'[p] = IF p = r THEN None ELSE req[p]
  BY DEF TeamInv, T!TypeOK, T!End
<1>2. OneWriter'
  BY <1>1 DEF TeamInv, OneWriter, WritesOfTask, WritesOfMember
<1>3. FitTask(req[r])' /\ FitMember(req[r])'
  BY <1>1 DEF FitTask, FitMember, WritesOfTask, WritesOfMember
<1> QED
  BY <1>2, <1>3 DEF TeamInv, TeamFits

\* The tables change under no request.
LEMMA FreeStep ==
    ASSUME TeamInv, req' = req,
           T!TypeOK', RefsStand', OutsidersHaveLeft', Known',
           \A p \in Request : FitTask(req[p])' /\ FitMember(req[p])'
    PROVE  TeamInv'
<1>1. OneWriter'
  BY DEF TeamInv, OneWriter, WritesOfTask, WritesOfMember
<1> QED
  BY <1>1 DEF TeamInv, TeamFits

\* A request ends: its type.
LEMMA EndTypes ==
    ASSUME T!TypeOK, NEW r \in Request, T!End(r)
    PROVE  /\ req' \in [Request -> T!TaskWrite \cup T!MemberWrite \cup T!Removal \cup {None}]
           /\ \A p \in Request \ {r} : req'[p] = req[p]
BY DEF T!TypeOK, T!End

\* Nobody leaves a team unseen.
Remembered == /\ left \subseteq left'
              /\ \A m \in Member : \A x \in teamIDs[m] :
                    x \in teamIDs'[m] \/ <<m, x>> \in left'

LEMMA StaysEntitled ==
    ASSUME Remembered, NEW row, row.assignee \in Member \cup {None}, Entitled(row)
    PROVE  Entitled(row)'
BY DEF Remembered, Entitled

-------------------------------------------------------------------------------
(* Requests begin, go on and are given up.                                  *)

\* A row that passes the checks is one, and its assignee is in its team.
LEMMA CheckedRow ==
    ASSUME NEW row \in [team : Team \cup {None}, assignee : Member \cup {None}], T!Checks(row)
    PROVE  row \in T!Row /\ Entitled(row)
BY DEF T!Checks, T!Row, Entitled

LEMMA TaskCreates ==
    ASSUME TeamInv, NEW r \in Request, NEW t \in Task, T!CreateTask(r, t)
    PROVE  TeamInv'
<1> USE DEF TeamInv
<1>1. PICK row \in [team : Team \cup {None}, assignee : Member \cup {None}] :
        /\ T!Checks(row)
        /\ T!Begin(r, [op |-> "createTask", task |-> t, orig |-> None, new |-> row])
  BY DEF T!CreateTask
<1>2. PICK q : q = [op |-> "createTask", task |-> t, orig |-> None, new |-> row]
  OBVIOUS
<1>3. row \in T!Row /\ Entitled(row)
  BY <1>1, CheckedRow
<1>4. q \in T!TaskWrite /\ q.op = "createTask" /\ q.task = t /\ q.orig = None /\ q.new = row
  BY <1>2, <1>3 DEF T!TaskWrite
<1>5. /\ req' = [req EXCEPT ![r] = q] /\ t \notin used /\ used' = used \cup {t}
      /\ UNCHANGED <<teams, members, teamIDs, tasks, undo, left>>
  BY <1>1, <1>2 DEF T!CreateTask, T!Begin
<1>6. tasks[t] = None /\ (undo # None => undo.task # t)
  BY <1>5 DEF Known
<1>7. \A p \in Request : WritesOfTask(req[p]) => req[p].task # t
  BY <1>5 DEF TeamFits, FitTask
<1>8. FitTask(q)' /\ FitMember(q)'
  BY <1>3, <1>4, <1>5, <1>6 DEF FitTask, FitMember, Entitled, WritesOfTask, WritesOfMember
<1>9. ~WritesOfMember(q)
  BY <1>4 DEF WritesOfMember
<1>10. used \subseteq used' /\ used' \subseteq Team \cup Member \cup Task
  BY <1>5 DEF T!TypeOK
<1> QED
  BY <1>4, <1>5, <1>7, <1>8, <1>9, <1>10, TeamRequestStep

LEMMA TaskPatches ==
    ASSUME TeamInv, NEW r \in Request, NEW t \in Task, T!PatchTask(r, t)
    PROVE  TeamInv'
<1> USE DEF TeamInv
<1>1. PICK row \in [team : Team \cup {None}, assignee : Member \cup {None}] :
        /\ T!Checks(row)
        /\ T!Begin(r, [op |-> "patchTask", task |-> t, orig |-> tasks[t], new |-> row])
  BY DEF T!PatchTask, T!ChecksPatch
<1>2. PICK q : q = [op |-> "patchTask", task |-> t, orig |-> tasks[t], new |-> row]
  OBVIOUS
<1>3. row \in T!Row /\ Entitled(row)
  BY <1>1, CheckedRow
<1>4. q \in T!TaskWrite /\ q.op = "patchTask" /\ q.task = t /\ q.orig = tasks[t] /\ q.new = row
  BY <1>2, <1>3 DEF T!TaskWrite, T!TypeOK
<1>5. /\ req' = [req EXCEPT ![r] = q] /\ tasks[t] # None
      /\ UNCHANGED <<teams, members, teamIDs, tasks, used, undo, left>>
  BY <1>1, <1>2 DEF T!PatchTask, T!Begin, T!tables
<1>6. \A p \in Request : WritesOfTask(req[p]) => req[p].task # t
  <2> SUFFICES ASSUME NEW p \in Request, WritesOfTask(req[p]), req[p].task = t PROVE FALSE
    OBVIOUS
  <2>1. FitTask(req[p]) /\ ~T!TaskLocked(t)
    BY DEF TeamFits, T!PatchTask
  <2> QED
    BY <1>5, <2>1 DEF FitTask, WritesOfTask, T!TaskLocked, T!Does
<1>7. FitTask(q)'
  BY <1>3, <1>4, <1>5 DEF FitTask, Entitled, WritesOfTask, Known
<1>8. ~WritesOfMember(q) /\ FitMember(q)'
  BY <1>4 DEF FitMember, WritesOfMember
<1>9. used \subseteq used' /\ used' \subseteq Team \cup Member \cup Task
  BY <1>5 DEF T!TypeOK
<1> QED
  BY <1>4, <1>5, <1>6, <1>7, <1>8, <1>9, TeamRequestStep

LEMMA MemberCreates ==
    ASSUME TeamInv, NEW r \in Request, NEW m \in Member, T!CreateMember(r, m)
    PROVE  TeamInv'
<1> USE DEF TeamInv
<1>1. PICK want \in SUBSET Team :
        T!Begin(r, [op |-> "createMember", member |-> m, had |-> {}, want |-> want,
                  todo |-> want])
  BY DEF T!CreateMember
<1>2. PICK q : q = [op |-> "createMember", member |-> m, had |-> {}, want |-> want,
                    todo |-> want]
  OBVIOUS
<1>3. /\ q \in T!MemberWrite /\ q.op = "createMember" /\ q.member = m
      /\ q.want = want /\ q.todo = want
  BY <1>2 DEF T!MemberWrite
<1>4. /\ req' = [req EXCEPT ![r] = q] /\ m \notin used /\ used' = used \cup {m}
      /\ UNCHANGED <<teams, members, teamIDs, tasks, undo, left>>
  BY <1>1, <1>2 DEF T!CreateMember, T!Begin
<1>5. \A p \in Request : WritesOfMember(req[p]) => req[p].member # m
  BY <1>4 DEF TeamFits, FitMember
<1>6. ~WritesOfTask(q) /\ FitTask(q)'
  BY <1>3 DEF FitTask, WritesOfTask
<1>7. FitMember(q)'
  BY <1>3, <1>4 DEF FitMember, WritesOfMember, Known
<1>8. used \subseteq used' /\ used' \subseteq Team \cup Member \cup Task
  BY <1>4 DEF T!TypeOK
<1> QED
  BY <1>3, <1>4, <1>5, <1>6, <1>7, <1>8, TeamRequestStep

\* A member that is there and not locked has no writer.
LEMMA Unwritten ==
    ASSUME TeamInv, NEW m \in members, ~T!MemberLocked(m), NEW p \in Request,
           WritesOfMember(req[p])
    PROVE  req[p].member # m
<1> SUFFICES ASSUME req[p].member = m PROVE FALSE
  OBVIOUS
<1>1. FitMember(req[p])
  BY DEF TeamInv, TeamFits
<1> QED
  BY <1>1 DEF FitMember, WritesOfMember, T!MemberLocked, T!Does

LEMMA MemberPatches ==
    ASSUME TeamInv, NEW r \in Request, NEW m \in Member, T!PatchMember(r, m)
    PROVE  TeamInv'
<1> USE DEF TeamInv
<1>1. PICK want \in SUBSET Team :
        T!Begin(r, [op |-> "patchMember", member |-> m, had |-> teamIDs[m], want |-> want,
                  todo |-> want])
  BY DEF T!PatchMember
<1>2. PICK q : q = [op |-> "patchMember", member |-> m, had |-> teamIDs[m], want |-> want,
                    todo |-> want]
  OBVIOUS
<1>3. /\ q \in T!MemberWrite /\ q.op = "patchMember" /\ q.member = m /\ q.had = teamIDs[m]
      /\ q.want = want /\ q.todo = want
  BY <1>2 DEF T!MemberWrite, T!TypeOK
<1>4. /\ req' = [req EXCEPT ![r] = q] /\ m \in members /\ ~T!MemberLocked(m)
      /\ UNCHANGED <<teams, members, teamIDs, tasks, used, undo, left>>
  BY <1>1, <1>2 DEF T!PatchMember, T!Begin, T!tables
<1>5. \A p \in Request : WritesOfMember(req[p]) => req[p].member # m
  BY <1>4, Unwritten
<1>6. ~WritesOfTask(q) /\ FitTask(q)'
  BY <1>3 DEF FitTask, WritesOfTask
<1>7. teamIDs[m] \subseteq teams /\ teams \subseteq used /\ m \in used
  BY <1>4 DEF RefsStand, Known
<1>8. FitMember(q)'
  BY <1>3, <1>4, <1>7 DEF FitMember, WritesOfMember
<1>9. used \subseteq used' /\ used' \subseteq Team \cup Member \cup Task
  BY <1>4 DEF T!TypeOK
<1> QED
  BY <1>3, <1>4, <1>5, <1>6, <1>8, <1>9, TeamRequestStep

LEMMA Validates ==
    ASSUME TeamInv, NEW r \in Request, T!ValidateTeam(r)
    PROVE  TeamInv'
<1> USE DEF TeamInv
<1>1. PICK x \in req[r].todo \cap teams : req' = [req EXCEPT ![r].todo = @ \ {x}]
  BY DEF T!ValidateTeam
<1>2. req[r] \in T!MemberWrite /\ req[r].op \in {"createMember", "patchMember"}
  BY DEF T!ValidateTeam, T!WritesMember, T!Does, T!TypeOK, T!TaskWrite, T!Removal
<1>3. PICK q : q = [req[r] EXCEPT !.todo = @ \ {x}]
  OBVIOUS
<1>4. /\ q \in T!MemberWrite /\ q.op = req[r].op /\ q.member = req[r].member
      /\ q.had = req[r].had /\ q.want = req[r].want /\ q.todo = req[r].todo \ {x}
  BY <1>2, <1>3 DEF T!MemberWrite
<1>5. /\ req' = [req EXCEPT ![r] = q]
      /\ UNCHANGED <<teams, members, teamIDs, tasks, used, undo, left>>
  BY <1>1, <1>3 DEF T!ValidateTeam, T!tables, T!TypeOK
<1>6. WritesOfMember(req[r]) /\ FitMember(req[r])
  BY <1>2 DEF WritesOfMember, TeamFits, T!ValidateTeam, T!WritesMember, T!Does
<1>7. \A p \in Request \ {r} : WritesOfMember(req[p]) => req[p].member # q.member
  BY <1>4, <1>6 DEF OneWriter
<1>8. ~WritesOfTask(q) /\ FitTask(q)'
  BY <1>2, <1>4 DEF FitTask, WritesOfTask
<1>9. q.want \ q.todo \subseteq teams
  BY <1>2, <1>4, <1>6 DEF FitMember
<1>10. FitMember(q)'
  BY <1>4, <1>5, <1>6, <1>9 DEF FitMember, WritesOfMember
<1>11. used \subseteq used' /\ used' \subseteq Team \cup Member \cup Task
  BY <1>5 DEF T!TypeOK
<1> QED
  BY <1>4, <1>5, <1>7, <1>8, <1>10, <1>11, TeamRequestStep

LEMMA RemovalBegins ==
    ASSUME TeamInv, NEW r \in Request,
           \/ \E m \in Member : T!DeleteMember(r, m)
           \/ \E x \in Team : T!DeleteTeam(r, x)
           \/ T!Abort(r)
    PROVE  TeamInv'
<1> USE DEF TeamInv
<1>1. UNCHANGED <<teams, members, teamIDs, tasks, used, undo, left>>
  BY DEF T!DeleteMember, T!DeleteTeam, T!Abort, T!tables
<1>2. used \subseteq used' /\ used' \subseteq Team \cup Member \cup Task
  BY <1>1 DEF T!TypeOK
<1>3. ASSUME NEW m \in Member, T!DeleteMember(r, m) PROVE TeamInv'
  <2>1. PICK q : q = [op |-> "deleteMember", member |-> m]
    OBVIOUS
  <2>2. q \in T!Removal /\ q.op = "deleteMember" /\ q.member = m
    BY <2>1 DEF T!Removal
  <2>3. req' = [req EXCEPT ![r] = q] /\ m \in members /\ ~T!MemberLocked(m)
    BY <1>3, <2>1 DEF T!DeleteMember, T!Begin
  <2>4. \A p \in Request : WritesOfMember(req[p]) => req[p].member # m
    BY <2>3, Unwritten
  <2>5. ~WritesOfTask(q) /\ FitTask(q)' /\ FitMember(q)'
    BY <1>1, <2>2, <2>3 DEF FitTask, FitMember, WritesOfTask, WritesOfMember, Known
  <2> QED
    BY <1>1, <1>2, <2>2, <2>3, <2>4, <2>5, TeamRequestStep
<1>4. ASSUME NEW x \in Team, T!DeleteTeam(r, x) PROVE TeamInv'
  <2>1. PICK q : q = [op |-> "deleteTeam", team |-> x]
    OBVIOUS
  <2>2. q \in T!Removal /\ q.op = "deleteTeam"
    BY <2>1 DEF T!Removal
  <2>3. req' = [req EXCEPT ![r] = q]
    BY <1>4, <2>1 DEF T!DeleteTeam, T!Begin
  <2>4. ~WritesOfTask(q) /\ ~WritesOfMember(q) /\ FitTask(q)' /\ FitMember(q)'
    BY <2>2 DEF FitTask, FitMember, WritesOfTask, WritesOfMember
  <2> QED
    BY <1>1, <1>2, <2>2, <2>3, <2>4, TeamRequestStep
<1>5. ASSUME T!Abort(r) PROVE TeamInv'
  <2>1. req' = [req EXCEPT ![r] = None]
    BY <1>5 DEF T!Abort, T!End
  <2>2. ~WritesOfTask(None) /\ ~WritesOfMember(None) /\ FitTask(None)' /\ FitMember(None)'
    BY DEF FitTask, FitMember, WritesOfTask, WritesOfMember
  <2> QED
    BY <1>1, <1>2, <2>1, <2>2, TeamRequestStep
<1> QED
  BY <1>3, <1>4, <1>5

-------------------------------------------------------------------------------
(* Tasks are written.                                                       *)

LEMMA TaskWrites ==
    ASSUME TeamInv, NEW r \in Request, T!WriteTask(r)
    PROVE  TeamInv'
<1> USE DEF TeamInv
<1>1. /\ req[r] \in T!TaskWrite /\ WritesOfTask(req[r]) /\ T!End(r)
      /\ FitTask(req[r]) /\ UNCHANGED <<teams, members, teamIDs, used, undo, left>>
  BY DEF T!WriteTask, T!WritesTask, T!Does, T!TypeOK, T!MemberWrite, T!Removal,
     WritesOfTask, TeamFits
<1>2. PICK t \in Task, row \in T!Row : t = req[r].task /\ row = req[r].new
  BY <1>1 DEF T!TaskWrite
<1>3. tasks' = [tasks EXCEPT ![t] = row]
  BY <1>2 DEF T!WriteTask
<1>4. \A u \in Task : tasks'[u] = IF u = t THEN row ELSE tasks[u]
  BY <1>3 DEF T!TypeOK
<1>5. Entitled(row) /\ t \in used
  BY <1>1, <1>2 DEF FitTask
<1>6. /\ row.team # None => row.team \in teams
      /\ row.assignee # None => row.assignee \in members
  <2>1. T!Refers(IF req[r].orig = None THEN T!Nothing ELSE req[r].orig, row)
    BY <1>2 DEF T!WriteTask
  <2>2. CASE req[r].orig = None
    BY <2>1, <2>2 DEF T!Refers, T!Nothing
  <2>3. CASE req[r].orig # None
    <3>1. tasks[t] = req[r].orig
      BY <1>1, <1>2, <2>3 DEF FitTask, WritesOfTask
    <3> QED
      BY <2>1, <2>3, <3>1 DEF T!Refers, RefsStand
  <2> QED
    BY <2>2, <2>3
<1>7. T!TypeOK'
  BY <1>1, <1>3, EndTypes DEF T!TypeOK
<1>8. RefsStand'
  BY <1>1, <1>4, <1>6 DEF RefsStand
<1>9. OutsidersHaveLeft' /\ Known'
  BY <1>1, <1>4, <1>5 DEF OutsidersHaveLeft, Known, Entitled
<1>10. ASSUME NEW p \in Request \ {r} PROVE FitTask(req[p])' /\ FitMember(req[p])'
  <2>1. FitTask(req[p]) /\ FitMember(req[p]) /\ req'[p] = req[p]
    BY <1>1, EndTypes DEF TeamFits
  <2>2. WritesOfTask(req[p]) => req[p].task \in Task /\ req[p].task # t
    BY <1>1, <1>2 DEF OneWriter, WritesOfTask, T!TypeOK, T!TaskWrite, T!MemberWrite, T!Removal
  <2>3. FitTask(req[p])'
    BY <1>1, <1>4, <2>1, <2>2 DEF FitTask, Entitled, WritesOfTask
  <2>4. FitMember(req[p])'
    BY <1>1, <2>1 DEF FitMember, WritesOfMember
  <2> QED
    BY <2>3, <2>4
<1> QED
  BY <1>1, <1>7, <1>8, <1>9, <1>10, TeamLastStep

\* The tasks that requests write.
LEMMA TaskOf ==
    ASSUME T!TypeOK, NEW p \in Request, WritesOfTask(req[p])
    PROVE  req[p] \in T!TaskWrite /\ req[p].task \in Task
BY DEF WritesOfTask, T!TypeOK, T!TaskWrite, T!MemberWrite, T!Removal

LEMMA TaskDeletes ==
    ASSUME TeamInv, NEW t \in Task, T!DeleteTask(t)
    PROVE  TeamInv'
<1> USE DEF TeamInv
<1>1. /\ tasks[t] # None /\ ~T!TaskLocked(t) /\ tasks[t] \in T!Row
      /\ undo' = [task |-> t, row |-> tasks[t]]
      /\ tasks' = [tasks EXCEPT ![t] = None]
      /\ UNCHANGED <<teams, members, teamIDs, used, req, left>>
  BY DEF T!DeleteTask, T!TypeOK
<1>2. \A u \in Task : tasks'[u] = IF u = t THEN None ELSE tasks[u]
  BY <1>1 DEF T!TypeOK
<1>3. undo'.task = t /\ undo'.row = tasks[t]
  BY <1>1
<1>4. T!TypeOK'
  BY <1>1 DEF T!TypeOK
<1>5. RefsStand' /\ OutsidersHaveLeft'
  BY <1>1, <1>2 DEF RefsStand, OutsidersHaveLeft
<1>6. Known'
  <2>1. Entitled(tasks[t]) /\ t \in used
    BY <1>1 DEF OutsidersHaveLeft, Entitled, Known
  <2>2. Entitled(undo.row)'
    BY <1>1, <1>3, <2>1 DEF Entitled
  <2> QED
    BY <1>1, <1>2, <1>3, <2>1, <2>2 DEF Known
<1>7. ASSUME NEW p \in Request PROVE FitTask(req[p])' /\ FitMember(req[p])'
  <2>1. FitTask(req[p]) /\ FitMember(req[p]) /\ req'[p] = req[p]
    BY <1>1 DEF TeamFits
  <2>2. WritesOfTask(req[p]) => req[p].task \in Task /\ req[p].task # t
    <3> SUFFICES ASSUME WritesOfTask(req[p]) PROVE req[p].task \in Task /\ req[p].task # t
      OBVIOUS
    <3>1. req[p].task \in Task
      BY TaskOf
    <3>2. CASE req[p].op = "createTask"
      BY <1>1, <2>1, <3>1, <3>2 DEF FitTask
    <3>3. CASE req[p].op = "patchTask"
      BY <1>1, <3>1, <3>3 DEF T!TaskLocked, T!Does, WritesOfTask
    <3> QED
      BY <3>2, <3>3 DEF WritesOfTask
  <2>3. FitTask(req[p])'
    BY <1>1, <1>2, <1>3, <2>1, <2>2 DEF FitTask, Entitled, WritesOfTask
  <2>4. FitMember(req[p])'
    BY <1>1, <2>1 DEF FitMember, WritesOfMember
  <2> QED
    BY <2>3, <2>4
<1> QED
  BY <1>1, <1>4, <1>5, <1>6, <1>7, FreeStep

LEMMA DeletedTaskReturns ==
    ASSUME TeamInv, T!RestoreTask
    PROVE  TeamInv'
<1> USE DEF TeamInv
<1>1. PICK t \in Task, row \in T!Row : undo # None /\ t = undo.task /\ row = undo.row
  BY DEF T!RestoreTask, T!TypeOK
<1>2. /\ tasks[t] = None /\ tasks' = [tasks EXCEPT ![t] = row] /\ T!Refers(T!Nothing, row)
      /\ UNCHANGED <<teams, members, teamIDs, used, req, undo, left>>
  BY <1>1 DEF T!RestoreTask
<1>3. \A u \in Task : tasks'[u] = IF u = t THEN row ELSE tasks[u]
  BY <1>2 DEF T!TypeOK
<1>4. Entitled(row) /\ t \in used
  BY <1>1 DEF Known
<1>5. T!TypeOK'
  BY <1>2 DEF T!TypeOK
<1>6. RefsStand'
  BY <1>2, <1>3 DEF RefsStand, T!Refers, T!Nothing
<1>7. OutsidersHaveLeft' /\ Known'
  BY <1>2, <1>3, <1>4 DEF OutsidersHaveLeft, Known, Entitled
<1>8. ASSUME NEW p \in Request PROVE FitTask(req[p])' /\ FitMember(req[p])'
  <2>1. FitTask(req[p]) /\ FitMember(req[p]) /\ req'[p] = req[p]
    BY <1>2 DEF TeamFits
  <2>2. WritesOfTask(req[p]) => req[p].task \in Task /\ req[p].task # t
    BY <1>1, <1>2, <2>1, TaskOf DEF FitTask, WritesOfTask
  <2>3. FitTask(req[p])'
    BY <1>2, <1>3, <2>1, <2>2 DEF FitTask, Entitled, WritesOfTask
  <2>4. FitMember(req[p])'
    BY <1>2, <2>1 DEF FitMember, WritesOfMember
  <2> QED
    BY <2>3, <2>4
<1> QED
  BY <1>2, <1>5, <1>6, <1>7, <1>8, FreeStep

-------------------------------------------------------------------------------
(* Members and teams are written.                                           *)

\* The tasks stand, and so does whoever may have them.
LEMMA TaskFitStands ==
    ASSUME TeamInv, NEW p \in Request, req'[p] = req[p], Remembered,
           UNCHANGED <<undo, tasks>>, used \subseteq used'
    PROVE  FitTask(req[p])'
<1>1. FitTask(req[p]) /\ T!TypeOK
  BY DEF TeamInv, TeamFits
<1>2. CASE WritesOfTask(req[p])
  <2>1. req[p].new \in T!Row
    BY <1>1, <1>2, TaskOf DEF T!TaskWrite
  <2>2. PICK row : row = req[p].new
    OBVIOUS
  <2>3. row.assignee \in Member \cup {None} /\ Entitled(row)
    BY <1>1, <1>2, <2>1, <2>2 DEF T!Row, FitTask
  <2>4. Entitled(row)'
    BY <2>3, StaysEntitled
  <2>5. Entitled(req[p].new)'
    BY <2>2, <2>4 DEF Entitled
  <2> QED
    BY <1>1, <1>2, <2>5 DEF FitTask, WritesOfTask
<1>3. CASE ~WritesOfTask(req[p])
  BY <1>3 DEF FitTask, WritesOfTask
<1> QED
  BY <1>2, <1>3

LEMMA RowsStayEntitled ==
    ASSUME T!TypeOK, OutsidersHaveLeft, Known, Remembered, UNCHANGED <<undo, tasks>>
    PROVE  OutsidersHaveLeft' /\ (undo # None => Entitled(undo.row))'
<1>1. ASSUME NEW t \in Task, tasks[t] # None, tasks[t].assignee # None
      PROVE  \/ tasks[t].team \in teamIDs'[tasks[t].assignee]
             \/ <<tasks[t].assignee, tasks[t].team>> \in left'
  <2>1. tasks[t] \in T!Row
    BY <1>1 DEF T!TypeOK
  <2>2. tasks[t].assignee \in Member
    BY <1>1, <2>1 DEF T!Row
  <2> QED
    BY <1>1, <2>2 DEF OutsidersHaveLeft, Remembered
<1>2. ASSUME undo # None, undo.row.assignee # None
      PROVE  \/ undo.row.team \in teamIDs'[undo.row.assignee]
             \/ <<undo.row.assignee, undo.row.team>> \in left'
  <2>1. undo.row \in T!Row
    BY <1>2 DEF T!TypeOK
  <2>2. undo.row.assignee \in Member
    BY <1>2, <2>1 DEF T!Row
  <2> QED
    BY <1>2, <2>2 DEF Known, Entitled, Remembered
<1> QED
  BY <1>1, <1>2 DEF OutsidersHaveLeft, Entitled

LEMMA MemberWrites ==
    ASSUME TeamInv, NEW r \in Request, T!WriteMember(r)
    PROVE  TeamInv'
<1> USE DEF TeamInv
<1>1. /\ req[r] \in T!MemberWrite /\ WritesOfMember(req[r])
      /\ T!End(r) /\ FitMember(req[r])
      /\ req[r].op # "deleteMember"
      /\ UNCHANGED <<teams, tasks, used, undo>>
  BY DEF T!WriteMember, T!WritesMember, T!Does, T!TypeOK, T!TaskWrite, T!Removal,
     WritesOfMember, TeamFits
<1>2. PICK m \in Member, want \in SUBSET Team : m = req[r].member /\ want = req[r].want
  BY <1>1 DEF T!MemberWrite
<1>3. /\ members' = members \cup {m} /\ teamIDs' = [teamIDs EXCEPT ![m] = want]
      /\ left' = left \cup ({m} \X (teamIDs[m] \ want))
  BY <1>2 DEF T!WriteMember
<1>4. \A n \in Member : teamIDs'[n] = IF n = m THEN want ELSE teamIDs[n]
  BY <1>3 DEF T!TypeOK
<1>5. want \subseteq teams /\ m \in used
  BY <1>1, <1>2 DEF T!WriteMember, FitMember
<1>6. Remembered
  BY <1>3, <1>4 DEF Remembered
<1>7. T!TypeOK'
  <2>1. left' \subseteq Member \X Team
    BY <1>3 DEF T!TypeOK
  <2> QED
    BY <1>1, <1>3, <2>1, EndTypes DEF T!TypeOK
<1>8. RefsStand'
  BY <1>1, <1>3, <1>4, <1>5 DEF RefsStand
<1>9. OutsidersHaveLeft' /\ Known'
  <2>1. OutsidersHaveLeft' /\ (undo # None => Entitled(undo.row))'
    BY <1>1, <1>6, RowsStayEntitled
  <2> QED
    BY <1>1, <1>3, <1>5, <2>1 DEF Known
<1>10. ASSUME NEW p \in Request \ {r} PROVE FitTask(req[p])' /\ FitMember(req[p])'
  <2>1. FitMember(req[p]) /\ req'[p] = req[p]
    BY <1>1, EndTypes DEF TeamFits
  <2>2. FitTask(req[p])'
    BY <1>1, <1>6, <2>1, TaskFitStands
  <2>3. WritesOfMember(req[p]) => req[p].member \in Member /\ req[p].member # m
    BY <1>1, <1>2 DEF OneWriter, WritesOfMember, T!TypeOK, T!TaskWrite, T!MemberWrite, T!Removal
  <2>4. FitMember(req[p])'
    BY <1>1, <1>3, <1>4, <2>1, <2>3 DEF FitMember, WritesOfMember
  <2> QED
    BY <2>2, <2>4
<1> QED
  BY <1>1, <1>7, <1>8, <1>9, <1>10, TeamLastStep

\* ON DELETE SET NULL leaves rows rows, and those of other members alone.
LEMMA Unassigning ==
    ASSUME T!TypeOK, NEW m \in Member
    PROVE  /\ T!Unassigned(m) \in [Task -> T!Row \cup {None}]
           /\ \A t \in Task :
                /\ tasks[t] = None => T!Unassigned(m)[t] = None
                /\ tasks[t] # None /\ tasks[t].assignee # m => T!Unassigned(m)[t] = tasks[t]
                /\ tasks[t] # None /\ tasks[t].assignee = m =>
                     /\ T!Unassigned(m)[t].assignee = None
                     /\ T!Unassigned(m)[t].team = tasks[t].team
<1>1. ASSUME NEW t \in Task, tasks[t] # None, tasks[t].assignee = m
      PROVE  LET row == [tasks[t] EXCEPT !.assignee = None]
             IN  /\ row \in T!Row
                 /\ row.assignee = None /\ row.team = tasks[t].team
  <2>1. tasks[t] \in T!Row
    BY <1>1 DEF T!TypeOK
  <2>2. PICK row : row = [tasks[t] EXCEPT !.assignee = None]
    OBVIOUS
  <2>3. row \in T!Row /\ row.assignee = None /\ row.team = tasks[t].team
    BY <2>1, <2>2 DEF T!Row
  <2> QED
    BY <2>2, <2>3
<1> QED
  BY <1>1 DEF T!Unassigned, T!TypeOK

LEMMA MemberRemoves ==
    ASSUME TeamInv, NEW r \in Request, T!RemoveMember(r)
    PROVE  TeamInv'
<1> USE DEF TeamInv
<1>1. /\ req[r] # None /\ req[r].op = "deleteMember" /\ T!End(r)
      /\ req[r] \in T!Removal /\ UNCHANGED <<teams, used, undo>>
  BY DEF T!RemoveMember, T!Does, T!TypeOK, T!TaskWrite, T!MemberWrite
<1>2. PICK m \in Member : m = req[r].member
  BY <1>1 DEF T!Removal
<1>3. /\ members' = members \ {m} /\ teamIDs' = [teamIDs EXCEPT ![m] = {}]
      /\ left' = left \cup ({m} \X teamIDs[m]) /\ tasks' = T!Unassigned(m)
      /\ \A t \in Task : tasks[t] # None /\ tasks[t].assignee = m => ~T!TaskLocked(t)
  BY <1>2 DEF T!RemoveMember
<1>4. \A n \in Member : teamIDs'[n] = IF n = m THEN {} ELSE teamIDs[n]
  BY <1>3 DEF T!TypeOK
<1>5. Remembered
  BY <1>3, <1>4 DEF Remembered
<1>6. /\ tasks' \in [Task -> T!Row \cup {None}]
      /\ \A t \in Task :
           /\ tasks[t] = None => tasks'[t] = None
           /\ tasks[t] # None /\ tasks[t].assignee # m => tasks'[t] = tasks[t]
           /\ tasks[t] # None /\ tasks[t].assignee = m =>
                tasks'[t].assignee = None /\ tasks'[t].team = tasks[t].team
  BY <1>3, Unassigning
<1>7. T!TypeOK'
  <2>1. left' \subseteq Member \X Team
    BY <1>3 DEF T!TypeOK
  <2> QED
    BY <1>1, <1>3, <1>6, <2>1, EndTypes DEF T!TypeOK
<1>8. RefsStand'
  <2>1. ASSUME NEW t \in Task, tasks'[t] # None
        PROVE  /\ tasks'[t].team # None => tasks'[t].team \in teams'
               /\ tasks'[t].assignee # None => tasks'[t].assignee \in members'
    <3>1. tasks[t] # None
      BY <1>6, <2>1
    <3> QED
      BY <1>1, <1>3, <1>6, <3>1 DEF RefsStand
  <2>2. ASSUME NEW n \in Member
        PROVE  teamIDs'[n] \subseteq teams' /\ (teamIDs'[n] # {} => n \in members')
    BY <1>1, <1>3, <1>4 DEF RefsStand
  <2> QED
    BY <2>1, <2>2 DEF RefsStand
<1>9. OutsidersHaveLeft'
  <2>1. ASSUME NEW t \in Task, tasks'[t] # None, tasks'[t].assignee # None
        PROVE  \/ tasks'[t].team \in teamIDs'[tasks'[t].assignee]
               \/ <<tasks'[t].assignee, tasks'[t].team>> \in left'
    <3>1. tasks[t] # None /\ tasks'[t] = tasks[t]
      BY <1>6, <2>1
    <3>2. tasks[t] \in T!Row /\ tasks[t].assignee \in Member
      BY <2>1, <3>1 DEF T!TypeOK, T!Row
    <3> QED
      BY <1>5, <2>1, <3>1, <3>2 DEF OutsidersHaveLeft, Remembered
  <2> QED
    BY <2>1 DEF OutsidersHaveLeft
<1>10. Known'
  <2>1. ASSUME undo # None PROVE Entitled(undo.row)'
    <3>1. PICK row : row = undo.row
      OBVIOUS
    <3>2. row \in T!Row /\ row.assignee \in Member \cup {None} /\ Entitled(row)
      BY <2>1, <3>1 DEF T!TypeOK, T!Row, Known
    <3>3. Entitled(row)'
      BY <1>5, <3>2, StaysEntitled
    <3> QED
      BY <1>1, <3>1, <3>3 DEF Entitled
  <2> QED
    BY <1>1, <1>3, <1>6, <2>1 DEF Known
<1>11. ASSUME NEW p \in Request \ {r} PROVE FitTask(req[p])' /\ FitMember(req[p])'
  <2>1. FitTask(req[p]) /\ FitMember(req[p]) /\ req'[p] = req[p]
    BY <1>1, EndTypes DEF TeamFits
  <2>2. ASSUME WritesOfTask(req[p]) PROVE FitTask(req[p])'
    <3>1. PICK t \in Task, row \in T!Row : t = req[p].task /\ row = req[p].new
      BY <2>2, TaskOf DEF T!TaskWrite
    <3>2. Entitled(row)'
      BY <1>5, <2>1, <2>2, <3>1, StaysEntitled DEF FitTask, T!Row
    <3>3. req[p].op = "patchTask" => tasks[t] # None /\ T!TaskLocked(t)
      BY <2>1, <2>2, <3>1 DEF FitTask, T!TaskLocked, T!Does, WritesOfTask
    <3>4. tasks'[t] = tasks[t]
      BY <1>3, <1>6, <2>1, <2>2, <3>1, <3>3 DEF FitTask, WritesOfTask
    <3> QED
      BY <1>1, <2>1, <2>2, <3>1, <3>2, <3>4 DEF FitTask, Entitled, WritesOfTask
  <2>3. ~WritesOfTask(req[p]) => FitTask(req[p])'
    BY <2>1 DEF FitTask, WritesOfTask
  <2>4. WritesOfMember(req[p]) => req[p].member \in Member /\ req[p].member # m
    BY <1>1, <1>2 DEF OneWriter, WritesOfMember, T!TypeOK, T!TaskWrite, T!MemberWrite, T!Removal
  <2>5. FitMember(req[p])'
    BY <1>1, <1>3, <1>4, <2>1, <2>4 DEF FitMember, WritesOfMember
  <2> QED
    BY <2>2, <2>3, <2>5
<1> QED
  BY <1>1, <1>7, <1>8, <1>9, <1>10, <1>11, TeamLastStep

LEMMA TeamCreates ==
    ASSUME TeamInv, NEW x \in Team, T!CreateTeam(x)
    PROVE  TeamInv'
<1> USE DEF TeamInv
<1>1. /\ x \notin used /\ used' = used \cup {x} /\ teams' = teams \cup {x}
      /\ UNCHANGED <<members, teamIDs, tasks, req, undo, left>>
  BY DEF T!CreateTeam
<1>2. T!TypeOK'
  BY <1>1 DEF T!TypeOK
<1>3. RefsStand' /\ OutsidersHaveLeft' /\ Known'
  BY <1>1 DEF RefsStand, OutsidersHaveLeft, Known, Entitled
<1>4. ASSUME NEW p \in Request PROVE FitTask(req[p])' /\ FitMember(req[p])'
  <2>1. FitTask(req[p]) /\ FitMember(req[p]) /\ req'[p] = req[p]
    BY <1>1 DEF TeamFits
  <2>2. FitTask(req[p])'
    BY <1>1, <2>1 DEF FitTask, Entitled, WritesOfTask
  <2>3. req[p] # None /\ req[p].op = "patchMember" =>
          req[p].had \cap teams' = req[p].had \cap teams
    BY <1>1, <2>1 DEF FitMember, WritesOfMember
  <2>4. FitMember(req[p])'
    BY <1>1, <2>1, <2>3 DEF FitMember, WritesOfMember
  <2> QED
    BY <2>2, <2>4
<1> QED
  BY <1>1, <1>2, <1>3, <1>4, FreeStep

LEMMA TeamRemoves ==
    ASSUME TeamInv, NEW r \in Request, T!RemoveTeam(r)
    PROVE  TeamInv'
<1> USE DEF TeamInv
<1>1. /\ req[r] # None /\ req[r].op = "deleteTeam" /\ T!End(r) /\ req[r] \in T!Removal
      /\ UNCHANGED <<members, tasks, used, undo>>
  BY DEF T!RemoveTeam, T!Does, T!TypeOK, T!TaskWrite, T!MemberWrite
<1>2. PICK x \in Team : x = req[r].team
  BY <1>1 DEF T!Removal
<1>3. /\ ~T!TeamShared(x) /\ T!Empty(x)
      /\ teams' = teams \ {x} /\ teamIDs' = [n \in Member |-> teamIDs[n] \ {x}]
      /\ left' = left \cup {<<n, x>> : n \in {k \in Member : x \in teamIDs[k]}}
  BY <1>2 DEF T!RemoveTeam
<1>4. \A n \in Member : teamIDs'[n] = teamIDs[n] \ {x}
  BY <1>3
<1>5. Remembered
  BY <1>3, <1>4 DEF Remembered
<1>6. T!TypeOK'
  <2>1. left' \subseteq Member \X Team /\ teamIDs' \in [Member -> SUBSET Team]
    BY <1>3 DEF T!TypeOK
  <2> QED
    BY <1>1, <1>3, <2>1, EndTypes DEF T!TypeOK
<1>7. RefsStand'
  BY <1>1, <1>3, <1>4 DEF RefsStand, T!Empty
<1>8. OutsidersHaveLeft' /\ Known'
  <2>1. OutsidersHaveLeft' /\ (undo # None => Entitled(undo.row))'
    BY <1>1, <1>5, RowsStayEntitled
  <2> QED
    BY <1>1, <1>3, <2>1 DEF Known
<1>9. ASSUME NEW p \in Request \ {r} PROVE FitTask(req[p])' /\ FitMember(req[p])'
  <2>1. FitMember(req[p]) /\ req'[p] = req[p]
    BY <1>1, EndTypes DEF TeamFits
  <2>2. FitTask(req[p])'
    BY <1>1, <1>5, <2>1, TaskFitStands
  <2>3. ASSUME WritesOfMember(req[p]) PROVE FitMember(req[p])'
    <3>1. req[p].member \in Member
      BY <2>3 DEF WritesOfMember, T!TypeOK, T!TaskWrite, T!MemberWrite, T!Removal
    <3>2. req[p].op = "patchMember" =>
            req[p].had \cap teams' = teamIDs'[req[p].member]
      BY <1>3, <1>4, <2>1, <2>3, <3>1 DEF FitMember
    <3>3. req[p].op # "deleteMember" => x \notin req[p].want \ req[p].todo
      BY <1>3, <2>3 DEF T!TeamShared, T!WritesMember, T!Does, WritesOfMember
    <3>4. req[p].op # "deleteMember" => req[p].want \ req[p].todo \subseteq teams'
      BY <1>3, <2>1, <2>3, <3>3 DEF FitMember
    <3> QED
      BY <1>1, <2>1, <2>3, <3>2, <3>4 DEF FitMember, WritesOfMember
  <2>4. ~WritesOfMember(req[p]) => FitMember(req[p])'
    BY <2>1 DEF FitMember, WritesOfMember
  <2> QED
    BY <2>2, <2>3, <2>4
<1> QED
  BY <1>1, <1>6, <1>7, <1>8, <1>9, TeamLastStep

LEMMA TeamStutters == TeamInv /\ UNCHANGED T!vars => TeamInv'
<1> SUFFICES ASSUME TeamInv, UNCHANGED T!vars PROVE TeamInv'
  OBVIOUS
<1>1. UNCHANGED <<teams, members, teamIDs, tasks, used, req, undo, left>>
  BY DEF T!vars, T!tables
<1>2. T!TypeOK' /\ RefsStand' /\ OutsidersHaveLeft' /\ Known'
  BY <1>1 DEF TeamInv, T!TypeOK, RefsStand, OutsidersHaveLeft, Known, Entitled
<1>3. TeamFits'
  BY <1>1 DEF TeamInv, TeamFits, FitTask, FitMember, Entitled, WritesOfTask, WritesOfMember
<1> QED
  BY <1>1, <1>2, <1>3, FreeStep DEF TeamFits

LEMMA TeamNextInvariant == TeamInv /\ [T!Next]_(T!vars) => TeamInv'
<1> SUFFICES ASSUME TeamInv, [T!Next]_(T!vars) PROVE TeamInv'
  OBVIOUS
<1>1. CASE \E r \in Request, t \in Task : T!CreateTask(r, t) \/ T!PatchTask(r, t)
  BY <1>1, TaskCreates, TaskPatches
<1>2. CASE \E r \in Request, m \in Member : T!CreateMember(r, m) \/ T!PatchMember(r, m)
  BY <1>2, MemberCreates, MemberPatches
<1>3. CASE \E r \in Request : \/ \E m \in Member : T!DeleteMember(r, m)
                              \/ \E x \in Team : T!DeleteTeam(r, x)
                              \/ T!Abort(r)
  BY <1>3, RemovalBegins
<1>4. CASE \E r \in Request : T!WriteTask(r) \/ T!ValidateTeam(r)
  BY <1>4, TaskWrites, Validates
<1>5. CASE \E r \in Request : T!WriteMember(r) \/ T!RemoveMember(r) \/ T!RemoveTeam(r)
  BY <1>5, MemberWrites, MemberRemoves, TeamRemoves
<1>6. CASE \E t \in Task : T!DeleteTask(t)
  BY <1>6, TaskDeletes
<1>7. CASE T!RestoreTask
  BY <1>7, DeletedTaskReturns
<1>8. CASE \E x \in Team : T!CreateTeam(x)
  BY <1>8, TeamCreates
<1>9. CASE UNCHANGED T!vars
  BY <1>9, TeamStutters
<1> QED
  BY <1>1, <1>2, <1>3, <1>4, <1>5, <1>6, <1>7, <1>8, <1>9 DEF T!Next

-------------------------------------------------------------------------------
(* Theorems.                                                                *)

\* The invariant holds in every reachable state: rows have one writer, who may
\* rely on what it read (FOR UPDATE) and validated (FOR KEY SHARE).
THEOREM TeamInvariance == T!Spec => []TeamInv
BY TeamInitInvariant, TeamNextInvariant, PTL DEF T!Spec

\* Tables and requests keep their types: nobody has a task without its team
\* (validateTaskFields).
THEOREM TeamTypeCorrect == T!Spec => []T!TypeOK
<1>1. TeamInv => T!TypeOK
  BY DEF TeamInv
<1> QED
  BY <1>1, TeamInvariance, PTL

\* No task and no membership refers to a team or a member that is gone
\* (DeleteTeam, DeleteMember and the foreign keys).
THEOREM NoDanglingRefs == T!Spec => []RefsStand
<1>1. TeamInv => RefsStand
  BY DEF TeamInv
<1> QED
  BY <1>1, TeamInvariance, PTL

\* A team that a member's write has validated stays until the write is over: "the
\* check can't go stale before the join rows are written" (members.go:57-58).
ValidatedTeamsStand ==
    \A r \in Request : T!WritesMember(r) => req[r].want \ req[r].todo \subseteq teams

\* What validateTeamIDs has checked stays true until the memberships are written.
THEOREM ValidationHolds == T!Spec => []ValidatedTeamsStand
<1>1. TeamInv => ValidatedTeamsStand
  BY DEF TeamInv, TeamFits, FitMember, ValidatedTeamsStand, T!WritesMember, WritesOfMember, T!Does
<1> QED
  BY <1>1, TeamInvariance, PTL

\* PatchMember overwrites the memberships it read, but for deleted teams.
THEOREM NoLostMembership == T!Spec => []MembershipsAsRead
<1>1. TeamInv => MembershipsAsRead
  BY DEF TeamInv, TeamFits, FitMember, MembershipsAsRead, WritesOfMember, Does, T!Does
<1> QED
  BY <1>1, TeamInvariance, PTL

\* Whoever has a task is in its team, or was once and left it (CreateTask,
\* patchTaskTx, RestoreTasks).
THEOREM AssigneesBelonged == T!Spec => []OutsidersHaveLeft
<1>1. TeamInv => OutsidersHaveLeft
  BY DEF TeamInv
<1> QED
  BY <1>1, TeamInvariance, PTL
===============================================================================
