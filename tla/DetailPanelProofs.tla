-------------------------- MODULE DetailPanelProofs --------------------------
(***************************************************************************)
(* Theorems about DetailPanel, for any tasks, tree, notes, weekdays, number *)
(* of handlers running at once and number of writes.                        *)
(***************************************************************************)
EXTENDS DetailPanel, FiniteSetTheorems, TLAPS

-------------------------------------------------------------------------------
(* The types: what a handler, a toast and the document on screen carry.     *)

DocOps == {"load", "reload", "refresh", "title", "rule", "field"}

\* A document whose notes were first written on its task.
HomeDoc(d) == d \in Doc /\ \A n \in d.notes : Born[n] = d.id

HandlerInv(h) ==
    /\ h \in Handler
    /\ h.op = "title" => h.text \in Text
    /\ h.op \in {"deleteNote", "reNote"} => h.note \in Note
    /\ h.note # None => /\ h.op \in {"editNote", "deleteNote", "reNote", "refresh"}
                        /\ h.task = Born[h.note]
    /\ h.holds => h.op \in NoteOps \cup {"refresh"}
    /\ h.at = "ok" /\ h.op \in DocOps => HomeDoc(h.reply) /\ h.reply.id = h.task

HandlersInv ==
    /\ running = [s \in Slot |-> running[s]]
    /\ \A s \in Slot : Busy(s) => HandlerInv(running[s])

ToastInv ==
    toast # None =>
        /\ toast \in Undoing
        /\ toast.undo = "reNote" => toast.note \in Note
        /\ toast.note # None => toast.undo = "reNote" /\ toast.task = Born[toast.note]

\* An open panel without a document has done nothing but load.
ShownInv ==
    /\ shown # None => HomeDoc(shown)
    /\ open # "closed" /\ shown = None =>
         toast = None /\ \A s \in Slot : Busy(s) => running[s].op = "load"
    /\ open # "closed" /\ shown # None => titleDraft \in Text

ServerInv == \A t \in Task : \A n \in srv[t].notes : Born[n] = t

TypeInv == TypeOK /\ ServerInv /\ HandlersInv /\ ToastInv /\ ShownInv

\* A handler put into its slot, or taken out of it.
LEMMA Put ==
    ASSUME HandlersInv, NEW s \in Slot, NEW h, HandlerInv(h),
           running' = [running EXCEPT ![s] = h]
    PROVE  /\ HandlersInv' /\ h # None /\ running'[s] = h
           /\ \A r \in Slot : r # s => running'[r] = running[r]
<1>1. h # None
  BY TreeAssumption DEF HandlerInv
<1>2. running'[s] = h /\ \A r \in Slot : r # s => running'[r] = running[r]
  BY DEF HandlersInv
<1>3. running' = [r \in Slot |-> running'[r]]
  BY DEF HandlersInv
<1>4. QED
  BY <1>1, <1>2, <1>3 DEF HandlersInv, Busy

LEMMA Taken ==
    ASSUME HandlersInv, NEW s \in Slot, End(s)
    PROVE  /\ HandlersInv' /\ running'[s] = None
           /\ \A r \in Slot : r # s => running'[r] = running[r]
<1>1. running'[s] = None /\ \A r \in Slot : r # s => running'[r] = running[r]
  BY DEF HandlersInv, End
<1>2. running' = [r \in Slot |-> running'[r]]
  BY DEF HandlersInv, End
<1>3. QED
  BY <1>1, <1>2 DEF HandlersInv, Busy

\* A handler as it starts, and with what it is given.
LEMMA Asked ==
    ASSUME page \in Task, NEW op \in Op, NEW t \in Task, NEW h, h = Asking(op, t)
    PROVE  /\ h \in Handler /\ h.op = op /\ h.task = t /\ h.text = None /\ h.note = None
           /\ h.live /\ h.at = "asked" /\ h.page = page
           /\ (op \in NoteOps => h.holds) /\ (op \notin NoteOps => ~h.holds)
<1>1. /\ h.op = op /\ h.task = t /\ h.text = None /\ h.note = None /\ h.live
      /\ h.at = "asked" /\ h.page = page
  BY DEF Asking
<1>2. (op \in NoteOps => h.holds) /\ (op \notin NoteOps => ~h.holds)
  BY DEF Asking
<1>3. h \in Handler
  BY DEF Asking, Handler, Progress
<1>4. QED
  BY <1>1, <1>2, <1>3

LEMMA AskedPlain ==
    ASSUME page \in Task, NEW op \in Op \ {"title", "deleteNote", "reNote"}, NEW t \in Task,
           NEW h, h = Asking(op, t)
    PROVE  /\ HandlerInv(h) /\ h.op = op /\ h.live /\ h.page = page
           /\ (op \in NoteOps => h.holds) /\ (op \notin NoteOps => ~h.holds)
  BY Asked DEF HandlerInv

LEMMA AskedLoad ==
    ASSUME page \in Task, NEW t \in Task, NEW h, h = [Asking("load", t) EXCEPT !.page = t]
    PROVE  HandlerInv(h) /\ h.op = "load" /\ h.live /\ h.page = t /\ ~h.holds
<1>1. PICK a : a = Asking("load", t)
  OBVIOUS
<1>2. /\ a \in Handler /\ a.op = "load" /\ a.task = t /\ a.text = None /\ a.note = None
      /\ a.live /\ a.at = "asked" /\ ~a.holds
  BY <1>1, Asked DEF Op, NoteOps
<1>3. /\ h \in Handler /\ h.op = "load" /\ h.task = t /\ h.text = None /\ h.note = None
      /\ h.live /\ h.at = "asked" /\ ~h.holds /\ h.page = t
  BY <1>1, <1>2 DEF Handler
<1>4. QED
  BY <1>3 DEF HandlerInv

LEMMA AskedAdd ==
    ASSUME page \in Task, NEW t \in Task, NEW text \in Text,
           NEW h, h = [Asking("addNote", t) EXCEPT !.text = text]
    PROVE  HandlerInv(h) /\ h.op = "addNote" /\ h.holds
<1>1. PICK a : a = Asking("addNote", t)
  OBVIOUS
<1>2. /\ a \in Handler /\ a.op = "addNote" /\ a.task = t /\ a.text = None /\ a.note = None
      /\ a.live /\ a.at = "asked" /\ a.holds
  BY <1>1, Asked DEF Op, NoteOps
<1>3. /\ h \in Handler /\ h.op = "addNote" /\ h.task = t /\ h.note = None
      /\ h.at = "asked" /\ h.holds
  BY <1>1, <1>2 DEF Handler
<1>4. QED
  BY <1>3 DEF HandlerInv, NoteOps

\* A handler that goes on: its next request, the server's answer, a load that is
\* told to ignore it.
LEMMA ReloadInv ==
    ASSUME NEW h, HandlerInv(h), h.op \in {"subtask", "deleteSubtask", "restoreSubtask"},
           NEW t \in Task,
           NEW g, g = [h EXCEPT !.op = "reload", !.task = t, !.at = "asked", !.reply = None]
    PROVE  HandlerInv(g) /\ g.op = "reload" /\ ~h.holds /\ ~g.holds
<1>1. h \in Handler /\ h.note = None /\ ~h.holds
  BY DEF HandlerInv, NoteOps
<1>2. /\ g.op = "reload" /\ g.task = t /\ g.at = "asked" /\ g.reply = None
      /\ g.note = h.note /\ g.holds = h.holds
  BY <1>1 DEF Handler
<1>3. "reload" \in Op /\ "asked" \in Progress
  BY DEF Op, Progress
<1>4. g \in Handler
  BY <1>1, <1>3 DEF Handler
<1>5. QED
  BY <1>1, <1>2, <1>4 DEF HandlerInv

LEMMA RefreshInv ==
    ASSUME NEW h, HandlerInv(h), h.op \in NoteOps \cup {"reNote"}, NEW n \in {h.note, None},
           NEW g, g = [h EXCEPT !.op = "refresh", !.at = "asked", !.note = n]
    PROVE  HandlerInv(g) /\ g.op = "refresh" /\ g.holds = h.holds
<1>1. h \in Handler /\ (h.note # None => h.task = Born[h.note])
  BY DEF HandlerInv
<1>2. /\ g \in Handler /\ g.op = "refresh" /\ g.at = "asked" /\ g.task = h.task
      /\ g.note \in {h.note, None} /\ g.holds = h.holds
  BY <1>1 DEF Handler, Op, Progress
<1>3. QED
  BY <1>1, <1>2 DEF HandlerInv

LEMMA CancelInv ==
    ASSUME NEW h, HandlerInv(h), NEW g, g = [h EXCEPT !.live = FALSE]
    PROVE  HandlerInv(g) /\ g.op = h.op /\ g.holds = h.holds /\ ~g.live
<1>1. h \in Handler
  BY DEF HandlerInv
<1>2. /\ g \in Handler /\ g.op = h.op /\ g.task = h.task /\ g.text = h.text
      /\ g.note = h.note /\ g.holds = h.holds /\ ~g.live
      /\ g.at = h.at /\ g.reply = h.reply
  BY <1>1 DEF Handler
<1>3. QED
  BY <1>2 DEF HandlerInv

LEMMA CancelledInv ==
    ASSUME HandlersInv, NEW rs, rs = Cancelled(running)
    PROVE  /\ rs = [s \in Slot |-> rs[s]]
           /\ \A s \in Slot : Free(s) => rs[s] = None
           /\ \A s \in Slot : Busy(s) =>
                 /\ rs[s] # None /\ HandlerInv(rs[s]) /\ rs[s].op = running[s].op
                 /\ rs[s].holds = running[s].holds
                 /\ rs[s].op = "load" => ~rs[s].live
<1>1. rs = [s \in Slot |-> rs[s]] /\ \A s \in Slot : Free(s) => rs[s] = None
  BY DEF Cancelled, Free
<1>2. ASSUME NEW s \in Slot, Busy(s)
      PROVE  /\ rs[s] # None /\ HandlerInv(rs[s]) /\ rs[s].op = running[s].op
             /\ rs[s].holds = running[s].holds
             /\ rs[s].op = "load" => ~rs[s].live
  <2>1. HandlerInv(running[s])
    BY <1>2 DEF HandlersInv
  <2>2. CASE running[s].op = "load"
    <3>1. rs[s] = [running[s] EXCEPT !.live = FALSE]
      BY <1>2, <2>2 DEF Cancelled, Busy
    <3>2. HandlerInv(rs[s]) /\ rs[s].op = running[s].op /\ rs[s].holds = running[s].holds
          /\ ~rs[s].live
      BY <2>1, <3>1, CancelInv
    <3>3. rs[s] # None
      BY <3>2, TreeAssumption DEF HandlerInv
    <3>4. QED
      BY <3>2, <3>3
  <2>3. CASE running[s].op # "load"
    <3>1. rs[s] = running[s]
      BY <1>2, <2>3 DEF Cancelled
    <3>2. QED
      BY <1>2, <2>1, <2>3, <3>1 DEF Busy
  <2>4. QED
    BY <2>2, <2>3
<1>3. QED
  BY <1>1, <1>2

-------------------------------------------------------------------------------
(* Type correctness.                                                         *)

\* A user's write takes a slot.
LEMMA StartTypes ==
    ASSUME TypeInv, shown # None \/ open = "closed", NEW s \in Slot, NEW h, HandlerInv(h),
           Start(s, h), UNCHANGED <<id, page, shown, loading, noteDraft, editor, open, server>>,
           titleDraft' \in Text \cup {None},
           shown # None /\ open # "closed" => titleDraft' \in Text,
           noteBusy' \in BOOLEAN, deleting' \in BOOLEAN, toast' \in {toast, None}
    PROVE  TypeInv'
<1>1. running' = [running EXCEPT ![s] = h] /\ writes < MaxWrites /\ writes' = writes + 1
  BY DEF Start
<1>2. HandlersInv'
  BY <1>1, Put DEF TypeInv
<1>3. \A r \in Slot : Busy(r)' => running'[r] \in Handler
  BY <1>2 DEF HandlersInv, HandlerInv
<1>4. writes' \in 0..MaxWrites
  BY <1>1, TreeAssumption DEF TypeInv, TypeOK
<1>5. TypeOK'
  BY <1>3, <1>4 DEF TypeInv, TypeOK, ToastInv, server
<1>6. ToastInv'
  BY DEF TypeInv, ToastInv
<1>7. ShownInv' /\ ServerInv'
  BY DEF TypeInv, ShownInv, ServerInv, server
<1>8. QED
  BY <1>2, <1>5, <1>6, <1>7 DEF TypeInv

\* A handler ends: what it leaves on screen.
LEMMA EndTypes ==
    ASSUME TypeInv, NEW s \in Slot, End(s), UNCHANGED <<id, page, server, writes>>,
           shown' = None \/ HomeDoc(shown'),
           open # "closed" /\ shown # None => shown' # None,
           open # "closed" /\ shown' # None => titleDraft' \in Text,
           titleDraft' \in Text \cup {None}, noteDraft' = noteDraft, editor' = editor,
           loading' \in BOOLEAN, noteBusy' \in BOOLEAN, deleting' \in BOOLEAN,
           open' \in {"open", "closing", "closed"}, open' = "closed" <=> open = "closed",
           ToastInv', open # "closed" /\ shown = None => toast' = None
    PROVE  TypeInv'
<1>1. /\ HandlersInv' /\ running'[s] = None
      /\ \A r \in Slot : r # s => running'[r] = running[r]
  BY Taken DEF TypeInv
<1>2. \A r \in Slot : Busy(r)' => running'[r] \in Handler
  BY <1>1 DEF HandlersInv, HandlerInv
<1>3. shown' \in Doc \cup {None} /\ toast' \in Undoing \cup {None}
  BY DEF HomeDoc, ToastInv
<1>4. TypeOK'
  BY <1>2, <1>3 DEF TypeInv, TypeOK, server
<1>5. ShownInv'
  BY <1>1 DEF TypeInv, ShownInv, Busy
<1>6. ServerInv'
  BY DEF TypeInv, ServerInv, server
<1>7. QED
  BY <1>1, <1>4, <1>5, <1>6 DEF TypeInv

\* A handler goes on with its next request or with an answer; only the server
\* and the toast may change with it.
LEMMA ContinueTypes ==
    ASSUME TypeInv, NEW s \in Slot, Busy(s), NEW g, HandlerInv(g),
           running' = [running EXCEPT ![s] = g],
           running[s].op = "load" => g.op = "load",
           UNCHANGED <<id, page, shown, loading, titleDraft, flags, writes>>,
           noteDraft' \in {noteDraft, None}, editor' \in {editor, None},
           srv' \in [Task -> Record], alive' \subseteq Task, ServerInv',
           ToastInv', open # "closed" /\ shown = None => toast' = toast
    PROVE  TypeInv'
<1>1. /\ HandlersInv' /\ running'[s] = g
      /\ \A r \in Slot : r # s => running'[r] = running[r]
  BY Put DEF TypeInv
<1>2. \A r \in Slot : Busy(r)' => running'[r] \in Handler
  BY <1>1 DEF HandlersInv, HandlerInv
<1>3. toast' \in Undoing \cup {None}
  BY DEF ToastInv
<1>4. TypeOK'
  BY <1>2, <1>3 DEF TypeInv, TypeOK, flags
<1>5. ShownInv'
  BY <1>1 DEF TypeInv, ShownInv, Busy, flags
<1>6. QED
  BY <1>1, <1>4, <1>5 DEF TypeInv

\* Nothing but the screen changes.
LEMMA ScreenTypes ==
    ASSUME TypeInv,
           TypeNote \/ CancelEdit \/ RequestClose \/ Dismiss \/ \E n \in Note : StartEdit(n)
    PROVE  TypeInv'
<1>1. UNCHANGED <<id, page, shown, loading, titleDraft, noteBusy, deleting, server, running,
                  writes>>
  BY DEF TypeNote, CancelEdit, RequestClose, Dismiss, StartEdit, flags, drafts, server
<1>2. /\ noteDraft' \in Task \cup {None} /\ editor' \in Note \cup {None}
      /\ open' \in {"open", "closing", "closed"} /\ (open' = "closed" <=> open = "closed")
      /\ toast' \in {toast, None}
  BY TreeAssumption DEF TypeInv, TypeOK, TypeNote, CancelEdit, RequestClose, Dismiss, StartEdit,
         flags, drafts, Body, Header, Doc
<1>3. TypeOK'
  BY <1>1, <1>2 DEF TypeInv, TypeOK, server, Busy
<1>4. HandlersInv' /\ ServerInv'
  BY <1>1 DEF TypeInv, HandlersInv, ServerInv, Busy, server
<1>5. ToastInv' /\ ShownInv'
  BY <1>1, <1>2 DEF TypeInv, ToastInv, ShownInv, Busy
<1>6. QED
  BY <1>3, <1>4, <1>5 DEF TypeInv

LEMMA UnmountTypes ==
    ASSUME TypeInv, Unmount
    PROVE  TypeInv'
<1>1. running' = Cancelled(running)
  BY DEF Unmount
<1>2. HandlersInv'
  BY <1>1, CancelledInv DEF TypeInv, HandlersInv, Busy, Free
<1>3. \A r \in Slot : Busy(r)' => running'[r] \in Handler
  BY <1>2 DEF HandlersInv, HandlerInv
<1>4. TypeOK'
  BY <1>3 DEF TypeInv, TypeOK, Unmount, server
<1>5. ServerInv' /\ ToastInv' /\ ShownInv'
  BY DEF TypeInv, ServerInv, ToastInv, ShownInv, Unmount, server
<1>6. QED
  BY <1>2, <1>4, <1>5 DEF TypeInv

\* The panel moves to another task: earlier loads are cancelled, one starts.
LEMMA MoveRunning ==
    ASSUME TypeInv, NEW s \in Slot, NEW t \in Task, Goto(s, t)
    PROVE  /\ Free(s) /\ HandlersInv' /\ Busy(s)'
           /\ running'[s].op = "load" /\ running'[s].live /\ running'[s].page = t
           /\ ~running'[s].holds
           /\ \A r \in Slot : r # s =>
                 /\ Free(r) => running'[r] = None
                 /\ Busy(r) => /\ Busy(r)' /\ running'[r].op = running[r].op
                               /\ running'[r].holds = running[r].holds
                               /\ running'[r].op = "load" => ~running'[r].live
<1>1. PICK rs : rs = Cancelled(running)
  OBVIOUS
<1>2. PICK h : h = [Asking("load", t) EXCEPT !.page = t]
  OBVIOUS
<1>3. HandlerInv(h) /\ h.op = "load" /\ h.live /\ h.page = t /\ ~h.holds
  BY <1>2, AskedLoad DEF TypeInv, TypeOK
<1>4. h # None
  BY <1>3, TreeAssumption DEF HandlerInv
<1>5. /\ rs = [r \in Slot |-> rs[r]]
      /\ \A r \in Slot : Free(r) => rs[r] = None
      /\ \A r \in Slot : Busy(r) =>
                 /\ rs[r] # None /\ HandlerInv(rs[r]) /\ rs[r].op = running[r].op
                 /\ rs[r].holds = running[r].holds
                 /\ rs[r].op = "load" => ~rs[r].live
  BY <1>1, CancelledInv DEF TypeInv
<1>6. running' = [rs EXCEPT ![s] = h] /\ Free(s)
  BY <1>1, <1>2 DEF Goto, NextFree
<1>7. running'[s] = h /\ \A r \in Slot : r # s => running'[r] = rs[r]
  BY <1>5, <1>6
<1>8. running' = [r \in Slot |-> running'[r]]
  BY <1>5, <1>6
<1>9. HandlersInv'
  BY <1>3, <1>5, <1>7, <1>8 DEF HandlersInv, Busy, Free
<1>10. QED
  BY <1>3, <1>4, <1>5, <1>6, <1>7, <1>9 DEF Busy, Free

LEMMA MoveTypes ==
    ASSUME TypeInv, open # "closed", NEW s \in Slot, NEW t \in Task, Goto(s, t), id' \in Task
    PROVE  TypeInv'
<1>1. /\ HandlersInv' /\ running'[s].op = "load"
      /\ \A r \in Slot : r # s /\ Busy(r)' => Busy(r) /\ running'[r].op = running[r].op
  BY MoveRunning DEF Busy, Free
<1>2. \A r \in Slot : Busy(r)' => running'[r] \in Handler
  BY <1>1 DEF HandlersInv, HandlerInv
<1>3. TypeOK'
  BY <1>2 DEF TypeInv, TypeOK, Goto, flags, server
<1>4. ServerInv' /\ ToastInv'
  BY DEF TypeInv, ServerInv, ToastInv, Goto, server
<1>5. ShownInv'
  BY <1>1 DEF TypeInv, ShownInv, Goto, flags
<1>6. QED
  BY <1>1, <1>3, <1>4, <1>5 DEF TypeInv

LEMMA ShownTypes ==
    ASSUME TypeInv, Header
    PROVE  /\ shown # None /\ open # "closed" /\ shown \in Doc /\ shown.id \in Task
           /\ shown.rule \in Rule \cup {None} /\ shown.title \in Text /\ titleDraft \in Text
           /\ \A n \in shown.notes : n \in Note /\ Born[n] = shown.id
  BY DEF TypeInv, ShownInv, HomeDoc, Header, Doc

\* A change of the task on screen.
LEMMA PatchStarts ==
    ASSUME TypeInv, Header, NEW s \in Slot, NEW op \in {"title", "rule", "field"},
           NEW text \in Text \cup {None}, NEW rule \in Rule \cup {None},
           op = "title" => text \in Text, Patch(s, op, text, rule)
    PROVE  \E h : HandlerInv(h) /\ Start(s, h) /\ h.op = op /\ ~h.holds
<1>1. PICK h : h = [Asking(op, shown.id) EXCEPT !.text = text, !.rule = rule]
  OBVIOUS
<1>2. HandlerInv(h) /\ h.op = op /\ ~h.holds
  <2>1. page \in Task /\ shown.id \in Task
    BY ShownTypes DEF TypeInv, TypeOK
  <2>2. PICK a : a = Asking(op, shown.id)
    OBVIOUS
  <2>3. /\ a \in Handler /\ a.op = op /\ a.note = None /\ a.at = "asked" /\ ~a.holds
    BY <2>1, <2>2, Asked DEF Op, NoteOps
  <2>4. h = [a EXCEPT !.text = text, !.rule = rule]
    BY <1>1, <2>2
  <2>5. /\ h.op = op /\ h.text = text /\ h.note = None /\ h.at = "asked" /\ ~h.holds
    BY <2>3, <2>4 DEF Handler
  <2>6. h \in Handler
    BY <2>3, <2>4 DEF Handler
  <2>7. QED
    BY <2>5, <2>6 DEF HandlerInv
<1>3. Start(s, h)
  BY <1>1 DEF Patch
<1>4. QED
  BY <1>2, <1>3

LEMMA RuleStarts ==
    ASSUME TypeInv, NEW s \in Slot, NEW r \in Rule \cup {None}, Header, SaveRule(s, r)
    PROVE  \E h : HandlerInv(h) /\ Start(s, h) /\ h.op = "rule" /\ ~h.holds
  BY PatchStarts DEF SaveRule

LEMMA WriteStarts ==
    ASSUME TypeInv, NEW s \in Slot,
           \/ \E f \in Freq : SetFreq(s, f)
           \/ \E d \in Day : ToggleWeekday(s, d)
           \/ SaveTitle(s) \/ SaveField(s) \/ ToggleRecurOn(s) \/ ResendRule(s)
    PROVE  \E h : /\ HandlerInv(h) /\ Start(s, h)
                 /\ h.op \in {"title", "rule", "field"} /\ ~h.holds
<1>0. Header
  BY DEF SetFreq, ToggleWeekday, SaveTitle, SaveField, ToggleRecurOn, SaveRule, ResendRule, Body
<1>1. CASE \E f \in Freq : SetFreq(s, f)
  <2>1. PICK f \in Freq : SetFreq(s, f)
    BY <1>1
  <2> DEFINE prior == IF shown.rule.freq = "weekdays" THEN shown.rule.days ELSE {}
             days == IF f # "weekdays" THEN {} ELSE IF prior # {} THEN prior ELSE DefaultWeekdays
  <2>2. shown.rule \in Rule
    BY <1>0, <2>1, ShownTypes DEF SetFreq
  <2>3. days \in SUBSET Day
    BY <2>2 DEF Rule, DefaultWeekdays
  <2>4. SaveRule(s, [freq |-> f, days |-> days])
    BY <2>1 DEF SetFreq
  <2>5. QED
    BY <1>0, <2>3, <2>4, RuleStarts DEF Rule
<1>2. CASE \E d \in Day : ToggleWeekday(s, d)
  <2>1. PICK d \in Day : ToggleWeekday(s, d)
    BY <1>2
  <2> DEFINE days == IF d \in shown.rule.days THEN shown.rule.days \ {d}
                     ELSE shown.rule.days \cup {d}
  <2>2. days \in SUBSET Day
    BY <1>0, <2>1, ShownTypes DEF ToggleWeekday, Rule
  <2>3. SaveRule(s, [freq |-> "weekdays", days |-> days])
    BY <2>1 DEF ToggleWeekday
  <2>4. QED
    BY <1>0, <2>2, <2>3, RuleStarts DEF Rule, Freq
<1>3. CASE SaveTitle(s)
  <2>1. titleDraft' \in Text
    BY <1>0, <1>3, ShownTypes DEF SaveTitle, Text
  <2>2. Patch(s, "title", titleDraft', None)
    BY <1>3 DEF SaveTitle
  <2>3. PICK text \in Text : text = titleDraft'
    BY <2>1
  <2>4. QED
    BY <1>0, <2>2, <2>3, PatchStarts
<1>4. CASE SaveField(s)
  BY <1>0, <1>4, PatchStarts DEF SaveField
<1>5. CASE ToggleRecurOn(s)
  <2>1. PICK r \in Rule \cup {None} : SaveRule(s, r)
    BY <1>5 DEF ToggleRecurOn, Rule, Freq
  <2>2. QED
    BY <1>0, <2>1, RuleStarts
<1>6. CASE ResendRule(s)
  BY <1>0, <1>6, RuleStarts, ShownTypes DEF ResendRule
<1>7. QED
  BY <1>1, <1>2, <1>3, <1>4, <1>5, <1>6

LEMMA WriteTypes ==
    ASSUME TypeInv, NEW s \in Slot,
           \/ \E f \in Freq : SetFreq(s, f)
           \/ \E d \in Day : ToggleWeekday(s, d)
           \/ SaveTitle(s) \/ SaveField(s) \/ ToggleRecurOn(s) \/ ResendRule(s)
    PROVE  /\ TypeInv'
           /\ UNCHANGED <<id, page, shown, loading, noteDraft, editor, flags, toast, server>>
<1>1. Header
  BY DEF SetFreq, ToggleWeekday, SaveTitle, SaveField, ToggleRecurOn, SaveRule, ResendRule, Body
<1>2. UNCHANGED <<id, page, shown, loading, noteDraft, editor, flags, toast, server>>
  BY DEF SetFreq, ToggleWeekday, SaveTitle, SaveField, ToggleRecurOn, SaveRule, ResendRule, drafts
<1>3. titleDraft' \in Text
  <2>1. SaveTitle(s) => titleDraft' \in {titleDraft, <<shown.id, 1>>}
    BY DEF SaveTitle
  <2>2. ~SaveTitle(s) => titleDraft' = titleDraft
    BY DEF SetFreq, ToggleWeekday, SaveField, ToggleRecurOn, SaveRule, ResendRule, drafts
  <2>3. titleDraft \in Text /\ <<shown.id, 1>> \in Text
    BY <1>1, ShownTypes DEF Text
  <2>4. QED
    BY <2>1, <2>2, <2>3
<1>4. PICK h : HandlerInv(h) /\ Start(s, h)
  BY WriteStarts
<1>5. QED
  BY <1>1, <1>2, <1>3, <1>4, StartTypes, ShownTypes DEF TypeInv, TypeOK, flags

LEMMA SubtaskStarts ==
    ASSUME TypeInv, NEW s \in Slot, NEW t \in Task, WriteSubtask(s, t) \/ DeleteSubtask(s, t)
    PROVE  /\ \E h : /\ HandlerInv(h) /\ Start(s, h) /\ h.op \in {"subtask", "deleteSubtask"}
                     /\ ~h.holds
           /\ Header
           /\ UNCHANGED <<id, page, shown, loading, drafts, noteBusy, deleting, open, toast, server>>
<1>1. PICK op \in {"subtask", "deleteSubtask"} : Start(s, Asking(op, t))
  BY DEF WriteSubtask, DeleteSubtask
<1>2. PICK h : h = Asking(op, t)
  OBVIOUS
<1>3. HandlerInv(h) /\ h.op = op /\ ~h.holds
  BY <1>2, AskedPlain DEF Op, NoteOps, TypeInv, TypeOK
<1>4. QED
  BY <1>1, <1>2, <1>3 DEF WriteSubtask, DeleteSubtask, Body, flags

LEMMA NoteStarts ==
    ASSUME TypeInv, NEW s \in Slot, AddNote(s) \/ SaveEdit(s) \/ \E n \in Note : DeleteNote(s, n)
    PROVE  /\ \E h : HandlerInv(h) /\ Start(s, h) /\ h.op \in NoteOps /\ h.holds
           /\ Header /\ ~noteBusy /\ noteBusy' = TRUE
           /\ UNCHANGED <<id, page, shown, loading, drafts, deleting, open, toast, server>>
<1>1. /\ Header /\ ~noteBusy /\ noteBusy' = TRUE
      /\ UNCHANGED <<id, page, shown, loading, drafts, deleting, open, toast, server>>
  BY DEF DeleteNote, AddNote, SaveEdit, EditorOpen, NotesListed, Body
<1>2. page \in Task /\ shown.id \in Task
  BY <1>1, ShownTypes DEF TypeInv, TypeOK
<1>3. CASE SaveEdit(s) \/ \E n \in Note : DeleteNote(s, n)
  <2>1. PICK n \in shown.notes, op \in {"editNote", "deleteNote"} :
           Start(s, [Asking(op, shown.id) EXCEPT !.note = n])
    BY <1>3 DEF DeleteNote, SaveEdit, EditorOpen, NotesListed
  <2>2. PICK h : h = [Asking(op, shown.id) EXCEPT !.note = n]
    OBVIOUS
  <2>3. n \in Note /\ Born[n] = shown.id
    BY <1>1, ShownTypes
  <2>4. HandlerInv(h) /\ h.op = op /\ h.holds
    <3>1. PICK a : a = Asking(op, shown.id)
      OBVIOUS
    <3>2. /\ a \in Handler /\ a.op = op /\ a.task = shown.id /\ a.text = None
          /\ a.at = "asked" /\ a.holds
      BY <1>2, <3>1, Asked DEF Op, NoteOps
    <3>3. h = [a EXCEPT !.note = n]
      BY <2>2, <3>1
    <3>4. /\ h \in Handler /\ h.op = op /\ h.task = shown.id /\ h.note = n
          /\ h.at = "asked" /\ h.holds
      BY <2>3, <3>2, <3>3 DEF Handler
    <3>5. QED
      BY <2>3, <3>4 DEF HandlerInv, NoteOps
  <2>5. QED
    BY <1>1, <2>1, <2>2, <2>4 DEF NoteOps
<1>4. CASE AddNote(s)
  <2>1. PICK h : h = [Asking("addNote", shown.id) EXCEPT !.text = <<noteDraft, 1>>]
    OBVIOUS
  <2>2. <<noteDraft, 1>> \in Text
    BY <1>4 DEF AddNote, TypeInv, TypeOK, Text
  <2>3. HandlerInv(h) /\ h.op \in NoteOps /\ h.holds
    BY <1>1, <1>2, <2>1, <2>2, AskedAdd DEF NoteOps
  <2>4. QED
    BY <1>1, <1>4, <2>1, <2>3 DEF AddNote
<1>5. QED
  BY <1>3, <1>4

LEMMA DeleteStarts ==
    ASSUME TypeInv, NEW s \in Slot, DeleteTask(s)
    PROVE  /\ \E h : HandlerInv(h) /\ Start(s, h) /\ h.op = "delete" /\ ~h.holds
           /\ Header /\ ~deleting /\ deleting' = TRUE
           /\ UNCHANGED <<id, page, shown, loading, drafts, noteBusy, open, toast, server>>
<1>1. Header
  BY DEF DeleteTask
<1>2. PICK h : h = Asking("delete", shown.id)
  OBVIOUS
<1>3. HandlerInv(h) /\ h.op = "delete" /\ ~h.holds
  BY <1>1, <1>2, AskedPlain, ShownTypes DEF Op, NoteOps, TypeInv, TypeOK
<1>4. QED
  BY <1>2, <1>3 DEF DeleteTask

LEMMA CallTypes ==
    ASSUME TypeInv, NEW s \in Slot,
           \/ \E t \in Task : WriteSubtask(s, t) \/ DeleteSubtask(s, t)
           \/ \E n \in Note : DeleteNote(s, n)
           \/ AddNote(s) \/ SaveEdit(s) \/ DeleteTask(s)
    PROVE  TypeInv'
<1>1. /\ Header /\ \E h : HandlerInv(h) /\ Start(s, h)
      /\ UNCHANGED <<id, page, shown, loading, drafts, open, toast, server>>
      /\ noteBusy' \in {noteBusy, TRUE} /\ deleting' \in {deleting, TRUE}
  BY SubtaskStarts, NoteStarts, DeleteStarts
<1>2. QED
  BY <1>1, StartTypes, ShownTypes DEF TypeInv, TypeOK, drafts

LEMMA UndoStarts ==
    ASSUME TypeInv, NEW s \in Slot, Undo(s)
    PROVE  /\ \E h : /\ HandlerInv(h) /\ Start(s, h) /\ ~h.holds
                     /\ h.op \in {"reNote", "restore", "restoreSubtask"}
           /\ toast' = None /\ (shown # None \/ open = "closed")
           /\ UNCHANGED <<id, page, shown, loading, drafts, flags, server>>
<1>1. PICK h : h = [Asking(toast.undo, toast.task) EXCEPT
                       !.note = toast.note, !.gone = toast.gone, !.page = toast.page]
  OBVIOUS
<1>2. /\ toast # None /\ page \in Task /\ toast.undo \in {"reNote", "restore", "restoreSubtask"}
      /\ toast.task \in Task /\ toast.note \in Note \cup {None} /\ toast.gone \in SUBSET Task
      /\ toast.page \in Task
      /\ toast.undo = "reNote" => toast.note \in Note
      /\ toast.note # None => toast.undo = "reNote" /\ toast.task = Born[toast.note]
  BY DEF Undo, TypeInv, TypeOK, ToastInv, Undoing
<1>3. HandlerInv(h) /\ ~h.holds /\ h.op = toast.undo
  <2>1. PICK a : a = Asking(toast.undo, toast.task)
    OBVIOUS
  <2>2. /\ a \in Handler /\ a.op = toast.undo /\ a.task = toast.task /\ a.at = "asked"
        /\ ~a.holds
    BY <1>2, <2>1, Asked DEF Op, NoteOps
  <2>3. /\ h \in Handler /\ h.op = toast.undo /\ h.task = toast.task /\ h.note = toast.note
        /\ h.at = "asked" /\ ~h.holds
    BY <1>1, <1>2, <2>1, <2>2 DEF Handler
  <2>4. QED
    BY <1>2, <2>3 DEF HandlerInv
<1>4. shown # None \/ open = "closed"
  BY <1>2 DEF TypeInv, ShownInv
<1>5. QED
  BY <1>1, <1>2, <1>3, <1>4 DEF Undo

LEMMA UndoTypes ==
    ASSUME TypeInv, NEW s \in Slot, Undo(s)
    PROVE  TypeInv'
<1>1. PICK h : HandlerInv(h) /\ Start(s, h)
  BY UndoStarts
<1>2. /\ toast' = None /\ (shown # None \/ open = "closed")
      /\ UNCHANGED <<id, page, shown, loading, drafts, flags, server>>
  BY UndoStarts
<1>3. QED
  BY <1>1, <1>2, StartTypes DEF TypeInv, TypeOK, ShownInv, drafts, flags

LEMMA UserTypes ==
    ASSUME TypeInv, User
    PROVE  TypeInv'
<1>1. CASE TypeNote \/ CancelEdit \/ RequestClose \/ Dismiss \/ \E n \in Note : StartEdit(n)
  BY <1>1, ScreenTypes
<1>2. ASSUME NEW s \in Slot, NEW t \in Task, Navigate(s, t) \/ Select(s, t)
      PROVE  TypeInv'
  <2>1. CASE Goto(s, t) /\ open # "closed"
    BY <1>2, <2>1, MoveTypes DEF Navigate, Select, TypeInv, TypeOK
  <2>2. CASE ~(Goto(s, t) /\ open # "closed")
    <3>1. /\ id' \in Task
          /\ UNCHANGED <<page, shown, loading, drafts, flags, toast, server, running, writes>>
      BY <1>2, <2>2 DEF Navigate, Select, Body, Header
    <3>2. QED
      BY <3>1 DEF TypeInv, TypeOK, ServerInv, HandlersInv, ToastInv, ShownInv, Busy, drafts,
                  flags, server
  <2>3. QED
    BY <2>1, <2>2
<1>3. ASSUME NEW s \in Slot,
             \/ \E f \in Freq : SetFreq(s, f)
             \/ \E d \in Day : ToggleWeekday(s, d)
             \/ SaveTitle(s) \/ SaveField(s) \/ ToggleRecurOn(s) \/ ResendRule(s)
      PROVE  TypeInv'
  BY <1>3, WriteTypes
<1>4. ASSUME NEW s \in Slot,
             \/ \E t \in Task : WriteSubtask(s, t) \/ DeleteSubtask(s, t)
             \/ \E n \in Note : DeleteNote(s, n)
             \/ AddNote(s) \/ SaveEdit(s) \/ DeleteTask(s)
      PROVE  TypeInv'
  BY <1>4, CallTypes
<1>5. CASE ~(TypeNote \/ CancelEdit \/ RequestClose \/ Dismiss \/ \E n \in Note : StartEdit(n))
  <2>1. PICK s \in Slot :
          \/ \E t \in Task : Navigate(s, t) \/ Select(s, t) \/ WriteSubtask(s, t) \/ DeleteSubtask(s, t)
          \/ \E f \in Freq : SetFreq(s, f)
          \/ \E d \in Day : ToggleWeekday(s, d)
          \/ \E n \in Note : DeleteNote(s, n)
          \/ SaveTitle(s) \/ SaveField(s) \/ ToggleRecurOn(s) \/ ResendRule(s)
          \/ AddNote(s) \/ SaveEdit(s) \/ DeleteTask(s) \/ Undo(s)
    BY <1>5 DEF User
  <2>2. CASE \E t \in Task : Navigate(s, t) \/ Select(s, t)
    BY <2>2, <1>2
  <2>3. CASE ~\E t \in Task : Navigate(s, t) \/ Select(s, t)
    BY <2>1, <2>3, <1>3, <1>4, UndoTypes
  <2>4. QED
    BY <2>2, <2>3
<1>6. QED
  BY <1>1, <1>5

\* A toast that offers to undo what a handler did.
LEMMA RestoringInv ==
    ASSUME NEW h, HandlerInv(h), NEW op \in {"restore", "restoreSubtask"},
           toast' = Restoring(op, h)
    PROVE  ToastInv'
<1>1. h \in Handler
  BY DEF HandlerInv
<1>2. /\ h.task \in Task /\ h.gone \in SUBSET Task /\ h.page \in Task
  BY <1>1 DEF Handler
<1>3. toast' \in Undoing /\ toast'.undo = op /\ toast'.note = None
  BY <1>2 DEF Restoring, Undoing
<1>4. QED
  BY <1>3 DEF ToastInv

LEMMA LoadTypes ==
    ASSUME TypeInv, NEW s \in Slot, LoadAnswer(s) \/ StaleLoadAnswer(s)
    PROVE  TypeInv'
<1>1. Busy(s) /\ HandlerInv(running[s]) /\ running[s].op = "load"
  BY DEF TypeInv, HandlersInv, LoadAnswer, StaleLoadAnswer, Answered
<1>2. CASE LoadAnswer(s) /\ Succeeded(s, "load")
  <2>1. HomeDoc(running[s].reply)
    BY <1>1, <1>2 DEF HandlerInv, Succeeded, DocOps
  <2>2. shown' = running[s].reply /\ titleDraft' = running[s].reply.title
    BY <1>2 DEF LoadAnswer
  <2>3. HomeDoc(shown') /\ shown' # None /\ titleDraft' \in Text
    BY <2>1, <2>2, TreeAssumption DEF HomeDoc, Doc
  <2>4. /\ End(s) /\ loading' = FALSE
        /\ UNCHANGED <<id, page, noteDraft, editor, noteBusy, deleting, open, toast, server, writes>>
    BY <1>2 DEF LoadAnswer, flags
  <2>5. ToastInv' /\ (open # "closed" /\ shown = None => toast' = None)
    BY <2>4 DEF TypeInv, ToastInv, ShownInv
  <2>6. QED
    BY <2>3, <2>4, <2>5, EndTypes DEF TypeInv, TypeOK
<1>3. CASE ~(LoadAnswer(s) /\ Succeeded(s, "load"))
  <2>1. /\ End(s) /\ loading' \in {loading, FALSE} /\ shown' = shown /\ titleDraft' = titleDraft
        /\ UNCHANGED <<id, page, noteDraft, editor, noteBusy, deleting, open, toast, server, writes>>
    BY <1>3 DEF LoadAnswer, StaleLoadAnswer, flags, drafts
  <2>2. ToastInv' /\ (open # "closed" /\ shown = None => toast' = None)
    BY <2>1 DEF TypeInv, ToastInv, ShownInv
  <2>3. QED
    BY <2>1, <2>2, EndTypes DEF TypeInv, TypeOK, ShownInv
<1>4. QED
  BY <1>2, <1>3

\* What a handler other than a load puts on screen.
LEMMA ShowTypes ==
    ASSUME TypeInv, NEW s \in Slot, Busy(s), running[s].op # "load",
           NEW d, Show(d), open # "closed" /\ shown # None => HomeDoc(d)
    PROVE  /\ shown' = None \/ HomeDoc(shown')
           /\ open # "closed" => shown # None /\ shown' # None /\ titleDraft \in Text
           /\ open # "closed" => HomeDoc(shown) /\ shown' = d
<1>1. open # "closed" => shown # None /\ HomeDoc(shown) /\ titleDraft \in Text
  BY DEF TypeInv, ShownInv
<1>2. QED
  BY <1>1, TreeAssumption DEF Show, HomeDoc

LEMMA AnswerTypes ==
    ASSUME TypeInv, NEW s \in Slot, PatchAnswer(s) \/ Reloaded(s)
    PROVE  TypeInv'
<1>1. Busy(s) /\ HandlerInv(running[s]) /\ running[s].op \in {"title", "rule", "field", "reload"}
  BY DEF TypeInv, HandlersInv, PatchAnswer, Reloaded, Succeeded, Erred, Answered
<1>2. ASSUME shown' # shown
      PROVE  \E d : Show(d) /\ (open # "closed" /\ shown # None => HomeDoc(d))
  <2>1. running[s].at = "ok" /\ HomeDoc(running[s].reply)
    BY <1>1, <1>2 DEF PatchAnswer, Reloaded, Succeeded, HandlerInv, DocOps
  <2>2. CASE Reloaded(s)
    BY <2>1, <2>2 DEF Reloaded
  <2>3. CASE PatchAnswer(s)
    <3>1. PICK d : d = [running[s].reply EXCEPT !.kids = shown.kids]
      OBVIOUS
    <3>2. Show(d)
      BY <1>2, <2>3, <3>1 DEF PatchAnswer
    <3>3. shown # None => HomeDoc(d)
      BY <2>1, <3>1 DEF HomeDoc, Doc, TypeInv, ShownInv
    <3>4. QED
      BY <3>2, <3>3
  <2>4. QED
    BY <2>2, <2>3
<1>3. /\ End(s)
      /\ UNCHANGED <<id, page, loading, titleDraft, noteDraft, editor, noteBusy, deleting, open,
                     toast, server, writes>>
  BY DEF PatchAnswer, Reloaded, flags, drafts
<1>4. ToastInv' /\ (open # "closed" /\ shown = None => toast' = None)
  BY <1>3 DEF TypeInv, ToastInv, ShownInv
<1>5. CASE shown' = shown
  BY <1>1, <1>3, <1>4, <1>5, EndTypes DEF TypeInv, TypeOK, ShownInv
<1>6. CASE shown' # shown
  BY <1>1, <1>2, <1>3, <1>4, <1>6, ShowTypes, EndTypes DEF TypeInv, TypeOK
<1>7. QED
  BY <1>5, <1>6

\* The note handler goes on to refetch, the subtask handler to reload.
LEMMA NoteGoesOn ==
    ASSUME TypeInv, NEW s \in Slot, NoteWritten(s)
    PROVE  /\ Busy(s) /\ running[s].op \in NoteOps \cup {"reNote"}
           /\ noteDraft' \in {noteDraft, None} /\ editor' \in {editor, None}
           /\ \E g : /\ HandlerInv(g) /\ running' = [running EXCEPT ![s] = g]
                     /\ g.op = "refresh" /\ g.holds = running[s].holds
<1> DEFINE h == running[s]
<1>1. PICK op \in NoteOps \cup {"reNote"} :
        /\ Succeeded(s, op)
        /\ noteDraft' = IF op = "addNote" THEN None ELSE noteDraft
        /\ editor' = IF op = "editNote" THEN None ELSE editor
        /\ running' = [running EXCEPT ![s] =
             [@ EXCEPT !.op = "refresh", !.at = "asked",
                       !.note = IF op = "deleteNote" THEN running[s].note ELSE None]]
  BY DEF NoteWritten
<1>2. Busy(s) /\ HandlerInv(h) /\ h.op \in NoteOps \cup {"reNote"}
  BY <1>1 DEF TypeInv, HandlersInv, Succeeded, Answered
<1>3. PICK n \in {h.note, None} : n = IF op = "deleteNote" THEN h.note ELSE None
  OBVIOUS
<1>4. PICK g : g = [h EXCEPT !.op = "refresh", !.at = "asked", !.note = n]
  OBVIOUS
<1>5. running' = [running EXCEPT ![s] = g]
  BY <1>1, <1>3, <1>4
<1>6. HandlerInv(g) /\ g.op = "refresh" /\ g.holds = h.holds
  <2> HIDE DEF h
  <2>1. QED
    BY <1>2, <1>3, <1>4, RefreshInv
<1>7. QED
  BY <1>1, <1>2, <1>5, <1>6

LEMMA SubtaskGoesOn ==
    ASSUME TypeInv, NEW s \in Slot, SubtaskWritten(s)
    PROVE  /\ Busy(s) /\ running[s].op \in {"subtask", "deleteSubtask", "restoreSubtask"}
           /\ ~running[s].holds
           /\ \E g : /\ HandlerInv(g) /\ running' = [running EXCEPT ![s] = g]
                     /\ g.op = "reload" /\ ~g.holds
<1> DEFINE h == running[s]
<1>1. Busy(s) /\ h.op \in {"subtask", "deleteSubtask", "restoreSubtask"}
  BY DEF SubtaskWritten, Succeeded, Answered
<1>2. HandlerInv(h) /\ h.page \in Task
  BY <1>1 DEF TypeInv, HandlersInv, HandlerInv, Handler
<1>3. PICK g : g = [h EXCEPT !.op = "reload", !.task = h.page, !.at = "asked", !.reply = None]
  OBVIOUS
<1>4. running' = [running EXCEPT ![s] = g]
  BY <1>3 DEF SubtaskWritten, Then
<1>5. HandlerInv(g) /\ g.op = "reload" /\ ~h.holds /\ ~g.holds
  BY <1>1, <1>2, <1>3, ReloadInv
<1>6. QED
  BY <1>1, <1>4, <1>5

LEMMA NoteTypes ==
    ASSUME TypeInv, NEW s \in Slot, NoteWritten(s) \/ NoteFailed(s) \/ Refreshed(s)
    PROVE  TypeInv'
<1> DEFINE h == running[s]
<1>1. Busy(s) /\ HandlerInv(h) /\ h.op \in NoteOps \cup {"reNote", "refresh"} /\ h.op # "load"
  BY DEF TypeInv, HandlersInv, NoteWritten, NoteFailed, Refreshed, Succeeded, Erred, Answered,
         NoteOps
<1>2. open # "closed" => shown # None /\ HomeDoc(shown) /\ titleDraft \in Text
  BY <1>1 DEF TypeInv, ShownInv
<1>3. CASE NoteWritten(s)
  <2>1. PICK g : HandlerInv(g) /\ running' = [running EXCEPT ![s] = g]
    BY <1>3, NoteGoesOn
  <2>2. /\ UNCHANGED <<id, page, shown, loading, titleDraft, flags, toast, server, writes>>
        /\ noteDraft' \in {noteDraft, None} /\ editor' \in {editor, None}
    BY <1>3, NoteGoesOn DEF NoteWritten
  <2>3. ToastInv' /\ ServerInv' /\ srv' \in [Task -> Record] /\ alive' \subseteq Task
    BY <2>2 DEF TypeInv, TypeOK, ToastInv, ServerInv, server
  <2>4. QED
    BY <1>1, <2>1, <2>2, <2>3, ContinueTypes
<1>4. CASE NoteFailed(s)
  <2>1. /\ End(s) /\ toast' = None /\ noteBusy' \in BOOLEAN /\ shown' = shown
        /\ UNCHANGED <<id, page, loading, titleDraft, noteDraft, editor, deleting, open,
                       server, writes>>
    BY <1>4 DEF NoteFailed, drafts
  <2>2. ToastInv'
    BY <2>1 DEF ToastInv
  <2>3. QED
    BY <1>2, <2>1, <2>2, EndTypes DEF TypeInv, TypeOK, ShownInv
<1>5. CASE Refreshed(s)
  <2>1. HomeDoc(h.reply)
    BY <1>1, <1>5 DEF Refreshed, Succeeded, Answered, HandlerInv, DocOps
  <2>2. PICK d : Show(d) /\ (open # "closed" /\ shown # None => HomeDoc(d))
    BY <1>2, <1>5, <2>1 DEF Refreshed
  <2>3. /\ End(s) /\ noteBusy' \in BOOLEAN
        /\ toast' = IF h.note # None THEN UndoNote(h.task, h.note) ELSE toast
        /\ UNCHANGED <<id, page, loading, titleDraft, noteDraft, editor, deleting, open,
                       server, writes>>
    BY <1>5 DEF Refreshed, drafts
  <2>4. ToastInv'
    <3>1. CASE h.note # None
      <4>1. /\ h.note \in Note /\ h.task \in Task /\ h.task = Born[h.note]
        BY <1>1, <3>1 DEF HandlerInv, Handler
      <4>2. /\ toast' \in Undoing /\ toast'.undo = "reNote" /\ toast'.note = h.note
            /\ toast'.task = h.task
        BY <2>3, <3>1, <4>1 DEF UndoNote, Undoing
      <4>3. QED
        BY <4>1, <4>2 DEF ToastInv
    <3>2. CASE h.note = None
      BY <2>3, <3>2 DEF TypeInv, ToastInv
    <3>3. QED
      BY <3>1, <3>2
  <2>5. QED
    BY <1>1, <1>2, <2>2, <2>3, <2>4, ShowTypes, EndTypes DEF TypeInv, TypeOK
<1>6. QED
  BY <1>3, <1>4, <1>5

LEMMA TaskTypes ==
    ASSUME TypeInv, NEW s \in Slot,
           SubtaskWritten(s) \/ TaskDeleted(s) \/ DeleteFailed(s) \/ Ended(s)
    PROVE  TypeInv'
<1> DEFINE h == running[s]
<1>1. Busy(s) /\ HandlerInv(h) /\ h.op # "load"
  BY DEF TypeInv, HandlersInv, SubtaskWritten, TaskDeleted, DeleteFailed, Ended, Succeeded, Erred,
         Answered
<1>2. open # "closed" => shown # None /\ HomeDoc(shown) /\ titleDraft \in Text
  BY <1>1 DEF TypeInv, ShownInv
<1>3. CASE SubtaskWritten(s)
  <2>1. PICK g : HandlerInv(g) /\ running' = [running EXCEPT ![s] = g]
    BY <1>3, SubtaskGoesOn
  <2>2. UNCHANGED <<id, page, shown, loading, drafts, flags, server, writes>>
    BY <1>3 DEF SubtaskWritten
  <2>3. ServerInv' /\ srv' \in [Task -> Record] /\ alive' \subseteq Task
    BY <2>2 DEF TypeInv, TypeOK, ServerInv, server
  <2>4. ToastInv'
    <3>1. toast' \in {toast, Restoring("restoreSubtask", h)}
      BY <1>3 DEF SubtaskWritten
    <3>2. QED
      BY <1>1, <3>1, RestoringInv DEF TypeInv, ToastInv
  <2>5. QED
    BY <1>1, <1>2, <2>1, <2>2, <2>3, <2>4, ContinueTypes DEF drafts
<1>4. CASE TaskDeleted(s)
  <2>1. /\ End(s) /\ toast' = Restoring("restore", h) /\ shown' = shown
        /\ open' \in {"open", "closing", "closed"} /\ (open' = "closed" <=> open = "closed")
        /\ UNCHANGED <<id, page, loading, titleDraft, noteDraft, editor, noteBusy, deleting,
                       server, writes>>
    BY <1>4 DEF TaskDeleted, drafts, TypeInv, TypeOK
  <2>2. ToastInv'
    BY <1>1, <2>1, RestoringInv
  <2>3. QED
    BY <1>2, <2>1, <2>2, EndTypes DEF TypeInv, TypeOK, ShownInv
<1>5. CASE DeleteFailed(s) \/ Ended(s)
  <2>1. /\ End(s) /\ shown' = shown /\ deleting' \in {deleting, FALSE}
        /\ UNCHANGED <<id, page, loading, titleDraft, noteDraft, editor, noteBusy, open, toast,
                       server, writes>>
    BY <1>5 DEF DeleteFailed, Ended, drafts, flags
  <2>2. ToastInv'
    BY <2>1 DEF TypeInv, ToastInv
  <2>3. QED
    BY <1>2, <2>1, <2>2, EndTypes DEF TypeInv, TypeOK, ShownInv
<1>6. QED
  BY <1>3, <1>4, <1>5

\* The server: its tables and the documents it answers with.
LEMMA ServedDoc ==
    ASSUME srv' \in [Task -> Record], alive' \subseteq Task, ServerInv', NEW t \in Task,
           NEW d, d = DocAfter(t)
    PROVE  HomeDoc(d) /\ d.id = t
<1>1. srv'[t] \in Record /\ \A n \in srv'[t].notes : Born[n] = t
  BY DEF ServerInv
<1>2. /\ srv'[t].title \in Text /\ srv'[t].rule \in Rule \cup {None}
      /\ srv'[t].notes \in SUBSET Note
  BY <1>1 DEF Record
<1>3. d \in Doc /\ d.id = t /\ d.notes = srv'[t].notes
  BY <1>2 DEF DocAfter, Doc
<1>4. QED
  BY <1>1, <1>3 DEF HomeDoc

LEMMA WrittenServer ==
    ASSUME srv \in [Task -> Record], ServerInv, NEW t \in Task, NEW r \in Record,
           \A n \in r.notes : Born[n] = t, srv' = [srv EXCEPT ![t] = r]
    PROVE  srv' \in [Task -> Record] /\ ServerInv'
  BY DEF ServerInv

\* What a served request makes of the tables.
LEMMA ServeServer ==
    ASSUME TypeInv, NEW s \in Slot, Serve(s)
    PROVE  srv' \in [Task -> Record] /\ alive' \subseteq Task /\ ServerInv'
<1> DEFINE h == running[s]
           t == h.task
           old == srv[t]
<1>1. HandlerInv(h) /\ h \in Handler /\ t \in Task
  BY DEF Serve, TypeInv, HandlersInv, HandlerInv, Handler
<1>2. /\ old \in Record /\ old.title \in Text /\ old.rule \in Rule \cup {None}
      /\ old.notes \in SUBSET Note /\ \A n \in old.notes : Born[n] = t
  BY <1>1 DEF TypeInv, TypeOK, ServerInv, Record
<1>3. /\ srv \in [Task -> Record] /\ alive \subseteq Task /\ ServerInv
  BY DEF TypeInv, TypeOK
<1>4. ASSUME srv' # srv
      PROVE  \E r \in Record : /\ srv' = [srv EXCEPT ![t] = r] /\ alive' = alive
                               /\ \A n \in r.notes : Born[n] = t
  <2>1. CASE h.op = "title" /\ srv' = [srv EXCEPT ![t] = [old EXCEPT !.title = h.text]]
    <3>1. h.text \in Text
      BY <1>1, <2>1 DEF HandlerInv
    <3>2. PICK r : r = [old EXCEPT !.title = h.text]
      OBVIOUS
    <3>3. r \in Record /\ r.notes = old.notes
      BY <1>2, <3>1, <3>2 DEF Record
    <3>4. alive' = alive
      BY <1>4, <2>1 DEF Serve, server
    <3>5. QED
      BY <1>2, <2>1, <3>2, <3>3, <3>4
  <2>2. CASE /\ h.op = "rule"
             /\ srv' = [srv EXCEPT ![t] =
                  [old EXCEPT !.rule = IF h.rule = None THEN None
                                       ELSE [h.rule EXCEPT !.days = MergedDays(t, h.rule)]]]
    <3>1. PICK v : v = IF h.rule = None THEN None
                       ELSE [h.rule EXCEPT !.days = MergedDays(t, h.rule)]
      OBVIOUS
    <3>2. v \in Rule \cup {None}
      <4>1. h.rule \in Rule \cup {None}
        BY <1>1 DEF Handler
      <4>2. h.rule # None => MergedDays(t, h.rule) \in SUBSET Day
        BY <1>2, <4>1 DEF MergedDays, Rule
      <4>3. QED
        BY <3>1, <4>1, <4>2 DEF Rule
    <3>3. PICK r : r = [old EXCEPT !.rule = v]
      OBVIOUS
    <3>4. r \in Record /\ r.notes = old.notes
      BY <1>2, <3>2, <3>3 DEF Record
    <3>5. alive' = alive
      BY <1>4, <2>2 DEF Serve, server
    <3>6. QED
      BY <1>2, <2>2, <3>1, <3>3, <3>4, <3>5
  <2>3. CASE \E ns \in SUBSET Note : /\ \A n \in ns : Born[n] = t
                                     /\ alive' = alive
                                     /\ srv' = [srv EXCEPT ![t] = [old EXCEPT !.notes = ns]]
    <3>1. PICK ns \in SUBSET Note : /\ \A n \in ns : Born[n] = t
                                    /\ alive' = alive
                                    /\ srv' = [srv EXCEPT ![t] = [old EXCEPT !.notes = ns]]
      BY <2>3
    <3>2. PICK r : r = [old EXCEPT !.notes = ns]
      OBVIOUS
    <3>3. r \in Record /\ r.notes = ns
      BY <1>2, <3>2 DEF Record
    <3>4. QED
      BY <3>1, <3>2, <3>3
  <2>4. CASE h.op \in {"addNote", "reNote", "deleteNote"}
    <3>1. h.op = "reNote" => h.note \in Note /\ Born[h.note] = t
      BY <1>1, TreeAssumption DEF HandlerInv
    <3>2. PICK n \in Note :
            \/ /\ Born[n] = t
               /\ srv' = [srv EXCEPT ![t] = [old EXCEPT !.notes = @ \cup {n}]]
            \/ srv' = [srv EXCEPT ![t] = [old EXCEPT !.notes = @ \ {n}]]
      BY <1>1, <1>4, <2>4, <3>1 DEF Serve, server, HandlerInv
    <3>3. alive' = alive
      BY <1>4, <2>4 DEF Serve, server
    <3>4. PICK ns \in SUBSET Note : /\ \A m \in ns : Born[m] = t
                                    /\ srv' = [srv EXCEPT ![t] = [old EXCEPT !.notes = ns]]
      BY <1>2, <3>2
    <3>5. QED
      BY <2>3, <3>3, <3>4
  <2>5. QED
    BY <1>4, <2>1, <2>2, <2>4 DEF Serve, server
<1>5. alive' \subseteq Task
  <2>1. alive' = alive \/ alive' = alive \ Cascade(t) \/ alive' = alive \cup h.gone
    BY DEF Serve, server
  <2>2. h.gone \in SUBSET Task
    BY <1>1 DEF Handler
  <2>3. QED
    BY <1>3, <2>1, <2>2
<1>6. CASE srv' = srv
  BY <1>3, <1>5, <1>6 DEF ServerInv
<1>7. CASE srv' # srv
  BY <1>1, <1>3, <1>4, <1>5, <1>7, WrittenServer
<1>8. QED
  BY <1>6, <1>7

\* A request that is served, refused or lost leaves its handler what it is.
LEMMA NetworkRunning ==
    ASSUME TypeInv, NEW s \in Slot, Serve(s) \/ Refuse(s) \/ Fail(s)
    PROVE  /\ Busy(s)
           /\ UNCHANGED <<id, page, shown, loading, drafts, flags, toast, writes>>
           /\ srv' \in [Task -> Record] /\ alive' \subseteq Task /\ ServerInv'
           /\ \E g : /\ HandlerInv(g) /\ running' = [running EXCEPT ![s] = g]
                     /\ g.op = running[s].op /\ g.holds = running[s].holds
                     /\ g.live = running[s].live /\ g.page = running[s].page
<1> DEFINE h == running[s]
<1>1. /\ Busy(s) /\ HandlerInv(h) /\ h \in Handler /\ h.task \in Task
      /\ UNCHANGED <<id, page, shown, loading, drafts, flags, toast, writes>>
  BY DEF Serve, Refuse, Fail, TypeInv, HandlersInv, HandlerInv, Handler
<1>2. srv' \in [Task -> Record] /\ alive' \subseteq Task /\ ServerInv'
  <2>1. CASE Serve(s)
    BY <2>1, ServeServer
  <2>2. CASE Refuse(s) \/ Fail(s)
    BY <2>2 DEF Refuse, Fail, TypeInv, TypeOK, ServerInv, server
  <2>3. QED
    BY <2>1, <2>2
<1>3. PICK d : d = DocAfter(h.task)
  OBVIOUS
<1>4. HomeDoc(d) /\ d.id = h.task /\ d \in Doc
  BY <1>1, <1>2, <1>3, ServedDoc DEF HomeDoc
<1>5. ASSUME NEW how \in Progress, NEW r \in {d, None}, Answer(s, how, r),
             how = "ok" /\ h.op \in DocOps => r = d
      PROVE  \E g : /\ HandlerInv(g) /\ running' = [running EXCEPT ![s] = g]
                    /\ g.op = h.op /\ g.holds = h.holds /\ g.live = h.live /\ g.page = h.page
  <2>1. PICK g : g = [h EXCEPT !.at = how, !.reply = r]
    OBVIOUS
  <2>2. running' = [running EXCEPT ![s] = g]
    BY <1>5, <2>1 DEF Answer
  <2>3. /\ HandlerInv(g) /\ g.op = h.op /\ g.holds = h.holds /\ g.live = h.live
        /\ g.page = h.page
    <3>1. r \in Doc \cup {None} /\ (how = "ok" /\ h.op \in DocOps => HomeDoc(r) /\ r.id = h.task)
      BY <1>4, <1>5
    <3>2. /\ g \in Handler /\ g.op = h.op /\ g.task = h.task /\ g.text = h.text
          /\ g.note = h.note /\ g.holds = h.holds /\ g.live = h.live /\ g.page = h.page
          /\ g.at = how /\ g.reply = r
      BY <1>1, <2>1, <3>1 DEF Handler
    <3>3. QED
      BY <1>1, <3>1, <3>2 DEF HandlerInv
  <2>4. QED
    BY <2>2, <2>3
<1>6. CASE Serve(s) /\ h.op \in {"delete", "deleteSubtask"}
  <2>1. PICK gone \in SUBSET Task : gone = Cascade(h.task)
    BY DEF Cascade, TypeInv, TypeOK
  <2>2. PICK g : g = [h EXCEPT !.at = "ok", !.gone = gone]
    OBVIOUS
  <2>3. running' = [running EXCEPT ![s] = g]
    BY <1>6, <2>1, <2>2 DEF Serve
  <2>4. /\ HandlerInv(g) /\ g.op = h.op /\ g.holds = h.holds /\ g.live = h.live
        /\ g.page = h.page
    <3>1. /\ g \in Handler /\ g.op = h.op /\ g.task = h.task /\ g.text = h.text
          /\ g.note = h.note /\ g.holds = h.holds /\ g.live = h.live /\ g.page = h.page
      BY <1>1, <2>2 DEF Handler, Progress
    <3>2. QED
      BY <1>1, <1>6, <3>1 DEF HandlerInv, DocOps
  <2>5. QED
    BY <1>1, <1>2, <2>3, <2>4
<1>7. CASE Serve(s) /\ h.op \notin {"delete", "deleteSubtask"}
  <2>1. \/ Answer(s, "ok", d)
        \/ h.op \notin DocOps /\ Answer(s, "ok", None)
    BY <1>3, <1>7 DEF Serve, DocOps
  <2>2. QED
    BY <1>1, <1>2, <1>5, <2>1 DEF Progress
<1>8. CASE Refuse(s) \/ Fail(s)
  BY <1>1, <1>2, <1>5, <1>8 DEF Refuse, Fail, Progress
<1>9. QED
  BY <1>6, <1>7, <1>8

LEMMA NetworkTypes ==
    ASSUME TypeInv, NEW s \in Slot, Serve(s) \/ Refuse(s) \/ Fail(s)
    PROVE  TypeInv'
<1>1. PICK g : /\ HandlerInv(g) /\ running' = [running EXCEPT ![s] = g]
               /\ g.op = running[s].op
  BY NetworkRunning
<1>2. /\ Busy(s) /\ srv' \in [Task -> Record] /\ alive' \subseteq Task /\ ServerInv'
      /\ UNCHANGED <<id, page, shown, loading, titleDraft, flags, toast, writes>>
      /\ noteDraft' = noteDraft /\ editor' = editor
  BY NetworkRunning DEF drafts
<1>3. ToastInv'
  BY <1>2 DEF TypeInv, ToastInv
<1>4. QED
  BY <1>1, <1>2, <1>3, ContinueTypes

LEMMA InitTypes == Init => TypeInv
<1> SUFFICES ASSUME Init PROVE TypeInv
  OBVIOUS
<1>1. PICK s \in Slot : running = [r \in Slot |-> IF r = s THEN Asking("load", page) ELSE None]
  BY DEF Init
<1>2. page \in Task /\ id \in Task
  BY DEF Init
<1>3. PICK h : h = Asking("load", page)
  OBVIOUS
<1>4. HandlerInv(h) /\ h.op = "load"
  BY <1>2, <1>3, AskedPlain DEF Op
<1>5. \A r \in Slot : running[r] = IF r = s THEN h ELSE None
  BY <1>1, <1>3
<1>6. HandlersInv
  BY <1>1, <1>4, <1>5 DEF HandlersInv, Busy
<1>7. \A r \in Slot : Busy(r) => running[r] \in Handler /\ running[r].op = "load"
  BY <1>4, <1>5 DEF Busy, HandlerInv
<1>8. TypeOK
  <2>1. /\ shown = None /\ loading = TRUE /\ titleDraft = None /\ noteDraft = None
        /\ editor = None /\ noteBusy = FALSE /\ deleting = FALSE /\ open = "open"
        /\ toast = None /\ alive = Task /\ srv \in Tables /\ writes = 0
    BY DEF Init
  <2>2. srv \in [Task -> Record] /\ writes \in 0..MaxWrites
    BY <2>1, TreeAssumption
  <2>3. QED
    BY <1>2, <1>7, <2>1, <2>2 DEF TypeOK
<1>9. ServerInv
  BY TreeAssumption DEF Init, ServerInv
<1>10. ToastInv /\ ShownInv
  BY <1>7 DEF Init, ToastInv, ShownInv
<1>11. QED
  BY <1>6, <1>8, <1>9, <1>10 DEF TypeInv

LEMMA StepTypes == TypeInv /\ [Next]_vars => TypeInv'
<1> SUFFICES ASSUME TypeInv, [Next]_vars PROVE TypeInv'
  OBVIOUS
<1>1. CASE User
  BY <1>1, UserTypes
<1>2. CASE Unmount
  BY <1>2, UnmountTypes
<1>3. ASSUME NEW s \in Slot, Resume(s)
      PROVE  TypeInv'
  BY <1>3, LoadTypes, AnswerTypes, NoteTypes, TaskTypes DEF Resume
<1>4. ASSUME NEW s \in Slot, Network(s)
      PROVE  TypeInv'
  BY <1>4, NetworkTypes DEF Network
<1>5. CASE UNCHANGED vars
  BY <1>5 DEF TypeInv, TypeOK, ServerInv, HandlersInv, ToastInv, ShownInv, Busy, vars, drafts,
              flags, server
<1>6. QED
  BY <1>1, <1>2, <1>3, <1>4, <1>5 DEF Next

LEMMA Typed == Spec => []TypeInv
  BY InitTypes, StepTypes, PTL DEF Spec

-------------------------------------------------------------------------------
(* The handlers that count: the one that holds noteBusy, the one that       *)
(* deletes the task, the load whose answer is awaited.                      *)

Held(s) == Busy(s) /\ running[s].holds
Removing(s) == Busy(s) /\ running[s].op = "delete"
Live(s) == Busy(s) /\ running[s].op = "load" /\ running[s].live

NoteInv ==
    /\ \A r, s \in Slot : Held(r) /\ Held(s) => r = s
    /\ open # "closed" => (noteBusy <=> \E s \in Slot : Held(s))

DeleteInv ==
    /\ \A r, s \in Slot : Removing(r) /\ Removing(s) => r = s
    /\ (\E s \in Slot : Removing(s)) => deleting \/ open = "closed"
    /\ deleting /\ (\A s \in Slot : ~Removing(s)) => open # "open"

LoadInv ==
    /\ \A s \in Slot : Live(s) => running[s].page = page
    /\ \A r, s \in Slot : Live(r) /\ Live(s) => r = s
    /\ open # "closed" => (loading <=> \E s \in Slot : Live(s))

CountInv == NoteInv /\ DeleteInv /\ LoadInv

\* A step that none of the three flags has to do with.
NoteQuiet ==
    /\ \A s \in Slot : Held(s)' <=> Held(s)
    /\ noteBusy' = noteBusy /\ (open' = "closed" <=> open = "closed")
DeleteQuiet ==
    /\ \A s \in Slot : Removing(s)' <=> Removing(s)
    /\ deleting' = deleting /\ (open' = "closed" <=> open = "closed")
    /\ open' = "open" => open = "open"
LoadQuiet ==
    /\ \A s \in Slot : Live(s)' <=> Live(s)
    /\ \A s \in Slot : Live(s) => running'[s].page = running[s].page
    /\ page' = page /\ loading' = loading /\ (open' = "closed" <=> open = "closed")

LEMMA QuietNotes == NoteInv /\ NoteQuiet => NoteInv'
  BY DEF NoteInv, NoteQuiet

LEMMA QuietDeletes == DeleteInv /\ DeleteQuiet => DeleteInv'
  BY DEF DeleteInv, DeleteQuiet

LEMMA QuietLoads == LoadInv /\ LoadQuiet => LoadInv'
  BY DEF LoadInv, LoadQuiet

\* What a step makes of its slot is all it changes.
LEMMA SlotPut ==
    ASSUME HandlersInv, NEW s \in Slot, NEW h, HandlerInv(h),
           running' = [running EXCEPT ![s] = h]
    PROVE  /\ Held(s)' <=> h.holds
           /\ Removing(s)' <=> h.op = "delete"
           /\ Live(s)' <=> h.op = "load" /\ h.live
           /\ running'[s] = h
           /\ \A r \in Slot : r # s => /\ Held(r)' <=> Held(r)
                                       /\ Removing(r)' <=> Removing(r)
                                       /\ Live(r)' <=> Live(r)
                                       /\ running'[r] = running[r]
<1>1. h # None /\ running'[s] = h /\ \A r \in Slot : r # s => running'[r] = running[r]
  BY Put
<1>2. QED
  BY <1>1 DEF Held, Removing, Live, Busy

LEMMA SlotTaken ==
    ASSUME HandlersInv, NEW s \in Slot, End(s)
    PROVE  /\ ~Held(s)' /\ ~Removing(s)' /\ ~Live(s)'
           /\ \A r \in Slot : r # s => /\ Held(r)' <=> Held(r)
                                       /\ Removing(r)' <=> Removing(r)
                                       /\ Live(r)' <=> Live(r)
                                       /\ running'[r] = running[r]
<1>1. running'[s] = None /\ \A r \in Slot : r # s => running'[r] = running[r]
  BY Taken
<1>2. QED
  BY <1>1 DEF Held, Removing, Live, Busy

\* A write that starts without a flag of its own.
LEMMA PlainStart ==
    ASSUME TypeInv, CountInv, NEW s \in Slot, NEW h, HandlerInv(h), Start(s, h),
           h.op # "load", UNCHANGED <<page, loading, open>>
    PROVE  /\ ~h.holds /\ noteBusy' = noteBusy => NoteInv'
           /\ h.op # "delete" /\ deleting' = deleting => DeleteInv'
           /\ LoadInv'
<1>1. running' = [running EXCEPT ![s] = h] /\ ~Held(s) /\ ~Removing(s) /\ ~Live(s)
  BY DEF Start, NextFree, Free, Held, Removing, Live, Busy
<1>2. /\ Held(s)' <=> h.holds
      /\ Removing(s)' <=> h.op = "delete"
      /\ ~Live(s)'
      /\ \A r \in Slot : r # s => /\ Held(r)' <=> Held(r)
                                  /\ Removing(r)' <=> Removing(r)
                                  /\ Live(r)' <=> Live(r)
                                  /\ running'[r] = running[r]
  BY <1>1, SlotPut DEF TypeInv
<1>3. ~h.holds /\ noteBusy' = noteBusy => NoteQuiet
  BY <1>1, <1>2 DEF NoteQuiet
<1>4. h.op # "delete" /\ deleting' = deleting => DeleteQuiet
  BY <1>1, <1>2 DEF DeleteQuiet
<1>5. LoadQuiet
  BY <1>1, <1>2 DEF LoadQuiet
<1>6. QED
  BY <1>3, <1>4, <1>5, QuietNotes, QuietDeletes, QuietLoads DEF CountInv

\* An end that takes no flag with it.
LEMMA PlainEnd ==
    ASSUME TypeInv, CountInv, NEW s \in Slot, End(s), page' = page,
           open' = "closed" <=> open = "closed", open' = "open" => open = "open"
    PROVE  /\ ~Held(s) /\ noteBusy' = noteBusy => NoteInv'
           /\ ~Removing(s) /\ deleting' = deleting => DeleteInv'
           /\ ~Live(s) /\ loading' = loading => LoadInv'
<1>1. /\ ~Held(s)' /\ ~Removing(s)' /\ ~Live(s)'
      /\ \A r \in Slot : r # s => /\ Held(r)' <=> Held(r)
                                  /\ Removing(r)' <=> Removing(r)
                                  /\ Live(r)' <=> Live(r)
                                  /\ running'[r] = running[r]
  BY SlotTaken DEF TypeInv
<1>2. ~Held(s) /\ noteBusy' = noteBusy => NoteQuiet
  BY <1>1 DEF NoteQuiet
<1>3. ~Removing(s) /\ deleting' = deleting => DeleteQuiet
  BY <1>1 DEF DeleteQuiet
<1>4. ~Live(s) /\ loading' = loading => LoadQuiet
  BY <1>1 DEF LoadQuiet
<1>5. QED
  BY <1>2, <1>3, <1>4, QuietNotes, QuietDeletes, QuietLoads DEF CountInv

\* A handler that goes on without becoming another one.
LEMMA PlainGoOn ==
    ASSUME TypeInv, CountInv, NEW s \in Slot, Busy(s), NEW g, HandlerInv(g),
           running' = [running EXCEPT ![s] = g], UNCHANGED <<page, loading, flags>>,
           g.holds <=> running[s].holds, g.op = "delete" <=> running[s].op = "delete",
           g.op = "load" <=> running[s].op = "load",
           g.op = "load" => (g.live <=> running[s].live) /\ g.page = running[s].page
    PROVE  CountInv'
<1>1. /\ Held(s)' <=> g.holds
      /\ Removing(s)' <=> g.op = "delete"
      /\ Live(s)' <=> g.op = "load" /\ g.live
      /\ running'[s] = g
      /\ \A r \in Slot : r # s => /\ Held(r)' <=> Held(r)
                                  /\ Removing(r)' <=> Removing(r)
                                  /\ Live(r)' <=> Live(r)
                                  /\ running'[r] = running[r]
  BY SlotPut DEF TypeInv
<1>2. /\ Held(s)' <=> Held(s)
      /\ Removing(s)' <=> Removing(s)
      /\ Live(s)' <=> Live(s)
      /\ Live(s) => g.page = running[s].page
  BY <1>1 DEF Held, Removing, Live
<1>3. NoteQuiet /\ DeleteQuiet /\ LoadQuiet
  BY <1>1, <1>2 DEF NoteQuiet, DeleteQuiet, LoadQuiet, flags
<1>4. QED
  BY <1>3, QuietNotes, QuietDeletes, QuietLoads DEF CountInv

-------------------------------------------------------------------------------
(* Each step keeps the count.                                               *)

LEMMA ScreenCounts ==
    ASSUME CountInv,
           TypeNote \/ CancelEdit \/ RequestClose \/ Dismiss \/ \E n \in Note : StartEdit(n)
    PROVE  CountInv'
<1>1. /\ UNCHANGED <<page, loading, noteBusy, deleting, running>>
      /\ (open' = "closed" <=> open = "closed") /\ (open' = "open" => open = "open")
  BY DEF TypeNote, CancelEdit, RequestClose, Dismiss, StartEdit, flags
<1>2. NoteQuiet /\ DeleteQuiet /\ LoadQuiet
  BY <1>1 DEF NoteQuiet, DeleteQuiet, LoadQuiet, Held, Removing, Live, Busy
<1>3. QED
  BY <1>2, QuietNotes, QuietDeletes, QuietLoads DEF CountInv

\* A closed panel awaits no load; its writes go on.
LEMMA UnmountCounts ==
    ASSUME TypeInv, CountInv, Unmount
    PROVE  CountInv'
<1>1. /\ running' = Cancelled(running) /\ open' = "closed" /\ ~deleting' /\ ~noteBusy'
  BY DEF Unmount
<1>2. \A s \in Slot : /\ Held(s)' <=> Held(s)
                      /\ Removing(s)' <=> Removing(s)
                      /\ ~Live(s)'
  BY <1>1, CancelledInv DEF TypeInv, Held, Removing, Live, Busy, Free
<1>3. QED
  BY <1>1, <1>2 DEF CountInv, NoteInv, DeleteInv, LoadInv

\* The load of the page moved to is the only one that is still awaited.
LEMMA MoveCounts ==
    ASSUME TypeInv, CountInv, NEW s \in Slot, NEW t \in Task, Goto(s, t)
    PROVE  CountInv'
<1>1. /\ Free(s) /\ Busy(s)'
      /\ running'[s].op = "load" /\ running'[s].live /\ running'[s].page = t
      /\ ~running'[s].holds
      /\ \A r \in Slot : r # s =>
            /\ Free(r) => running'[r] = None
            /\ Busy(r) => /\ Busy(r)' /\ running'[r].op = running[r].op
                          /\ running'[r].holds = running[r].holds
                          /\ running'[r].op = "load" => ~running'[r].live
  BY MoveRunning
<1>2. page' = t /\ loading' /\ UNCHANGED flags
  BY DEF Goto
<1>3. /\ ~Held(s) /\ ~Removing(s)
      /\ ~Held(s)' /\ ~Removing(s)' /\ Live(s)'
      /\ \A r \in Slot : r # s => /\ Held(r)' <=> Held(r)
                                  /\ Removing(r)' <=> Removing(r)
                                  /\ ~Live(r)'
  BY <1>1 DEF Held, Removing, Live, Busy, Free
<1>4. NoteQuiet /\ DeleteQuiet
  BY <1>2, <1>3 DEF NoteQuiet, DeleteQuiet, flags
<1>5. LoadInv'
  BY <1>1, <1>2, <1>3 DEF LoadInv
<1>6. QED
  BY <1>4, <1>5, QuietNotes, QuietDeletes DEF CountInv

LEMMA SelectCounts ==
    ASSUME TypeInv, CountInv, NEW s \in Slot, NEW t \in Task, Navigate(s, t) \/ Select(s, t)
    PROVE  CountInv'
<1>1. CASE Goto(s, t)
  BY <1>1, MoveCounts
<1>2. CASE UNCHANGED <<page, loading, flags, running>>
  <2>1. NoteQuiet /\ DeleteQuiet /\ LoadQuiet
    BY <1>2 DEF NoteQuiet, DeleteQuiet, LoadQuiet, Held, Removing, Live, Busy, flags
  <2>2. QED
    BY <2>1, QuietNotes, QuietDeletes, QuietLoads DEF CountInv
<1>3. QED
  BY <1>1, <1>2 DEF Navigate, Select

\* A write that claims no flag.
LEMMA StartCounts ==
    ASSUME TypeInv, CountInv, NEW s \in Slot,
           \/ \E f \in Freq : SetFreq(s, f)
           \/ \E d \in Day : ToggleWeekday(s, d)
           \/ \E t \in Task : WriteSubtask(s, t) \/ DeleteSubtask(s, t)
           \/ SaveTitle(s) \/ SaveField(s) \/ ToggleRecurOn(s) \/ ResendRule(s) \/ Undo(s)
    PROVE  CountInv'
<1>1. /\ UNCHANGED <<page, loading, noteBusy, deleting, open>>
      /\ \E h : /\ HandlerInv(h) /\ Start(s, h) /\ ~h.holds
                /\ h.op \notin {"load", "delete"}
  <2>1. CASE \/ \E f \in Freq : SetFreq(s, f)
             \/ \E d \in Day : ToggleWeekday(s, d)
             \/ SaveTitle(s) \/ SaveField(s) \/ ToggleRecurOn(s) \/ ResendRule(s)
    BY <2>1, WriteStarts, WriteTypes DEF flags
  <2>2. CASE \E t \in Task : WriteSubtask(s, t) \/ DeleteSubtask(s, t)
    BY <2>2, SubtaskStarts
  <2>3. CASE Undo(s)
    BY <2>3, UndoStarts DEF flags
  <2>4. QED
    BY <2>1, <2>2, <2>3
<1>2. PICK h : /\ HandlerInv(h) /\ Start(s, h) /\ ~h.holds /\ h.op \notin {"load", "delete"}
  BY <1>1
<1>3. NoteInv' /\ DeleteInv' /\ LoadInv'
  BY <1>1, <1>2, PlainStart
<1>4. QED
  BY <1>3 DEF CountInv

\* A note write starts only while none is under way.
LEMMA NoteCounts ==
    ASSUME TypeInv, CountInv, NEW s \in Slot,
           AddNote(s) \/ SaveEdit(s) \/ \E n \in Note : DeleteNote(s, n)
    PROVE  CountInv'
<1>1. PICK h : HandlerInv(h) /\ Start(s, h) /\ h.op \in NoteOps /\ h.holds
  BY NoteStarts
<1>2. /\ open # "closed" /\ ~noteBusy /\ noteBusy' /\ UNCHANGED <<page, loading, deleting, open>>
  BY NoteStarts DEF Header
<1>3. DeleteInv' /\ LoadInv'
  BY <1>1, <1>2, PlainStart DEF NoteOps
<1>4. \A r \in Slot : ~Held(r)
  BY <1>2 DEF CountInv, NoteInv
<1>5. running' = [running EXCEPT ![s] = h]
  BY <1>1 DEF Start
<1>6. Held(s)' /\ \A r \in Slot : r # s => (Held(r)' <=> Held(r))
  BY <1>1, <1>5, SlotPut DEF TypeInv
<1>7. NoteInv'
  BY <1>2, <1>4, <1>6 DEF NoteInv
<1>8. QED
  BY <1>3, <1>7 DEF CountInv

\* A delete of the task starts only while none is under way.
LEMMA DeleteCounts ==
    ASSUME TypeInv, CountInv, NEW s \in Slot, DeleteTask(s)
    PROVE  CountInv'
<1>1. PICK h : HandlerInv(h) /\ Start(s, h) /\ h.op = "delete" /\ ~h.holds
  BY DeleteStarts
<1>2. /\ open # "closed" /\ ~deleting /\ deleting' /\ UNCHANGED <<page, loading, noteBusy, open>>
  BY DeleteStarts DEF Header
<1>3. NoteInv' /\ LoadInv'
  BY <1>1, <1>2, PlainStart
<1>4. \A r \in Slot : ~Removing(r)
  BY <1>2 DEF CountInv, DeleteInv
<1>5. running' = [running EXCEPT ![s] = h]
  BY <1>1 DEF Start
<1>6. Removing(s)' /\ \A r \in Slot : r # s => (Removing(r)' <=> Removing(r))
  BY <1>1, <1>5, SlotPut DEF TypeInv
<1>7. DeleteInv'
  BY <1>2, <1>4, <1>6 DEF DeleteInv
<1>8. QED
  BY <1>3, <1>7 DEF CountInv

\* The end of the load that is awaited; a stale one is not.
LEMMA LoadCounts ==
    ASSUME TypeInv, CountInv, NEW s \in Slot, LoadAnswer(s) \/ StaleLoadAnswer(s)
    PROVE  CountInv'
<1>1. /\ End(s) /\ UNCHANGED <<page, noteBusy, deleting, open>> /\ Busy(s)
      /\ running[s].op = "load"
  BY DEF LoadAnswer, StaleLoadAnswer, Answered, flags
<1>2. ~Held(s) /\ ~Removing(s)
  BY <1>1 DEF Held, Removing, TypeInv, HandlersInv, HandlerInv, NoteOps
<1>3. NoteInv' /\ DeleteInv'
  BY <1>1, <1>2, PlainEnd
<1>4. CASE StaleLoadAnswer(s)
  <2>1. ~Live(s) /\ loading' = loading
    BY <1>4 DEF StaleLoadAnswer, Live
  <2>2. LoadInv'
    BY <1>1, <2>1, PlainEnd
  <2>3. QED
    BY <1>3, <2>2 DEF CountInv
<1>5. CASE LoadAnswer(s)
  <2>1. Live(s) /\ ~loading'
    BY <1>1, <1>5 DEF LoadAnswer, Live
  <2>2. /\ ~Live(s)'
        /\ \A r \in Slot : r # s => (Live(r)' <=> Live(r))
    BY <1>1, SlotTaken DEF TypeInv
  <2>3. \A r \in Slot : ~Live(r)'
    BY <2>1, <2>2 DEF CountInv, LoadInv
  <2>4. LoadInv'
    BY <2>1, <2>3 DEF LoadInv
  <2>5. QED
    BY <1>3, <2>4 DEF CountInv
<1>6. QED
  BY <1>4, <1>5

\* The ends that carry no flag.
LEMMA EndCounts ==
    ASSUME TypeInv, CountInv, NEW s \in Slot, PatchAnswer(s) \/ Reloaded(s) \/ Ended(s)
    PROVE  CountInv'
<1>1. /\ End(s) /\ UNCHANGED <<page, loading, flags>> /\ Busy(s)
      /\ running[s].op \notin NoteOps \cup {"refresh", "load", "delete"}
  BY DEF PatchAnswer, Reloaded, Ended, Succeeded, Erred, Answered, NoteOps
<1>2. ~Held(s) /\ ~Removing(s) /\ ~Live(s)
  BY <1>1 DEF Held, Removing, Live, TypeInv, HandlersInv, HandlerInv
<1>3. NoteInv' /\ DeleteInv' /\ LoadInv'
  BY <1>1, <1>2, PlainEnd DEF flags
<1>4. QED
  BY <1>3 DEF CountInv

\* The end of a note write frees the buttons if it held them.
LEMMA NoteEndCounts ==
    ASSUME TypeInv, CountInv, NEW s \in Slot, NoteFailed(s) \/ Refreshed(s)
    PROVE  CountInv'
<1>1. /\ End(s) /\ UNCHANGED <<page, loading, deleting, open>> /\ Busy(s)
      /\ noteBusy' = (noteBusy /\ ~running[s].holds)
      /\ running[s].op \in NoteOps \cup {"reNote", "refresh"}
  BY DEF NoteFailed, Refreshed, Succeeded, Erred, Answered
<1>2. ~Removing(s) /\ ~Live(s)
  BY <1>1 DEF Removing, Live, NoteOps
<1>3. DeleteInv' /\ LoadInv'
  BY <1>1, <1>2, PlainEnd
<1>4. noteBusy \in BOOLEAN
  BY DEF TypeInv, TypeOK
<1>5. CASE Held(s)
  <2>1. /\ ~noteBusy' /\ ~Held(s)'
        /\ \A r \in Slot : r # s => (Held(r)' <=> Held(r))
    BY <1>1, <1>5, SlotTaken DEF TypeInv, Held
  <2>2. \A r \in Slot : ~Held(r)'
    BY <1>5, <2>1 DEF CountInv, NoteInv
  <2>3. NoteInv'
    BY <2>1, <2>2 DEF NoteInv
  <2>4. QED
    BY <1>3, <2>3 DEF CountInv
<1>6. CASE ~Held(s)
  <2>1. noteBusy' = noteBusy
    BY <1>1, <1>4, <1>6 DEF Held
  <2>2. NoteInv'
    BY <1>1, <1>6, <2>1, PlainEnd
  <2>3. QED
    BY <1>3, <2>2 DEF CountInv
<1>7. QED
  BY <1>5, <1>6

\* The end of the one delete: the panel closes, or its button is back.
LEMMA DeleteEndCounts ==
    ASSUME TypeInv, CountInv, NEW s \in Slot, TaskDeleted(s) \/ DeleteFailed(s)
    PROVE  CountInv'
<1>1. /\ End(s) /\ UNCHANGED <<page, loading, noteBusy>> /\ Removing(s)
      /\ running[s].op = "delete"
      /\ (open' = "closed" <=> open = "closed") /\ (open' = "open" => open = "open")
  BY DEF TaskDeleted, DeleteFailed, Succeeded, Erred, Answered, Removing
<1>2. ~Held(s) /\ ~Live(s)
  BY <1>1 DEF Held, Live, TypeInv, HandlersInv, HandlerInv, NoteOps
<1>3. NoteInv' /\ LoadInv'
  BY <1>1, <1>2, PlainEnd
<1>4. /\ ~Removing(s)'
      /\ \A r \in Slot : r # s => (Removing(r)' <=> Removing(r))
  BY <1>1, SlotTaken DEF TypeInv
<1>5. \A r \in Slot : ~Removing(r)'
  BY <1>1, <1>4 DEF CountInv, DeleteInv
<1>6. open' # "open" \/ ~deleting'
  BY DEF TaskDeleted, DeleteFailed
<1>7. DeleteInv'
  BY <1>5, <1>6 DEF DeleteInv
<1>8. QED
  BY <1>3, <1>7 DEF CountInv

\* A handler that goes on keeps the flag it holds.
LEMMA GoOnCounts ==
    ASSUME TypeInv, CountInv, NEW s \in Slot,
           NoteWritten(s) \/ SubtaskWritten(s) \/ Network(s)
    PROVE  CountInv'
<1>1. CASE NoteWritten(s)
  <2>1. /\ Busy(s) /\ running[s].op \notin {"load", "delete"} /\ UNCHANGED <<page, loading, flags>>
    BY <1>1, NoteGoesOn DEF NoteWritten, NoteOps
  <2>2. PICK g : /\ HandlerInv(g) /\ running' = [running EXCEPT ![s] = g]
                 /\ g.op = "refresh" /\ g.holds = running[s].holds
    BY <1>1, NoteGoesOn
  <2>3. QED
    BY <2>1, <2>2, PlainGoOn
<1>2. CASE SubtaskWritten(s)
  <2>1. /\ Busy(s) /\ running[s].op \notin {"load", "delete"} /\ ~running[s].holds
        /\ UNCHANGED <<page, loading, flags>>
    BY <1>2, SubtaskGoesOn DEF SubtaskWritten
  <2>2. PICK g : /\ HandlerInv(g) /\ running' = [running EXCEPT ![s] = g]
                 /\ g.op = "reload" /\ ~g.holds
    BY <1>2, SubtaskGoesOn
  <2>3. QED
    BY <2>1, <2>2, PlainGoOn
<1>3. CASE Network(s)
  <2>1. Busy(s) /\ UNCHANGED <<page, loading, flags>>
    BY <1>3, NetworkRunning DEF Network
  <2>2. PICK g : /\ HandlerInv(g) /\ running' = [running EXCEPT ![s] = g]
                 /\ g.op = running[s].op /\ g.holds = running[s].holds
                 /\ g.live = running[s].live /\ g.page = running[s].page
    BY <1>3, NetworkRunning DEF Network
  <2>3. QED
    BY <2>1, <2>2, PlainGoOn
<1>4. QED
  BY <1>1, <1>2, <1>3

LEMMA InitCounts == Init => CountInv
<1> SUFFICES ASSUME Init PROVE CountInv
  OBVIOUS
<1>1. PICK s \in Slot : running = [r \in Slot |-> IF r = s THEN Asking("load", page) ELSE None]
  BY DEF Init
<1>2. page \in Task
  BY DEF Init
<1>3. PICK h : h = Asking("load", page)
  OBVIOUS
<1>4. HandlerInv(h) /\ h.op = "load" /\ h.live /\ h.page = page /\ ~h.holds
  BY <1>2, <1>3, AskedPlain DEF Op, NoteOps
<1>5. h # None
  BY <1>4, TreeAssumption DEF HandlerInv
<1>6. \A r \in Slot : running[r] = IF r = s THEN h ELSE None
  BY <1>1, <1>3
<1>7. \A r \in Slot : ~Held(r) /\ ~Removing(r) /\ (Live(r) <=> r = s)
  BY <1>4, <1>5, <1>6 DEF Held, Removing, Live, Busy
<1>8. NoteInv /\ DeleteInv
  BY <1>7 DEF Init, NoteInv, DeleteInv
<1>9. LoadInv
  BY <1>4, <1>6, <1>7 DEF Init, LoadInv
<1>10. QED
  BY <1>8, <1>9 DEF CountInv

LEMMA StepCounts == TypeInv /\ CountInv /\ [Next]_vars => CountInv'
<1> SUFFICES ASSUME TypeInv, CountInv, [Next]_vars PROVE CountInv'
  OBVIOUS
<1>1. CASE TypeNote \/ CancelEdit \/ RequestClose \/ Dismiss \/ \E n \in Note : StartEdit(n)
  BY <1>1, ScreenCounts
<1>2. ASSUME NEW s \in Slot, \E t \in Task : Navigate(s, t) \/ Select(s, t)
      PROVE  CountInv'
  BY <1>2, SelectCounts
<1>3. ASSUME NEW s \in Slot,
             \/ \E f \in Freq : SetFreq(s, f)
             \/ \E d \in Day : ToggleWeekday(s, d)
             \/ \E t \in Task : WriteSubtask(s, t) \/ DeleteSubtask(s, t)
             \/ SaveTitle(s) \/ SaveField(s) \/ ToggleRecurOn(s) \/ ResendRule(s) \/ Undo(s)
      PROVE  CountInv'
  BY <1>3, StartCounts
<1>4. ASSUME NEW s \in Slot, AddNote(s) \/ SaveEdit(s) \/ \E n \in Note : DeleteNote(s, n)
      PROVE  CountInv'
  BY <1>4, NoteCounts
<1>5. ASSUME NEW s \in Slot, DeleteTask(s)
      PROVE  CountInv'
  BY <1>5, DeleteCounts
<1>6. CASE Unmount
  BY <1>6, UnmountCounts
<1>7. ASSUME NEW s \in Slot, Resume(s)
      PROVE  CountInv'
  BY <1>7, LoadCounts, EndCounts, NoteEndCounts, DeleteEndCounts, GoOnCounts DEF Resume
<1>8. ASSUME NEW s \in Slot, Network(s)
      PROVE  CountInv'
  BY <1>8, GoOnCounts
<1>9. CASE UNCHANGED vars
  <2>1. NoteQuiet /\ DeleteQuiet /\ LoadQuiet
    BY <1>9 DEF NoteQuiet, DeleteQuiet, LoadQuiet, Held, Removing, Live, Busy, vars, flags
  <2>2. QED
    BY <2>1, QuietNotes, QuietDeletes, QuietLoads DEF CountInv
<1>10. CASE User
  BY <1>1, <1>2, <1>3, <1>4, <1>5, <1>10 DEF User
<1>11. QED
  BY <1>6, <1>7, <1>8, <1>9, <1>10 DEF Next

LEMMA Counted == Spec => []CountInv
<1>1. Init => CountInv
  BY InitCounts
<1>2. TypeInv /\ CountInv /\ [Next]_vars => CountInv'
  BY StepCounts
<1>3. QED
  BY <1>1, <1>2, Typed, PTL DEF Spec

-------------------------------------------------------------------------------
(* The theorems.                                                            *)

\* The panel's state and its requests stay well formed: a patch is made only of
\* a document on screen, and an answer that becomes the document is one.
THEOREM TypeCorrect == Spec => []TypeOK
<1>1. TypeInv => TypeOK
  BY DEF TypeInv
<1>2. QED
  BY <1>1, Typed, PTL

\* For any tree and any number of handlers, an undone delete of a note writes it
\* back where it was first written, and no other write of a note leaves its task.
THEOREM NotesHome == Spec => []NotesStayHome
<1>1. TypeInv => NotesStayHome
  BY DEF TypeInv, ServerInv, HandlersInv, HandlerInv, NotesStayHome
<1>2. QED
  BY <1>1, Typed, PTL

\* No action of the user's changes the document on screen.
LEMMA ShownAtWork ==
    ASSUME User
    PROVE  shown' = shown
<1>1. ASSUME NEW s \in Slot, NEW r, SaveRule(s, r)
      PROVE  shown' = shown
  BY <1>1 DEF SaveRule
<1>2. ASSUME NEW s \in Slot,
             \/ \E f \in Freq : SetFreq(s, f)
             \/ \E d \in Day : ToggleWeekday(s, d)
             \/ ToggleRecurOn(s) \/ ResendRule(s)
      PROVE  shown' = shown
  BY <1>1, <1>2 DEF SetFreq, ToggleWeekday, ToggleRecurOn, ResendRule
<1>3. CASE TypeNote \/ CancelEdit \/ RequestClose \/ Dismiss \/ \E n \in Note : StartEdit(n)
  BY <1>3 DEF TypeNote, CancelEdit, RequestClose, Dismiss, StartEdit
<1>4. ASSUME NEW s \in Slot,
             \/ \E t \in Task : Navigate(s, t) \/ Select(s, t)
             \/ \E t \in Task : WriteSubtask(s, t) \/ DeleteSubtask(s, t)
             \/ \E n \in Note : DeleteNote(s, n)
             \/ SaveTitle(s) \/ SaveField(s) \/ AddNote(s) \/ SaveEdit(s) \/ DeleteTask(s)
             \/ Undo(s)
      PROVE  shown' = shown
  BY <1>4 DEF Navigate, Select, Goto, WriteSubtask, DeleteSubtask, DeleteNote, SaveTitle,
              SaveField, AddNote, SaveEdit, DeleteTask, Undo
<1>5. QED
  BY <1>2, <1>3, <1>4 DEF User

\* However late a refetch is answered, the panel stays on the task it shows.
THEOREM NotesKeepThePanel == Spec => NotesNeverMoveThePanel
<1>1. TypeInv /\ [Next]_vars
      => [\A s \in Slot : Busy(s) /\ running[s].op = "refresh" /\ running'[s] = None
                           /\ open # "closed"
                        => shown'.id = shown.id]_vars
  <2> SUFFICES ASSUME TypeInv, Next, NEW s \in Slot, Busy(s), running[s].op = "refresh",
                      running'[s] = None, open # "closed"
               PROVE  shown'.id = shown.id
    OBVIOUS
  <2>1. HandlerInv(running[s]) /\ running[s] # None
    BY DEF TypeInv, HandlersInv, Busy
  <2>2. CASE shown' = shown
    BY <2>2
  <2>3. ASSUME NEW r \in Slot, r # s,
               LoadAnswer(r) \/ PatchAnswer(r) \/ Refreshed(r) \/ Reloaded(r)
        PROVE  FALSE
    <3>1. End(r)
      BY <2>3 DEF LoadAnswer, PatchAnswer, Refreshed, Reloaded
    <3>2. running'[s] = running[s]
      BY <2>3, <3>1, Taken DEF TypeInv
    <3>3. QED
      BY <2>1, <3>2
  <2>4. CASE LoadAnswer(s) \/ PatchAnswer(s) \/ Reloaded(s)
    BY <2>4 DEF LoadAnswer, PatchAnswer, Reloaded, Succeeded, Erred, Answered
  <2>5. CASE Refreshed(s)
    <3>1. /\ running[s].at = "ok" /\ shown' = IF shown.id = running[s].task
                                              THEN running[s].reply ELSE shown
      BY <2>5 DEF Refreshed, Show, Succeeded
    <3>2. running[s].reply.id = running[s].task
      BY <2>1, <3>1 DEF HandlerInv, DocOps
    <3>3. QED
      BY <3>1, <3>2
  <2>6. CASE Unmount
    <3>1. running' = Cancelled(running)
      BY <2>6 DEF Unmount
    <3>2. QED
      BY <3>1, CancelledInv DEF TypeInv
  <2>7. CASE User
    BY <2>7, <2>2, ShownAtWork
  <2>8. ASSUME NEW r \in Slot, Network(r) \/ StaleLoadAnswer(r) \/ NoteWritten(r)
                                \/ NoteFailed(r) \/ SubtaskWritten(r) \/ TaskDeleted(r)
                                \/ DeleteFailed(r) \/ Ended(r)
        PROVE  shown' = shown
    BY <2>8 DEF Network, Serve, Refuse, Fail, StaleLoadAnswer, NoteWritten, NoteFailed,
                SubtaskWritten, TaskDeleted, DeleteFailed, Ended
  <2>9. QED
    BY <2>2, <2>3, <2>4, <2>5, <2>6, <2>7, <2>8 DEF Next, Resume
<1>2. QED
  BY <1>1, Typed, PTL DEF Spec, NotesNeverMoveThePanel

\* At most one member: how uniqueness becomes a count.
LEMMA AtMostOne ==
    ASSUME NEW S, \A x, y \in S : x = y
    PROVE  Cardinality(S) <= 1
<1>1. CASE S = {}
  BY <1>1, FS_EmptySet
<1>2. CASE S # {}
  <2>1. PICK x \in S : TRUE
    BY <1>2
  <2>2. S = {x}
    BY <2>1
  <2>3. QED
    BY <2>2, FS_Singleton
<1>3. QED
  BY <1>1, <1>2

\* However many handlers run, one write of notes at most is under way, and the
\* buttons it disabled are enabled again exactly when it is over.
THEOREM OneNoteWriteHolds == Spec => []OneNoteWrite
<1>1. CountInv => OneNoteWrite
  <2> SUFFICES ASSUME CountInv PROVE OneNoteWrite
    OBVIOUS
  <2>1. Holders = {s \in Slot : Held(s)}
    BY DEF Holders, Held
  <2>2. \A x, y \in Holders : x = y
    BY <2>1 DEF CountInv, NoteInv
  <2>3. Cardinality(Holders) <= 1
    BY <2>2, AtMostOne
  <2>4. open # "closed" => (noteBusy <=> Holders # {})
    BY <2>1 DEF CountInv, NoteInv
  <2>5. QED
    BY <2>3, <2>4 DEF OneNoteWrite
<1>2. QED
  BY <1>1, Counted, PTL

\* The delete button cannot be pressed into a second delete of the task, nor
\* after the first one succeeded, for any number of handlers.
THEOREM OneDeleteHolds == Spec => []OneDelete
<1>1. CountInv => OneDelete
  <2> SUFFICES ASSUME CountInv PROVE OneDelete
    OBVIOUS
  <2> DEFINE Deletes == {s \in Slot : Busy(s) /\ running[s].op = "delete"}
  <2>1. Deletes = {s \in Slot : Removing(s)}
    BY DEF Removing
  <2>2. \A x, y \in Deletes : x = y
    BY <2>1 DEF CountInv, DeleteInv
  <2>3. Cardinality(Deletes) <= 1
    BY <2>2, AtMostOne
  <2>4. Deletes # {} => deleting \/ open = "closed"
    BY <2>1 DEF CountInv, DeleteInv
  <2>5. deleting /\ Deletes = {} => open # "open"
    BY <2>1 DEF CountInv, DeleteInv
  <2>6. QED
    BY <2>3, <2>4, <2>5 DEF OneDelete
<1>2. QED
  BY <1>1, Counted, PTL

\* Whatever loads are still to be answered, the spinner is up exactly while the
\* one of the current page is.
THEOREM LoadingLive == Spec => []LoadingIsLive
<1>1. CountInv => LoadingIsLive
  BY DEF CountInv, LoadInv, Live, LoadingIsLive
<1>2. QED
  BY <1>1, Counted, PTL

===============================================================================
