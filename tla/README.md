# taskman in TLA+

Models, model-checking runs and machine-checked proofs for taskman: a Go server
over PostgreSQL (`cmd/taskman`, `internal/`), a React UI (`ui/`), a desktop
shell (`src-tauri/`) and a one-off migration from MongoDB (`cmd/migrate-mongo`).

* `tlc -config <run>.cfg <module>` runs a check, `tlapm <Module>Proofs.tla` the
  proofs. `PROJECT.json` lists runs, mutants, the lines each definition models,
  findings, hazards and theorems.

## 1. Inventory

| Component | State | Operations | What is hard | What makes it correct | Module |
|---|---|---|---|---|---|
| **Task store** `service/tasks.go`, `service/fsm.go`, `model/task.go`, `0001_init.up.sql` | tables `tasks`, `task_activity`; row locks; the undo snapshot a client keeps | create, patch, reschedule, cascading delete, restore | validation by unlocked reads; locks held across statements; BFS delete; deadlocks; undo into a changed table | derived columns coherent, no lost update, parent exists, timeline explains status, undo exact, requests return | `TaskData`, `TaskStore` |
| **Recurring series** `service/task_views.go` (Materialize), `model/recur.go` | rows with `series_id`, unique per period | spawn on every read, anchor on create/patch | reads race each other and edits; cut off midway; interval and weekday arithmetic | one instance per period, on the calendar, no hole, caught up, ended stays ended | `Recurrence`, `Series` |
| **Notes** `service/task_notes.go`, `service/tasks.go` | `task_activity`, the task's row lock, the undo response | add, edit, delete a note; patch, delete, restore their task | read without a lock, then lock, then write; the task may go and come back in between | no acknowledged note lost, readers under the lock current | `Notes` |
| **Members and teams** `service/members.go`, `teams.go`, `tasks.go` | `members`, `teams`, `member_teams`, the team and assignee of `tasks` | create, patch, delete of each; assigning, moving, deleting and restoring a task | a count or a membership read without a lock and used later; foreign key actions; memberships written back whole | no dangling reference, no membership lost, assignees are or were in the team | `Teams` |
| **Task panel** `TaskDetail.tsx`, `Toast.tsx` | the document shown, drafts, flags, requests in flight, an undo toast | load, walk to parent or subtask, edit, note, subtask, delete, undo, close | answers out of order, after the panel moved on or closed | the spinner, one note write, notes and undos on their task, one delete | `DetailPanel` |
| **Composer, quick add** `TaskComposer.tsx`, `QuickAdd.tsx`, `quickAddParser.ts` | a draft of text and pills, where it is (bar or card), a create in flight | type, expand, collapse, choose, switch tab or filter, create by three paths | tokens against pills, drafts that survive, double Enter | one create, bodies the server takes, both paths send the same | `Composer` |
| **Bulk actions** `TeamPage.tsx`, `TeamRollover.tsx`, `AttentionView.tsx`, `BacklogView.tsx`, `TaskRow.tsx`, `StatusControl.tsx` | rows, selection, busy flags, requests in flight, the undo toast | every bulk and row action, reload, undo, leave | a request per task, one of several failing, other clients, undo by remembered values | the selection is on the page, no dead bar, undo restores, what is offered is accepted | `BulkActions` |
| **App shell, list views** `App.tsx`, `DayView.tsx`, `WeekView.tsx`, `MonthView.tsx`, `SearchView.tsx`, `AllTasksView.tsx`, `TagFilter.tsx` | tab, periods, tag filter, fetches in flight, debounce timer | switch, navigate, filter, search, row operations | nothing is cancelled; closures of old renders | the last request asks for what is viewed; what was typed is searched | `Lists`, `Shell` |
| **Team history** `TeamHistory.tsx` | rows, pages in flight | load more, filter, edit, back | paging by offset of a changing list | no row twice or missing | `History` |
| **Assign popover** `AssignPopover.tsx` | team and member picked, boards in flight | pick, assign, close | boards answered out of order or not | the member is of the team | `Assign` |
| **Summary panel** `SummaryPanel.tsx` | range, requests in flight | change a date, close | abandoned requests still answer | what is shown answers the range asked last | `Summary`, `LatestAnswer` |
| **Sign-in screens** `ui/src/auth`, `api.ts` | screen, user, cookie, calls in flight | start, log in, change password, log out, reload | late answers set screen and cookie | the shell is locked while a password must change; forms come back | `SignIn` |
| **Members panel** `TeamPage.tsx` | one edit, one enable form, one revealed password, one busy row | edit, add, remove, enable, reset, disable | one set of fields for all rows and calls | edits and passwords under the right member | `Members` |
| **Accounts and sessions** `service/auth*.go`, `sessions.go`, `members.go`, `httpapi/auth.go` | hashes, `sessions` | log in, out, change, reset, enable, disable, sweep | verify, then write | sessions end with their password | `SignIn`, `Members`, composed in `Accounts` |

Not modelled (section 11): the FSM engine, calendar strings, the views' queries,
the summary report, tag normalisation, the HTTP layer, start-up, the migration, the desktop shell, the teams landing page and
the UI's formatting.

Concurrency is in two places. On the server, HTTP requests are goroutines that
share no memory that matters here and meet in PostgreSQL (READ COMMITTED, no
retries in the code): the models of the server interleave *statements*. There is
no background job: materialisation and the session sweep run in the requests. In
the UI one thread runs handlers to the next `await`; requests are served and
answered in any order, and an answer runs the code after the `await` with the
values of the render it was started from: the models of the UI interleave
*handlers between awaits* with *the server's service of a request* and *the
arrival of its answer*, each a step of its own.

## 2. How the modules fit together

* `TaskData` (pure) is used by `TaskStore`; `Recurrence` (pure) by `Series`.
  `Series` takes single-row requests as one step, which `TaskStore` shows sound.
* `Notes` and `Teams` are the two other places where requests meet in the database:
  each has the tasks reduced to what a note, or a team, can tell apart. `Requests` is
  what they share (the requests under way, ids, the client's undo); `TeamTables` holds the
  tables of `Teams` and what must hold of them.
* `DetailPanel`, `Composer` and `BulkActions` each hold one part of the UI with the
  server reduced to what the part can tell apart.
* `Shell` composes `Lists`, `History`, `Assign` and `Summary`, by INSTANCE over
  shared variables: tab, periods and tag filter belong to the shell, and a part is
  mounted, restarted and forgotten by the shell's steps.
* `Accounts` composes `SignIn` (a member's tab) and `Members` (an admin's panel) over
  one server: `account`, `sessions`, `passwords`.
* `LatestAnswer` is an abstract specification, of three variables and no request;
  `Summary` is shown to implement it (section 8).
* `MC*` give the constants values; `*Proofs` hold theorems.

Order of work: task store and series (the server's own rules), then the UI
from the parts with most handlers to the shell that mounts them, then accounts,
where the two meet; then notes and teams on the server. What a next extension
would take: the row of a series with a parent (`Series` and `TaskStore` together).

## 3. Task store

`TaskData` has the pure part: a row, what validation accepts and how the derived
columns follow (`FieldsValid`, `CreateRow`, `Merged`, `PatchRow` =
`validateTaskFields`, `CreateTask`, `patchTaskTx`). A `Row` keeps horizon,
period, due date (set or not), status, parent, team, owner, assignee, weekOf and
completedAt (the week it was set in); titles, notes, priority and tags are left
out. A period is a pair of horizon and week number, which is what validity and
`CurrentPeriodAt` tell apart.

`TaskStore` has one action per stretch of a handler between two points where it
may wait or others may commit:

| Action | Code |
|---|---|
| `CreateCheck`, `CreateInsert`, `CreateFail` | `CreateTask`: validation, then the INSERT with its foreign key |
| `PatchLock` | `patchTaskTx` up to the ancestor walk: SELECT .. FOR UPDATE, merge, validate |
| `WalkUp`, `WalkEnd`, `WalkRefuse` | the ancestor walk, one unlocked SELECT each |
| `ChildrenCheck` | `validateChildrenHorizon` |
| `PatchWrite`, `PatchFail` | the UPDATE (and, for a status change, compare-and-set and timeline entry of `fsm.go`), commit |
| `RescheduleRead`, `RescheduleWrite` | `Reschedule`, per id |
| `DeleteLock`, `DeleteScan`, `DeleteTimeline`, `DeleteRow`, `DeleteConflict`, `DeleteCommit` | `DeleteTaskCascade`: lock the root, BFS, timelines, DELETE children first, 409 on a foreign key, commit |
| `RestoreTasks` | `RestoreTasks`: one transaction, rows skipped whose id or parent does not allow them |
| `DeadlockAbort` | PostgreSQL ends a cycle of waits |
| `Tick` | the clock, week by week |

`tasks` and `log` are the committed tables; `lock[t]` the transaction that holds
row t exclusively; `ctx` and `dtx` the locals; `undo` the response the client
replays. Locks are PostgreSQL's and external to the repository: exclusive by
FOR UPDATE and DELETE, shared with the parent by an INSERT or an UPDATE of
`parent_id`.

### Runs

| Run | Checks | Bounds | Shows |
|---|---|---|---|
| `TaskColumns` | `RowsCoherent`, `PatchSeesCurrentRow`, `LogExplainsStatus`, `RootUndoIsExact` | one task, two requests, two weeks, two timeline entries, four patches (statuses, to a team with an assignee, back) | all derivations, interleaved with reschedule, delete and undo |
| `TaskTree` | `ParentExists`, `NoMutualParents`, `EveryRequestReturns` | two tasks, loose or parent and child, a third row for a child of the first created meanwhile; moves under either, or under the first with another horizon, two requests, deletes and undos | no dangling and no mutual parents; two patches that wait for each other's rows are both answered |
| `TaskCycle` | `Acyclic`, violated | three loose tasks, moves only | section 12 |

Two requests suffice for every pairwise race of statements. Two rows are what a mutual
parent, a wait for each other and a delete with a child take; the third is created
under the parent while it is moved or deleted. A longer cycle takes three loose rows,
which is `TaskCycle`. A status column needs no tree, hence the split. `TaskTree` has no
symmetry, for it checks a liveness property too.
`MaxWeek`, `MaxLog` and the number of ids cap what would grow for ever.

`CHECK_DEADLOCK FALSE` throughout: clients may stop sending, and ids run out.

Fairness (`FairSpec`): strong fairness of `Proceed(r)`, the statements of a request
that has started. A statement runs as soon as its row is free, and PostgreSQL
queues those that wait for a row, so a request whose turn comes again and again
is served: strong, not weak, because others may take and release the row in
between. Nothing is assumed of clients (`Arrive`), of undo or of the clock.

### Proofs (`TaskStoreProofs`)

`Invariance == Spec => []IInv` and from it `TypeCorrect`, `RowsStayCoherent`,
`NoLostUpdate`, `NoDanglingParent` and `RootUndo`, and from two further inductive
invariants `NoTwoParents` and `TimelineExplains`, for any sets of tasks, users,
teams and requests, under the module's assumptions on constants
(`DataAssumption`, `StoreAssumption`: initial tables are coherent, closed under
parents and without mutual parents, inputs are well-typed).

None of the properties is inductive alone. `IInv` adds:

* `UndoInv`, `SnapshotInv`: what an undo may put back is a coherent row with an id
  that was used, so that `RestoreTasks` cannot break `RowsCoherent` nor reuse an
  id of a running create.
* `ContextInv`: a patching request holds its row's lock and `orig` is the row in
  the table; what is about to be written is coherent. `NoLostUpdate` is this.
* `DeleteInv`: a deleting request holds its root, whose snapshot is exact; and the
  children of each row already deleted are deleted too, which is why the commit
  leaves no dangling parent: an INSERT or a move under a locked row waits, and
  one that came before makes `DeleteRow` a conflict.

`NoTwoParents` needs `TreeInv`, proved inductive beside `IInv`: once the walk of a
patch has read the new parent's row (`ParentRead`), that row is not under the task and
stays so until the write. `WalkFrame` says why: to come under the task another patch,
a create or an undo would have to share its row, which the patch holds. A walk over
longer chains has no such argument, as the rows in the middle are held by nobody:
`Acyclic` fails (`TaskCycle`).

`TimelineExplains` is `LogExplainsStatus` under the hypothesis `NoSubtasks \/
~AllowDelete`, which is as far as it is true: of a deleted child the row and the
timeline are read at different moments (section 12). `LogInv` keeps that the log of
every task explains its row, that the last delete's response explains itself
(`RootOnly`: it holds the root alone, which `RootUndoIsExact` is about) and, with
`NoSubtasks`, that no row is about to get a parent (`FlatInv`). `TaskColumns` checks the
same on one task.

Only model-checked: `EveryRequestReturns` (liveness).

## 4. Recurring series

`Recurrence` numbers the periods of a horizon in calendar order; 0 is the empty
period of the backlog. It has the recurrence rule, its anchor, `IsOccurrence` and
`MissingPeriods`. `DaysInWeek` is 7 in the code. A rule's freq is kept as far as it
matters here: days are listed exactly for "weekdays".

`Series` has Materialize as `MaterializeRead` (one SELECT), `MaterializeClock`
(time.Now), `Spawn` (one INSERT .. ON CONFLICT DO NOTHING, committed) and
`MaterializeEnd` (all done, an error, or the client left, between any two
inserts). `CreateTask`, `PatchTask`, `DeleteTask` and `RestoreTask` are one step
each: `TaskStore` shows that they see the current row; `Reschedule` is two, its
read being unlocked. The series of a Go map are spawned in any order, one after
the other; the periods of a series in calendar order. A patch merges into the
stored recurrence field by field, as `json.Unmarshal` does.

### Runs

| Run | Checks | Bounds | Shows |
|---|---|---|---|
| `SeriesCatchUp` | `FollowsCalendar`, `CaughtUp`, `OnePerPeriod` | `ReadSpec`: reads and creates; two-day week, four periods, three instances, two reads; every day, every second day, the second day of each week, the first day of every second week; symmetry over ids and requests | reads only: no hole, no extra instance, no period twice |
| `SeriesEnds` | `EndedSpawnsNothing` | `SerialSpec`: one request, three periods, three instances; recurrence removed, changed, put back, instances parked, moved, deleted, restored | an ended series stays ended when requests do not overlap |

A week of two days makes interval 2 skip a whole week and a listed day skip a day
within four periods; three ids let a catch-up of two instances be cut between
them. Two reads are all it takes for each to insert what the other computed.
Each series has one horizon; what a series does whose instances are moved to
another horizon (periods compared as strings of different forms) is not covered.

### Proofs (`SeriesProofs`)

`Invariance`, `TypeCorrect` and `NoDuplicateInstance` hold whatever clients send.
`SeriesFollowsCalendar` and `ReadsAreCaughtUp` assume `Unedited`: no patch, delete
or reschedule (an edit may deliberately move an instance off the calendar).
They rest on `CalendarInv`: every instance carries the rule of the first
(`HeadRules`), and for each running read (`ReadInv`) the instance it took for the
latest is still there, and each occurrence up to its clock is either spawned or
in its list. The two halves need each other: a list in calendar order makes a cut
harmless, and no hole below the latest instance is what makes starting after the
latest sufficient. That a finite non-empty set of periods has a greatest element
is proved from the library's well-foundedness of <.

That no period is taken twice whatever clients send is `NoDuplicateInstance`; the run
has reads only. `EndedStaysEnded` is about `SerialSpec`, for any number of requests
that wait for each other: a series a read found live is still open when it inserts
(`SerialInv`), as nothing but the read itself writes in between, and each row it
inserts is either the new latest, which recurs, or leaves the latest as it was. Without
the waiting it is false (section 12). Nothing of `Series` is only model-checked.

## 5. Notes, and members and teams, on the server

Both modules interleave the statements of requests, `req[r]` being what request r is
doing and has read. Row locks follow from it: a request that has passed its SELECT
.. FOR UPDATE or its first UPDATE holds the row until it ends. A statement that waits
for several rows takes them at once; since every request may be given up at any point
(`Abort`: an error, a client that hangs up, a deadlock broken by the database), no
behaviour is lost by it.

| `Notes` | Code (`task_notes.go`, `tasks.go`) |
|---|---|
| `AddNote`, `EditNote`, `DeleteNote` | `noteTask`, `findNote`, `validateNote`: unlocked reads |
| `Touch` | `touchTask`: waits for the task's row; an add ends in 404 without it, the others go on |
| `InsertNote`, `UpdateNote`, `RemoveNote` | the write of the note and the commit |
| `LockTask`, `ReadTimeline`, `PatchTask`, `DeleteTask` | `patchTaskTx` and `DeleteTaskCascade` as far as the timeline goes: the row, the entries, the write; the response of a delete is the client's undo |
| `RestoreTask` | `RestoreTasks`: the row and the entries of that response |

| `Teams` | Code (`members.go`, `teams.go`, `tasks.go`) |
|---|---|
| `CreateTask`, `PatchTask`, then `WriteTask` | `validateTaskFields` with its unlocked reads, then the INSERT or UPDATE with its foreign keys |
| `DeleteTask`, `RestoreTask` | a delete and its undo, which checks that team and assignee exist |
| `CreateMember`, `PatchMember`, `ValidateTeam`, `WriteMember` | the member's row FOR UPDATE and its memberships read; `validateTeamIDs` team by team, FOR KEY SHARE; the row and all memberships written |
| `DeleteMember`, `RemoveMember` | the row FOR UPDATE; DELETE, with SET NULL on tasks and CASCADE on memberships |
| `CreateTeam`, `DeleteTeam`, `RemoveTeam` | the count of tasks; DELETE, with RESTRICT on tasks and CASCADE on memberships |

`kept` (acknowledged notes nobody deleted), `strays` (notes written by a request that found
no task to touch) and `left` (who left which team) are history only.

| Run | Checks | Bounds | Shows |
|---|---|---|---|
| `Notes` | `NotesSurvive`, `ReadersAreCurrent` | two notes, two dates, three requests; symmetry over all three | a note write against a reader of the timeline, with a third request that deletes the task between |
| `Teams` | `RefsStand`, `MembershipsAsRead`, `OutsidersHaveLeft` | two teams, two members, one task, two requests at a time, any number one after the other; symmetry over teams and requests | every pair of a check and a delete; a task moved from one team to the other; who is assigned while leaving |

Two teams are what a move takes, two members what an assignment to someone else takes.
One task is enough: tasks meet here only through their team and assignee.

### Proofs (`TablesProofs`)

All properties of both, for any number of notes, dates, teams, members, tasks and
requests: `NotesKept`, `TimelinesStand`; `NoDanglingRefs`, `NoLostMembership`,
`AssigneesBelonged`; `TypeCorrect` and `TeamTypeCorrect`; and, stated with the proofs, `AddsSucceed` (an
add that found its task never meets a missing foreign key) and `ValidationHolds` (what
`validateTeamIDs` checked stays true until the memberships are written).

* `Notes`: `OneHolder`, at most one request has the task's row; `Fit`, what each request
  relies on: a holder's task is there, and what a patch or a delete has read shows every
  acknowledged note. That a delete keeps notes for its undo needs it, for the response
  is the timeline read earlier and not the one removed.
* `Teams`: `OneWriter`, a member or a task has one writer; `FitMember`, a patch has read
  the memberships as they are and validated teams stand; `FitTask`, a task's patch
  starts from the row in the table, and the assignee it is about to write is in the
  team or has left it since (`Entitled`). A step that changes memberships must
  remember who left (`Remembered`), which carries `Entitled` through every request under
  way and through the undo.

The module extends `Notes` and `TeamTables` and has `Teams` as an instance `T`: the names in
`Requests` are variables of either specification, and each theorem is about one of the two.

Assumption: `NotesAssumption` (`None` is none of the values); what is proved of `Teams`
needs none.

## 6. Task panel, composer, bulk actions

`DetailPanel` is one mount of the panel. A handler occupies a slot of `running` from
its first request to the answer it ends with (`Start`, `Then`, `End`), so that a
follow-up request, such as the refetch after a note, keeps the slot. `Serve`,
`Refuse` and `Fail` are the server's side; `Resume` the code after the `await`. A text
is known by the task it was typed for, so that a draft written to another task
shows.

`Composer` keeps a draft of words (`Parse` is `parseQuickAdd` over words that stand for
their tokens) and pills. `FastPayload`, `DraftPayload` and `Payload` are the three ways
to a request body. `heard` is history only: the words expanded under this tab.

In the quick-add row a token's recurrence does not move the horizon: the team page's
`createOnTeam` sends "daily", today and the team with whatever was parsed (`Payload`).

`BulkActions` is one page of four. An operation (`ops`) carries its unserved requests,
what its closure remembered (`was`), what the page showed (`seen`) and what the
server's rows were left at (`left`, history only). `Elsewhere` is another client.
`Succeed`, `Tell` and `Forgotten` are the code after `Promise.all`: success, the first
failure (told at once, while other requests are still unserved) and the rest.
A row has its period, counted from the one under way, and `series` the instances among the
tasks; of a series' other instances `others` keeps the periods they fill, of which the unique
index lets there be one each (`SlotHeld`). Every list but the backlog, this page's or another
client's, runs Materialize first (`Spawned`); `Occurs` says on which periods a series
falls. A restore skips an instance whose period is filled (`Revived`), a reschedule stops there
(`Halted`), a patch is refused (`Refused`). `inTeam` are the members of the team, of whom any
may leave it (`MemberMoves`).

| Run | Checks | Bounds | Shows |
|---|---|---|---|
| `DetailPanel` | `LoadingIsLive`, `OneNoteWrite`, `NotesStayHome`, `OneDelete`, `NotesNeverMoveThePanel` | a task and its subtask, a note and one to write, two handlers at once, two writes | two handlers are every pairwise race; a parent and a child are all a panel walks between |
| `Composer` | `OneCreate`, `CallsFit`, `EnterMatchesExpand`, `OverrideIsOfThisTab`, `QuickTextSurvives` | five texts that between them have every token, an ambiguous name, five acts | a draft needs: type, expand, a pill, collapse, type again |
| `BulkActions` | `SelectionShown`, `BusyIsLive`, `UndoRestores`, `OffersAreAccepted` | two tasks, loose, parent and child, or instances of a series, four mixes of rows; a daily series and one that ended two periods ago; a member in the team or not; two acts, one reload under way | two requests are what one of several failing takes; an action and its undo are two acts; periods from three ago to today let a read spawn what was deleted |

`EnterMatchesExpand` is stated without a member filter, `UndoRestores` and
`OffersAreAccepted` for tasks nobody else touched, `WeekIsKept` excepts what the code
does not undo, and `CallsFit` a recurrence in the quick-add row of another horizon than a
day's. `Blocked` and `Ousted` are what no page shows: the assignee has left the team, or
another instance fills the period. A patch so blocked may be refused, its undo too; a
restore leaves out what is ousted, and everything if a subtask of it is to come back.
Section 12 says what happens then. No fairness: nothing here must happen.

### Proofs (`DetailPanelProofs`)

All properties of the panel and its types (`TypeCorrect`), for any tree of tasks, notes, weekdays, number of
handlers at once and number of writes. Two invariants:

* `TypeInv`: types, and what a request carries. A handler that writes or refetches
  notes names the task its note was born on; an answer is a document of the task it
  was asked for (`HandlerInv`), and so is what is on screen (`HomeDoc`); a toast's undo
  names the note's own task (`ToastInv`); an open panel without a document has only
  loads under way (`ShownInv`): without it an early undo could show a document to a
  panel that never loaded one. `NotesHome` and `NotesKeepThePanel` follow.
* `CountInv`: of the handlers that hold `noteBusy`, of those that delete the task and of
  the loads still awaited there is at most one each, and its flag is set exactly while
  there is one. Cardinalities follow from uniqueness (`AtMostOne`). A step of one slot
  is described once (`SlotPut`, `SlotTaken`); `PlainStart`, `PlainEnd` and `PlainGoOn` are
  the steps that touch no flag.

Assumption: `TreeAssumption` (the tables the server may start with hold notes only on
the task they were born on; `None` is no task, note, document or handler).

### Proofs (`ComposerProofs`)

`CreatesOnce`, `QuickTextStays` and `EnterIsExpand`, for any members, names, texts and
dates, from `BarInv`: a draft has exactly its fields, calls form a sequence, and
`OneCreate`. `EnterIsExpand` is a proof about `Parse`, `Merged` and the three payloads and
needs no history: a draft that takes the fast path has nothing the fast path drops.
`CallsAreFit` and `OverrideOfThisTab` come from `FitInv`: the title is a text over the
vocabulary, the recurrence and the override are of the lists the parser knows, a
planning tab is always one of them. They need to know what a text leaves behind when its
tokens are taken in. `Plain` and `Last` are not recursive: a place is numbered by how many
are before it, and `NthIs` finds one for every number because an injection between
finite sets of one size is onto; `LastPlace` is its last case. So `Plain` of a text is a
text (`PlainIsText`), and what `Parse` names was a word of it (`ParseIs`, `MergedFit`).
An answer takes one call away and leaves every other as it was (`CallTaken`).

Assumption: `BarAssumption` (texts are over the vocabulary, whose recurrences and
horizons are those of the parser's two lists; Monday to Friday are weekdays). Nothing of
`Composer` is only model-checked.

### Proofs (`BulkActionsProofs`)

All four properties, for any tasks, members, series and rows to start with and any
number of acts and reloads: `SelectedAreShown`, `BusyWhileLive`, `UndoGivesBack`,
`OffersAreTaken`. They come from one invariant, `IInv`, of six parts:

* `SrvInv`: a row that exists is `Good`, one the server's checks let be. `AcceptedIsGood` is
  the step: what PATCH does not refuse leaves a good row.
* `PageInv`: the rows shown, and those of every reload under way, are good and on the
  page's list. What the page shows may be stale: the list's condition still holds of the
  row *as shown*, which is all a handler looks at.
* `OpsInv`: every operation fits. Of a bulk action not yet told (`BulkFits`), each request
  still unserved is an `Offer`: of the row its handler saw, the server takes the request,
  and the remembered patch undoes it. Of each task already served, the undo gives back
  what was there, if that was what the handler saw (`Undone`). A delete remembers the rows
  it took away (`Taken`), and an undo asks for what its toast kept (`UndoFits`).
* `ToastInv`: the same of the toast, which outlives the operation, the reload and (on the
  attention list) the page.
* `BusyInv`: where there is a busy flag, one bulk action is unanswered or none is.
* `Place`: the queue and the backlog are an admin's; no task is its own parent.

The substance is seven lemmas, one per kind of offer (`OfferBoard`, `OfferEnd`, `OfferMove`,
`OfferToday`, `OfferLater`, `OfferPark`, `OfferAssign`; `AloneIs` turns them into acceptance
of a patch that is not blocked), which
compute the row after a patch and after its undo, week rule included (`PatchedIs`,
`WeekStays`). `OfferEnd` is where `WeekIsKept` is needed. `AppliedFits` is the step that
serves one request of several; `RevivedIs` says that a restore inserts what is not
ousted; `ServedIsServed` shows that what the action properties call served is `Serve` of
that request, or of the one a reschedule stopped at, and no other step. The other instances
and the members are in no part of the invariant: whatever they do, only `Blocked` and
`Ousted` see it. An operation that is added, changed or gone is
described once each (`OpAdded`, `OpChanged`, `OpGone`), over `Append`, EXCEPT and `Without`.

Assumption: `BulkAssumption` (no task is its own parent; the rows to start with are
`Sound`, which is what `validateTaskFields` demands of a row's own columns; `None` is no
row, week, due date, period or series). The one row of the store known not to be sound, a backlog task
with a week after a reschedule that raced (section 12), is outside it.

## 7. Shell

| Run | Checks | Bounds |
|---|---|---|
| `Shell` | `ViewsAskForWhatIsViewed`, `HistoryShowsNewestRows`, `AssigneeIsOfTheTeam`, `SummaryShowsLatestAnswer`, `SearchesAreAnswered` | a day and two weeks, one tag, two teams, three closed tasks in pages of one (an edit's reload of at most two), three requests of a view, three pages, two of the summary, one row operation |

Every mounted part's requests stay open to be answered in any order or to fail. Two
weeks and one tag make a question that changes twice; three requests let an answer
to the first arrive after the third was sent; three tasks in pages of one let a
reload, a page and a row that leaves cross. A request that was abandoned is kept
(`cancelled`) until its answer comes, because the code receives it and must ignore
it. The summary is opened over a list at rest: the two share nothing, and the
product of their requests adds states and no behaviour of either.

History's `crossed` is history only: it records that requests crossed, a reload was
lost or the list changed under the pages; the property is about the other states.

Fairness (`FairSpec`): the debounce timer fires, and a view's request is answered or
fails (a browser ends every fetch). Weak fairness suffices: both stay enabled until
they happen. With it `SearchesAreAnswered`: what was typed last comes on screen, or
an error does.

## 8. LatestAnswer, and the proofs about the shell (`ShellProofs`)

`LatestAnswer` promises of a panel: what is on screen answers the question asked last,
or is nothing, except while that answer is loading. `Summary!Latest` is its INSTANCE
with asked = the range the inputs name, shown = `data`, loading = `loading`: requests,
their numbers, cancellation, errors and the closing timer disappear.

* `LatestAnswerShown == Spec => SummaryShowsLatestAnswer`, for the panel as the shell
  mounts it, any dates and number of requests. Inductive invariant `PanelInv`: types,
  and `LiveFetch`: request numbers are unique, at most the last one sent is not
  cancelled, it asks for the range of the inputs, and it exists exactly while
  `loading`. Each step maps to a step of `LatestAnswer` (Ask, Withdraw, Answer, Fail)
  or a stutter: an answer to a cancelled request is a stutter because of `LiveFetch`.
* `AssigneeOfTheTeam == Spec => []AssigneeIsOfTheTeam`. `PickInv`: a board that is not
  cancelled is of the team picked, the options are of that team unless it is loading
  or a board failed, and a member picked is of it.
* `ViewsAskWhatIsViewed == Spec => []ViewsAskForWhatIsViewed` is inductive as it stands:
  what can put the view ahead of its last request (a period, a tag, a mounted view)
  sends one in the same step, and typing sets the timer; an answer changes neither side.
* `HistoryShowsNewest == Spec => []HistoryShowsNewestRows`. `OneFlight`: with nothing
  crossed at most one page is in flight; it either starts over from row 0, or starts
  where the rows end, and then the rows are already the first ones of the list
  (`NewestShown`). A page answered joins two adjacent parts of one list
  (`PageAnswerKeeps`); an edit's reload starts over, so what left the list with the edit
  needs no word.
  The ranks of a list are counted rather than recursed over: a member of a set is numbered
  by how many are above it (`AboveShrinks`), and `Ranks` finds one for every number
  because an injection between finite sets of one size is onto.

Assumption: `ShellAssumption` (the planning tabs include day and week, week ranges are
ranges of dates, `None` is neither range nor team, the sizes and bounds are numbers).
Only model-checked: liveness.

## 9. Accounts

`SignIn` is one tab of the member `Me` and the server behind it. A call carries the
cookie the tab held when it was sent; its answer writes the cookie again, as the
session middleware does, so late answers also write it late. Logging in and changing
a password verify in one step and write in another (`Verify`, then `CreateSession` or
`WritePassword`). `Members` is an admin's panel: one edit, one enable form, one busy
row, one revealed password for all rows; `ReadMember` and `IssuePassword` are the
unlocked read and the write of a reset. Two identical calls in flight at once are
one element of a set: they would be served and answered alike.

`crossed` marks a session made after the password it was verified with had changed,
`stray` a screen put up by the answer of a form already left, `alone` a password made
with no other one under way for that member. They are history only, and name the
exceptions of the properties (section 12).

| Run | Checks | Bounds | Shows |
|---|---|---|---|
| `Accounts` | `SessionsEndWithTheirPassword`, `ShellIsLocked`, `FormsComeBack`, `EditsReachTheirMember`, `RevealedPasswordStands` | `PhasedSpec`: a member with a login, temporary or not, and one without; two calls of the tab, two sessions, one change. Until the tab's first answer: two calls of the panel, two passwords, edits, removals. From then on: one call of the panel, one password, no edits | a late answer and an admin's reset against a sign-in or a change; two rows and two answers are what one set of fields can mix up |

The product of a busy tab and a busy panel is too large; they meet in the account, its
password and its sessions only, and a single call of the panel reaches all three.

Fairness: the call of a form is served and answered, or fails (`Progress`, weak, per
form); nobody owes anything else, the user may never return.

### Proofs (`AccountsProofs`)

`SessionsEnd`, `EditsReach`, `TypeCorrect`, `LockHolds` and `RevealedStands`, for any
members, calls, sessions and passwords. The first three are from one invariant `Inv`:

* `ServerInv`: accounts, passwords and sessions have their types, and the property.
* `CallInv`: a call names a session and a password that were made. A log-in that
  was verified becomes a session marked `crossed` unless the password is still the
  account's: the property is not inductive without it.
* `ScreenInv`: screen, user and panel fit. `OpInv`: what a call of the admin's panel
  carries, in particular that an edit carries the profile of the member it names.
  `EditInv`: the fields hold the profile of the row being edited. The last two are
  `EditsReach`: neither alone survives a saved edit.

`LockHolds` states `ShellIsLocked`, from `LockInv` over `Inv`. A token is `Safe` when no
uncrossed session of a locked account has it, and once safe it stays safe, because the
only steps that lock the account of `Me` end its sessions (`ServerMoves`, `SafeKept`).
`AnswerOK`: an answer that opens the shell carries a safe cookie, because it was made by
a server that saw the account unlocked. That is not enough, as a screen opened by one
answer also holds the cookies of the others: `FormInv` says that while a mounted form
has an answer that opens the shell, no session at all is an entry into a locked account,
and `MountInv` that at most one form is mounted and which screen it is on. `ShellInv` is
the property, with the cookies of every call in flight.

`RevealedStands` states `RevealedPasswordStands`, from `RevealInv` over `Inv`: a password
made alone stands from its writing to its showing, and while it is shown nobody makes
another for that member (`NobodyMakes`), as the row that shows one offers neither a reset
nor an enabling and `handleResetPassword` takes it down before it sends.

Assumption: `AccountAssumption`. Only model-checked: `FormsComeBack` (liveness).

## 10. Bounds, deadlock and symmetry

`Max*` constants and the number of ids, slots and requests cap what would grow for
ever; each is a guard of the action it stops and a comment names it.
`CHECK_DEADLOCK FALSE` throughout: clients and users may stop, and ids and requests
run out. Symmetry is used in `SeriesCatchUp`, `Teams` and `Notes`, with invariants only.
Types are proved, for every value of the constants, wherever the proofs state
`TypeCorrect` (`TaskStore`, `Series`, `Notes`, `DetailPanel`, `Accounts`) or
`TeamTypeCorrect` (`Teams`); no run repeats them.

Liveness and `ENABLED` stay with TLC: the prover has no backend for them. Where a
proof would need induction over data, it counts or takes a least element instead
(the greatest period of a series, the newest rows of a history), from the library's
theorems on finite sets and on well-founded relations.

## 11. Not modelled

Components with status `not_modelled` in `PROJECT.json`, for the reasons given there:
pure formatting and queries (calendar strings, tags, views, summary report, HTTP),
code that runs once (start-up, migration), an engine with one trivial use (FSM), the
teams landing page and the desktop window. Within what is modelled: texts, the wording of messages, ordering of lists
but the history; on the server PostgreSQL's failure of a statement for outside
reasons (every such failure rolls the request back, which `Refuse` stands for where
a guard allows it), the sliding
of a session's expiry date and the log-in back-off; in the UI the tag editor, the
navigation's badge and counts, a second tab of the same member, and other admins.
A call of `SignIn` or `Members` that fails, or is left behind by a reload, is not served
afterwards, which the server might; `BulkActions` and `DetailPanel` do serve such calls.

## 12. Findings

The run `TaskCycle` ends with a counterexample: moves in two requests close a cycle
of three parents, because the ancestor walk reads unlocked rows
(`tasks.go:353-377`; a cycle of two is impossible: `NoMutualParents`).

What else was met while modelling has no run of its own: each follows from the
lines quoted, and a property above is stated so as to hold beside it. Paths are
under `src/internal/service` and `src/ui/src`.

Server:

* An undo puts a child back under a parent refined since (`tasks.go:908`; README.md:23
  has the rule it breaks). A child patched between a delete's BFS and its DELETE is
  undone to its old values (`tasks.go:859`; :836-837 calls the response the undo
  snapshot). `RootUndo` proves the root safe.
* Reschedule writes a week onto a task moved to the backlog meanwhile (`tasks.go:1090`).
* Materialize revives a series a patch is ending (`task_views.go:97`; :39 says it ends).
  A recurrence added by PATCH never makes a series (`tasks.go:703`), though the panel
  offers exactly that.
* A member who leaves a team keeps its tasks: the membership is checked when the task
  is written (`tasks.go:404`) and nothing looks at tasks when memberships go
  (`members.go:32`, or the cascade of a deleted team), while docs/DESIGN.md:46 says
  "member must belong to that team". A patch validates the whole merged row, so such a
  task refuses every patch, a change of status included, until it is reassigned. What
  does hold, and is proved, is `OutsidersHaveLeft`.
* An edit of a note that sends no date falls back to the date it read before its
  transaction (`task_notes.go:137`) and writes it over one another edit has set since,
  while docs/DESIGN_V9_NOTES_SUMMARY.md:84 says that an omitted date keeps the entry's.
* An edit or a delete of a note goes on when its touch finds no task
  (`task_notes.go:142`, :176): if an undo brings the task back before the next statement, the
  note is written without the row lock that :77-79 relies on. `strays` in `Notes` is that.
* A restored task is checked for its assignee's existence, not membership
  (`tasks.go:1032-1040`), and a spawned instance copies the assignee unchecked.
* A password change verified before a reset commits over it; a log-in verified before
  a reset makes a session after it (`auth.go:36-93`). A password is issued for a
  member removed meanwhile (`auth.go:99-143`).

Task panel, composer:

* A draft is written to the task the panel walked to (`TaskDetail.tsx:249-256` resets
  the note drafts only), and the answer to an edit replaces the document shown with
  the one edited, whatever is on screen by then (:340).
* The rules the panel offers include some the server refuses (:65-68).
* Under a member filter, Enter and expand-then-create differ (`TaskComposer.tsx:481-487`);
  "Don't repeat" after a repeat token leaves its horizon; an explicit Unassigned is
  overwritten by expanding again; words typed during a create are wiped.
* `QuickAdd` has no guard: Enter twice creates twice. Its legend offers `*weekly`, but the team
  page sends every quick task as daily (`TeamPage.tsx:441-470`), which the server refuses with
  a weekly or monthly recurrence (`tasks.go:417-421`).

Bulk actions:

* The attention list's undo of "done" does not give a team task's week back
  (`AttentionView.tsx:365-393`; the rollover's does); "skipped" does not skip what the
  server refuses for other reasons (:421-432, `tasks.go:350`).
* If one of several requests fails, the others stay applied and no undo is offered.
* An operation still under way when the page is left shows its toast afterwards
  (`TeamPage.tsx:289-302`). An avatar filter hides rows that stay selected.
* A row whose delete is undone before the reload stays disabled (`TaskRow.tsx:125-148`).
  Reloads answered out of order show the older list. A success in the attention list
  clears what was selected meanwhile.
* Undo of a bulk change may be refused, for a week by a member who is no admin
  (`tasks.go:730-733`).
* Undo of a delete silently leaves out a recurring instance whose period is filled again
  (`tasks.go:933-939`). For the latest instance of a series that is the normal course: the page's
  own reload runs Materialize, which spawns its period anew before Undo is clicked. If
  a subtask of it is to come back too, its foreign key fails the whole restore.
* A recurring instance cannot be moved onto a period another one fills: the unique index
  fails the request. Reading the attention list spawns today's instance of a daily series, so
  "Reschedule to today" always fails for its slipped ones, and for the tasks after
  it in the selection (`tasks.go:1095`: the loop returns); a picked date may do the same.
* A task whose assignee has left the team refuses every bulk change but a new assignee, a
  delete, a reschedule or the way to the backlog, and so does the undo of one (`tasks.go:404`).

Shell:

* `DayView.tsx`, `WeekView.tsx`, `MonthView.tsx`, `AllTasksView.tsx`, `SearchView.tsx`,
  `TagFilter.tsx`, `TeamsLanding.tsx` and the badge cancel nothing: an answer to an
  earlier question may stay on screen. `SummaryPanel`, `AssignPopover` and `TaskDetail`
  do cancel.
* The history is not newest first, or has a row twice, when requests cross
  (`TeamHistory.tsx:74-105`).
* After a board failed to load, the members of the team picked before stay on offer
  (`AssignPopover.tsx:54-56`).
* The summary's closing timer also closes a panel opened within 260 ms
  (`SummaryPanel.tsx:85-91`). A tag filter whose list failed to load cannot be cleared.

Accounts:

* A forced change answered after the user signed out brings the shell back
  (`AuthContext.tsx:74`); a late 401 signs out a fresh log-in; a late answer rewrites
  the cookie of a newer session; a forced screen whose session is gone only shows an
  error.
* `memberBusy` is one id: two resets of one member may overlap and the password shown
  may be the older one; a saved edit closes another row's (`TeamPage.tsx:627-640`); a
  closing panel's timer closes a reopened one.
