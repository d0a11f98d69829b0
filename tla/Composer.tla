------------------------------- MODULE Composer -------------------------------
(***************************************************************************)
(* The two bars tasks are created with: the composer                        *)
(* (ui/src/components/TaskComposer.tsx) in its team, personal and backlog   *)
(* contexts, and the quick-add row of a team page's group (QuickAdd.tsx,    *)
(* createOnTeam), with the token parser they share (quickAddParser.ts).     *)
(*                                                                          *)
(* A text is a sequence of words; a word is a plain one or a token that     *)
(* stands for a value.  A period is known by the horizon it belongs to.     *)
(***************************************************************************)
EXTENDS Integers, Sequences, FiniteSets

CONSTANTS
    None,        \* nothing
    Member,      \* the members of the team
    Means,       \* [name -> SUBSET Member]: whom a typed name may mean
    Date,        \* due dates
    Day,         \* the weekdays (seven in the code)
    Workdays,    \* Monday to Friday
    Texts,       \* what the user may type
    Legend,      \* the tokens of the quick-add legend
    MaxEdits     \* how often the user acts on the draft (a bound)

VARIABLES
    context,     \* the bar on the page
    tab,         \* viewHorizon: the tab's horizon, None outside the shell
    filter,      \* defaultAssigneeId: the page's member filter; a row's group
    expanded,    \* expanded
    draft,       \* title, notes, assigneeId, due, priority, repeat, tags, override
    pop,         \* pop: the open popover
    createMore,  \* createMore
    busy,        \* inFlightRef, and creating
    calls,       \* POST /api/tasks without an answer yet
    heard,       \* the words expanded under this tab into this draft
    edits        \* how often the user acted

place == <<context, tab, filter>>
vars == <<place, expanded, draft, pop, createMore, busy, calls, heard, edits>>

-------------------------------------------------------------------------------
(* Data.                                                                    *)

Horizon == {"daily", "weekly", "monthly"}
Freq == Horizon \cup {"weekdays"}
Context == {"team", "personal", "backlog", "quick"}
Pill == {"assignee", "due", "priority", "repeat"}

RecurHorizon == [f \in Freq |-> IF f = "weekdays" THEN "daily" ELSE f]

\* The words there are.  A token's value is one of its kind's lists.
Vocabulary == Legend \cup UNION {{t[i] : i \in 1..Len(t)} : t \in Texts}

ASSUME BarAssumption ==
    /\ Workdays \subseteq Day /\ Workdays # {}
    /\ MaxEdits \in Nat
    /\ \A n \in DOMAIN Means : Means[n] \subseteq Member
    /\ \A t \in Texts : t \in Seq(Vocabulary)
    /\ \A w \in Vocabulary : /\ w.kind = "recur" => w.val \in Freq
                             /\ w.kind = "horizon" => w.val \in Horizon

\* A recurrence of the draft: every `interval' (1 or more) days, weeks or months.
Repeat == [freq : Freq, interval : {1, 2}, days : SUBSET Day]

\* The value of one field that wins over another when it is there.
Over(a, b) == IF a # None THEN a ELSE b

\* The two bars of a team's page.
OnTeam == context \in {"team", "quick"}

\* Exact names and unique prefixes resolve; only a team has members.
Resolve(name) ==
    IF OnTeam /\ name # None /\ Cardinality(Means[name]) = 1
    THEN CHOOSE m \in Member : Means[name] = {m} ELSE None

\* The last word of a kind is the one that counts.
Last(text, kind) ==
    LET hits == {i \in 1..Len(text) : text[i].kind = kind}
    IN  IF hits = {} THEN None
        ELSE text[CHOOSE i \in hits : \A j \in hits : j <= i].val

\* The words that are no tokens, in their order: the k-th has k - 1 before it.
Nth(places, k) == CHOOSE i \in places : Cardinality({j \in places : j < i}) = k - 1

Plain(text) ==
    LET places == {i \in 1..Len(text) : text[i].kind = "plain"}
    IN  [k \in 1..Cardinality(places) |-> text[Nth(places, k)]]

Parse(text) ==
    LET freq == Last(text, "recur")
    IN  [title    |-> Plain(text),
         assignee |-> Last(text, "assignee"),
         due      |-> Last(text, "due"),
         priority |-> Last(text, "priority"),
         repeat   |-> IF freq = None THEN None
                      ELSE [freq |-> freq, interval |-> 1, days |-> Workdays],
         horizon  |-> IF freq # None THEN RecurHorizon[freq]
                      ELSE Last(text, "horizon"),
         tags     |-> {text[i].val : i \in {j \in 1..Len(text) : text[j].kind = "tag"}}]

Empty == [title |-> <<>>, notes |-> FALSE, assignee |-> None, due |-> None,
          priority |-> None, repeat |-> None, tags |-> {}, override |-> None]

-------------------------------------------------------------------------------
(* What a create sends.                                                     *)

\* Mutant: the horizon token wins over the recurrence.
TokenWins(repeat, token) ==
    IF context # "personal" THEN IF repeat = None THEN "daily" ELSE RecurHorizon[repeat.freq]
    ELSE Over(token, IF repeat = None THEN tab ELSE RecurHorizon[repeat.freq])

\* A recurrence implies the horizon; else, on a planning tab, an override does.
HorizonOf(repeat, token) ==
    IF repeat # None THEN RecurHorizon[repeat.freq]
    ELSE IF context = "personal" THEN Over(token, tab) ELSE "daily"

\* Only a weekdays recurrence has weekdays, and it always has some.
Recurrence(repeat) ==
    IF repeat = None THEN None
    ELSE [freq |-> repeat.freq,
          interval |-> repeat.interval,
          days |-> IF repeat.freq # "weekdays" THEN {}
                   ELSE IF repeat.days = {} THEN Workdays ELSE repeat.days]

\* The body of POST /api/tasks for a draft and its title.  The quick-add row's is
\* a daily one, whatever repeats.
Payload(d) ==
    [title      |-> d.title,
     notes      |-> d.notes,
     priority   |-> d.priority,
     tags       |-> d.tags,
     horizon    |-> IF context = "backlog" THEN "backlog"
                    ELSE IF context = "quick" THEN "daily"
                    ELSE HorizonOf(d.repeat, d.override),
     due        |-> IF context = "backlog" THEN None ELSE d.due,
     recurrence |-> IF context = "backlog" THEN None ELSE Recurrence(d.repeat),
     team       |-> OnTeam,
     assignee   |-> IF OnTeam THEN d.assignee ELSE None]

\* The draft with the tokens of its title taken in: a fresh one wins, then the
\* draft's own value, then the default assignee.
Merged(d, default) ==
    LET p == Parse(d.title)
    IN  [d EXCEPT !.title = p.title,
                  !.assignee = Over(Over(Resolve(p.assignee), d.assignee), default),
                  !.priority = Over(p.priority, d.priority),
                  !.due = Over(p.due, d.due),
                  !.repeat = Over(p.repeat, d.repeat),
                  !.tags = d.tags \cup p.tags,
                  !.override = IF context = "personal"
                               THEN Over(p.horizon, d.override) ELSE None]

\* Mutant: a bare horizon override is not a field of the draft.
HasPills(d) ==
    \/ d.assignee # None \/ d.due # None \/ d.priority # None
    \/ d.repeat # None \/ d.notes \/ d.tags # {}

\* draftFieldCount() > 0.
HasFields(d) ==
    \/ d.assignee # None \/ d.due # None \/ d.priority # None
    \/ d.repeat # None \/ d.notes \/ d.tags # {}
    \/ context = "personal" /\ d.override # None

FastPayload(d) == Payload(Merged([Empty EXCEPT !.title = d.title], filter))
DraftPayload(d) == Payload(Merged(d, None))

\* What Enter on the collapsed bar sends.
EnterPayload(d) == IF HasFields(d) THEN DraftPayload(d) ELSE FastPayload(d)

\* What expanding the bar and creating from the card sends.
CardPayload(d) == Payload(Merged(d, filter))

Init ==
    /\ context \in Context
    /\ tab = IF context = "personal" THEN "daily" ELSE None
    /\ filter \in IF OnTeam THEN Member \cup {None} ELSE {None}
    /\ expanded = FALSE /\ draft = Empty /\ pop = None /\ createMore = FALSE
    /\ busy = FALSE /\ calls = <<>> /\ heard = {} /\ edits = 0

-------------------------------------------------------------------------------
(* Editing the draft.                                                       *)

Act == edits < MaxEdits /\ edits' = edits + 1
Quick == context = "quick"
Composer == ~Quick
Bar == Composer /\ ~expanded
Card == Composer /\ expanded

Edit(d) ==
    /\ Act /\ d # draft /\ draft' = d
    /\ UNCHANGED <<place, expanded, createMore, busy, calls>>

\* The title input of the bar, of the card, and the quick-add row's.
Type(text) ==
    /\ Edit([draft EXCEPT !.title = text])
    /\ UNCHANGED <<pop, heard>>

\* A token of the quick-add legend is clicked.
Insert(w) ==
    /\ Quick
    /\ Edit([draft EXCEPT !.title = Append(@, w)])
    /\ UNCHANGED <<pop, heard>>

TypeNotes ==
    /\ Card
    /\ Edit([draft EXCEPT !.notes = ~@])
    /\ UNCHANGED <<pop, heard>>

\* One popover is open at a time.
TogPop(name) ==
    /\ Card
    /\ context = "backlog" => name = "priority"
    /\ context = "personal" => name # "assignee"
    /\ pop' = IF pop = name THEN None ELSE name
    /\ UNCHANGED <<place, expanded, draft, createMore, busy, calls, heard, edits>>

\* A choice that closes its popover.
Choose(name, d) == Card /\ pop = name /\ pop' = None /\ Edit(d) /\ UNCHANGED heard

ChooseAssignee(m) == Choose("assignee", [draft EXCEPT !.assignee = m])
ChooseDue(d) == Choose("due", [draft EXCEPT !.due = d])
ChoosePriority(p) == Choose("priority", [draft EXCEPT !.priority = p])
DontRepeat == Choose("repeat", [draft EXCEPT !.repeat = None])

\* A preset keeps the interval and the weekdays there are.
ChooseFreq(f) ==
    /\ Card /\ pop = "repeat"
    /\ Edit([draft EXCEPT !.repeat =
               IF draft.repeat = None
               THEN [freq |-> f, interval |-> 1, days |-> Workdays]
               ELSE [draft.repeat EXCEPT !.freq = f,
                                         !.days = IF @ = {} THEN Workdays ELSE @]])
    /\ UNCHANGED <<pop, heard>>

\* Weekdays have no interval to set.
SetInterval(n) ==
    /\ Card /\ pop = "repeat"
    /\ draft.repeat # None /\ draft.repeat.freq # "weekdays"
    /\ Edit([draft EXCEPT !.repeat.interval = n])
    /\ UNCHANGED <<pop, heard>>

\* The last weekday stays on.
ToggleDay(day) ==
    /\ Card /\ pop = "repeat"
    /\ draft.repeat # None /\ draft.repeat.freq = "weekdays"
    /\ draft.repeat.days # {day}
    /\ Edit([draft EXCEPT !.repeat.days =
               IF day \in @ THEN @ \ {day} ELSE @ \cup {day}])
    /\ UNCHANGED <<pop, heard>>

ToggleCreateMore ==
    /\ Card /\ Act
    /\ createMore' = ~createMore
    /\ UNCHANGED <<place, expanded, draft, pop, busy, calls, heard>>

\* Shift+Enter, the expand button and the draft chip.
Expand ==
    /\ Bar /\ Act
    /\ draft' = Merged(draft, filter)
    /\ heard' = heard \cup {draft.title[i] : i \in 1..Len(draft.title)}
    /\ pop' = None /\ expanded' = TRUE
    /\ UNCHANGED <<place, createMore, busy, calls>>

\* The popover's Done button.
ClosePop ==
    /\ Card /\ pop # None
    /\ pop' = None
    /\ UNCHANGED <<place, expanded, draft, createMore, busy, calls, heard, edits>>

\* The close button; the draft stays.
Collapse ==
    /\ Card
    /\ pop' = None /\ expanded' = FALSE
    /\ UNCHANGED <<place, draft, createMore, busy, calls, heard, edits>>

\* Escape in the card and a mousedown outside it close the popover first.
Escape == IF pop # None THEN ClosePop ELSE Collapse
ClickOutside == IF pop # None THEN ClosePop ELSE Collapse

\* Escape on the bar.
ClearDraft ==
    /\ ~expanded
    /\ draft # Empty /\ draft' = Empty /\ pop' = None /\ heard' = {}
    /\ UNCHANGED <<place, expanded, createMore, busy, calls, edits>>

\* Mutant: the tab changes under an override.
SwitchTabOnly(h) ==
    /\ context = "personal" /\ h # tab
    /\ Act
    /\ tab' = h /\ heard' = {}
    /\ UNCHANGED <<context, filter, expanded, draft, pop, createMore, busy, calls>>

\* The shell's tab changes; the effect on viewHorizon drops the override.
SwitchTab(h) ==
    /\ context = "personal" /\ h # tab
    /\ Act
    /\ tab' = h /\ heard' = {}
    /\ draft' = [draft EXCEPT !.override = None]
    /\ UNCHANGED <<context, filter, expanded, pop, createMore, busy, calls>>

\* The team page's member filter changes.
SwitchFilter(m) ==
    /\ context = "team" /\ m # filter
    /\ Act
    /\ filter' = m
    /\ UNCHANGED <<context, tab, expanded, draft, pop, createMore, busy, calls, heard>>

-------------------------------------------------------------------------------
(* Creating.                                                                *)

\* A call remembers what its handler closed over.
Send(from, payload) ==
    /\ busy' = TRUE
    /\ calls' = Append(calls, [from |-> from, body |-> payload,
                               text |-> draft.title, more |-> createMore])
    /\ UNCHANGED <<place, expanded, draft, pop, createMore, heard, edits>>

\* Mutant: the guard against a second create is the rendered button only.
EnterAgain ==
    /\ Bar /\ Len(calls) < 2 /\ Parse(draft.title).title # <<>>
    /\ IF HasFields(draft) THEN Send("draft", DraftPayload(draft))
                           ELSE Send("fast", FastPayload(draft))

\* Enter on the bar: createFromDraft or fastCreate.
Enter ==
    /\ Bar /\ ~busy /\ Parse(draft.title).title # <<>>
    /\ IF HasFields(draft) THEN Send("draft", DraftPayload(draft))
                           ELSE Send("fast", FastPayload(draft))

\* Cmd+Enter, Enter in the title without a popover, and the Create button.  The
\* title is taken as it is: words that look like tokens stay in it.
Create ==
    /\ Card /\ ~busy /\ draft.title # <<>>
    /\ Send("card", Payload(draft))

\* Enter on the quick-add row: a name that resolves, else the group's member; nothing
\* stops a second one.
Submit ==
    /\ Quick /\ Len(calls) < 2
    /\ Parse(draft.title).title # <<>>
    /\ calls' = Append(calls, [from |-> "quick",
                               body |-> Payload(Merged(draft, filter)),
                               text |-> draft.title, more |-> FALSE])
    /\ UNCHANGED <<place, expanded, draft, pop, createMore, busy, heard, edits>>

Settle(i) ==
    /\ calls' = SubSeq(calls, 1, i - 1) \o SubSeq(calls, i + 1, Len(calls))
    /\ UNCHANGED <<place, createMore, edits>>

\* The fast path clears the title, the other two the draft; Create more keeps
\* the pills.
Created(i) ==
    /\ Composer
    /\ Settle(i) /\ busy' = FALSE
    /\ CASE calls[i].from = "fast" ->
              /\ draft' = [draft EXCEPT !.title = <<>>]
              /\ UNCHANGED <<expanded, pop, heard>>
         [] calls[i].from = "draft" ->
              /\ draft' = Empty /\ pop' = None /\ heard' = {}
              /\ UNCHANGED expanded
         [] calls[i].from = "card" /\ calls[i].more ->
              /\ draft' = [draft EXCEPT !.title = <<>>, !.tags = {}, !.notes = FALSE]
              /\ pop' = None
              /\ UNCHANGED <<expanded, heard>>
         [] OTHER ->
              /\ draft' = Empty /\ pop' = None /\ heard' = {} /\ expanded' = FALSE

CreateFailed(i) ==
    /\ Composer
    /\ Settle(i) /\ busy' = FALSE
    /\ UNCHANGED <<expanded, draft, pop, heard>>

\* Mutant: the answer clears the row whatever is in it.
QuickCleared(i, ok) ==
    /\ Quick
    /\ Settle(i)
    /\ draft' = [draft EXCEPT !.title = IF ok THEN <<>> ELSE @]
    /\ UNCHANGED <<expanded, pop, busy, heard>>

\* The row is cleared if it still shows what was sent.
QuickAnswer(i, ok) ==
    /\ Quick
    /\ Settle(i)
    /\ draft' = [draft EXCEPT !.title = IF ok /\ @ = calls[i].text THEN <<>> ELSE @]
    /\ UNCHANGED <<expanded, pop, busy, heard>>

User ==
    \/ \E t \in Texts : Type(t)
    \/ \E w \in Legend : Insert(w)
    \/ TypeNotes
    \/ \E name \in Pill : TogPop(name)
    \/ \E m \in Member \cup {None} : ChooseAssignee(m) \/ SwitchFilter(m)
    \/ \E d \in Date \cup {None} : ChooseDue(d)
    \/ \E p \in {"high", None} : ChoosePriority(p)
    \/ DontRepeat
    \/ \E f \in Freq : ChooseFreq(f)
    \/ \E n \in {1, 2} : SetInterval(n)
    \/ \E d \in Day : ToggleDay(d)
    \/ ToggleCreateMore
    \/ Expand \/ ClosePop \/ Collapse \/ Escape \/ ClickOutside \/ ClearDraft
    \/ \E h \in Horizon : SwitchTab(h)
    \/ Enter \/ Create \/ Submit

Answers ==
    \E i \in 1..Len(calls) :
        \/ Created(i) \/ CreateFailed(i)
        \/ \E ok \in BOOLEAN : QuickAnswer(i, ok)

Next == User \/ Answers

Spec == Init /\ [][Next]_vars

-------------------------------------------------------------------------------
(* Properties.                                                              *)

\* The composer has at most one create under way and is blocked exactly while
\* one is: two Enters in one tick do not create twice (the ref's comment), and a
\* failed create does not leave the bar dead.
OneCreate ==
    Composer => Len(calls) = IF busy THEN 1 ELSE 0

\* What the server accepts: a backlog task carries no date, recurrence or team,
\* a recurrence has its own horizon, a weekdays recurrence has weekdays, and a
\* personal or backlog task has no assignee.  The one body it refuses is the
\* quick-add row's with a weekly or monthly recurrence, which is daily all the same.
CallsFit ==
    \A i \in 1..Len(calls) :
        LET b == calls[i].body
        IN  /\ b.horizon = "backlog" <=> context = "backlog"
            /\ b.horizon = "backlog" => b.due = None /\ b.recurrence = None /\ ~b.team
            /\ b.recurrence # None =>
                 /\ \/ b.horizon = RecurHorizon[b.recurrence.freq]
                    \/ Quick /\ b.horizon = "daily"
                 /\ b.recurrence.freq = "weekdays" <=> b.recurrence.days # {}
            /\ b.assignee # None => b.team

\* Enter on the bar sends what expanding it and creating from the card would,
\* as long as the page has no member filter: the fast path drops nothing of a
\* draft, and both paths merge typed words and draft in the same direction.
EnterMatchesExpand ==
    (Bar /\ filter = None) => EnterPayload(draft) = CardPayload(draft)

\* The horizon override of a draft was typed under the tab that is active: one
\* from another tab cannot steer a create away from the badge.
OverrideIsOfThisTab ==
    draft.override # None =>
        \E w \in heard : \/ w.kind = "horizon" /\ w.val = draft.override
                         \/ w.kind = "recur" /\ RecurHorizon[w.val] = draft.override

\* The quick-add row never loses words typed while a create was under way.
QuickTextSurvives ==
    [][(Quick /\ Len(calls') < Len(calls)) =>
         (draft'.title = draft.title \/ \E i \in 1..Len(calls) :
                                          calls[i].text = draft.title)]_vars

===============================================================================
