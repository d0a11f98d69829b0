---------------------------- MODULE ComposerProofs ----------------------------
(***************************************************************************)
(* Theorems about Composer, for any members, names, texts, dates, weekdays   *)
(* and number of edits.                                                      *)
(***************************************************************************)
EXTENDS Composer, FiniteSetTheorems, SequenceTheorems, TLAPS

-------------------------------------------------------------------------------
(* Sequences of calls: what they hold does not matter here.                  *)

IsSeq(s) == \E S : s \in Seq(S)

LEMMA AppendOne ==
    ASSUME NEW s, NEW e, IsSeq(s)
    PROVE  IsSeq(Append(s, e)) /\ Len(Append(s, e)) = Len(s) + 1 /\ Len(s) \in Nat
<1>1. PICK S : s \in Seq(S)
  BY DEF IsSeq
<1>2. s \in Seq(S \cup {e}) /\ e \in S \cup {e}
  BY <1>1
<1>3. Append(s, e) \in Seq(S \cup {e}) /\ Len(Append(s, e)) = Len(s) + 1 /\ Len(s) \in Nat
  BY <1>2
<1>4. QED
  BY <1>3 DEF IsSeq

LEMMA RemoveOne ==
    ASSUME NEW s, IsSeq(s), NEW i \in 1..Len(s)
    PROVE  LET r == SubSeq(s, 1, i - 1) \o SubSeq(s, i + 1, Len(s))
           IN  IsSeq(r) /\ Len(r) = Len(s) - 1 /\ Len(s) \in Nat
<1>1. PICK S : s \in Seq(S)
  BY DEF IsSeq
<1>2. Len(s) \in Nat /\ \A j \in 1..Len(s) : s[j] \in S
  BY <1>1, LenProperties, ElementOfSeq
<1>3. SubSeq(s, 1, i - 1) \in Seq(S) /\ Len(SubSeq(s, 1, i - 1)) = i - 1
  <2>1. 1 \in Int /\ i - 1 \in Int /\ \A j \in 1..(i - 1) : s[j] \in S
    BY <1>2
  <2>2. /\ SubSeq(s, 1, i - 1) \in Seq(S)
        /\ Len(SubSeq(s, 1, i - 1)) = IF 1 <= i - 1 THEN (i - 1) - 1 + 1 ELSE 0
    BY <2>1, SubSeqProperties
  <2>3. QED
    BY <2>2, <1>2
<1>4. /\ SubSeq(s, i + 1, Len(s)) \in Seq(S)
      /\ Len(SubSeq(s, i + 1, Len(s))) = Len(s) - i
  <2>1. i + 1 \in Int /\ Len(s) \in Int /\ \A j \in (i + 1)..Len(s) : s[j] \in S
    BY <1>2
  <2>2. /\ SubSeq(s, i + 1, Len(s)) \in Seq(S)
        /\ Len(SubSeq(s, i + 1, Len(s)))
             = IF i + 1 <= Len(s) THEN Len(s) - (i + 1) + 1 ELSE 0
    BY <2>1, SubSeqProperties
  <2>3. QED
    BY <2>2, <1>2
<1> DEFINE x == SubSeq(s, 1, i - 1)
           y == SubSeq(s, i + 1, Len(s))
           n == Len(s)
<1>5. x \o y \in Seq(S) /\ Len(x \o y) = Len(x) + Len(y)
  BY <1>3, <1>4, ConcatProperties
<1>6. Len(x) = i - 1 /\ Len(y) = n - i /\ n \in Nat /\ i \in Int
  BY <1>2, <1>3, <1>4
<1>7. Len(x) + Len(y) = n - 1
  <2> HIDE DEF x, y, n
  <2> QED
    BY <1>6
<1>8. Len(x \o y) = n - 1
  BY <1>5, <1>7
<1>9. IsSeq(x \o y)
  BY <1>5 DEF IsSeq
<1>10. QED
  BY <1>6, <1>8, <1>9

-------------------------------------------------------------------------------
(* The invariant: a draft has its fields, and calls are counted.             *)

IsDraft(d) ==
    /\ d = [title |-> d.title, notes |-> d.notes, assignee |-> d.assignee, due |-> d.due,
            priority |-> d.priority, repeat |-> d.repeat, tags |-> d.tags,
            override |-> d.override]
    /\ d.notes \in BOOLEAN

BarInv == IsDraft(draft) /\ busy \in BOOLEAN /\ IsSeq(calls) /\ OneCreate

\* Taking in the tokens of a title leaves a draft a draft.
LEMMA MergedIsDraft ==
    ASSUME NEW d, IsDraft(d), NEW m
    PROVE  IsDraft(Merged(d, m))
<1> DEFINE x == Merged(d, m)
           Names == {"title", "notes", "assignee", "due", "priority", "repeat", "tags",
                     "override"}
<1>1. DOMAIN d = Names /\ d = [k \in Names |-> d[k]]
  BY DEF IsDraft
<1>2. DOMAIN x = DOMAIN d /\ x = [k \in DOMAIN x |-> x[k]] /\ x.notes = d.notes
  BY <1>1 DEF Merged
<1> HIDE DEF x
<1>3. IsDraft(x)
  BY <1>1, <1>2 DEF IsDraft
<1>4. QED
  BY <1>3 DEF x

\* What a draft becomes depends on its override on a planning tab only.
LEMMA MergedSame ==
    ASSUME NEW d, IsDraft(d), NEW e, IsDraft(e), NEW m,
           e = [d EXCEPT !.override = e.override],
           context = "personal" => e.override = d.override
    PROVE  Merged(e, m) = Merged(d, m)
<1>1. CASE context = "personal"
  <2>1. [d EXCEPT !.override = d.override] = d
    BY DEF IsDraft
  <2>2. e = d
    BY <1>1, <2>1
  <2>3. QED
    BY <2>2
<1>2. CASE context # "personal"
  <2> DEFINE p == Parse(d.title)
  <2>1. /\ e.title = d.title /\ e.assignee = d.assignee /\ e.due = d.due
        /\ e.priority = d.priority /\ e.repeat = d.repeat /\ e.tags = d.tags
    BY DEF IsDraft
  <2> HIDE DEF p
  <2> DEFINE With(x) == [x EXCEPT !.title = p.title,
                               !.assignee = Over(Over(Resolve(p.assignee), d.assignee), m),
                               !.priority = Over(p.priority, d.priority),
                               !.due = Over(p.due, d.due),
                               !.repeat = Over(p.repeat, d.repeat),
                               !.tags = d.tags \cup p.tags,
                               !.override = None]
  <2>2. Merged(d, m) = With(d) /\ Merged(e, m) = With(e)
    BY <1>2, <2>1 DEF Merged, p
  <2>3. With([d EXCEPT !.override = e.override]) = With(d)
    BY DEF IsDraft
  <2>4. QED
    BY <2>2, <2>3
<1>3. QED
  BY <1>1, <1>2

\* Drafts are compared field by field.
LEMMA DraftsEqual ==
    ASSUME NEW d, IsDraft(d), NEW e, IsDraft(e),
           d.title = e.title, d.notes = e.notes, d.assignee = e.assignee, d.due = e.due,
           d.priority = e.priority, d.repeat = e.repeat, d.tags = e.tags,
           d.override = e.override
    PROVE  d = e
  BY DEF IsDraft

LEMMA TitleSet ==
    ASSUME NEW d, IsDraft(d), NEW v, NEW e, e = [d EXCEPT !.title = v]
    PROVE  /\ IsDraft(e) /\ e.title = v /\ e.notes = d.notes
           /\ e.assignee = d.assignee /\ e.due = d.due /\ e.priority = d.priority
           /\ e.repeat = d.repeat /\ e.tags = d.tags /\ e.override = d.override
<1>1. PICK t, n, a, u, p, r, g, o :
        /\ d = [title |-> t, notes |-> n, assignee |-> a, due |-> u, priority |-> p,
                repeat |-> r, tags |-> g, override |-> o]
        /\ n \in BOOLEAN
  BY DEF IsDraft
<1>2. QED
  BY <1>1 DEF IsDraft

LEMMA OverrideSet ==
    ASSUME NEW d, IsDraft(d), NEW v, NEW e, e = [d EXCEPT !.override = v]
    PROVE  /\ IsDraft(e) /\ e.title = d.title /\ e.notes = d.notes
           /\ e.assignee = d.assignee /\ e.due = d.due /\ e.priority = d.priority
           /\ e.repeat = d.repeat /\ e.tags = d.tags /\ e.override = v
<1>1. PICK t, n, a, u, p, r, g, o :
        /\ d = [title |-> t, notes |-> n, assignee |-> a, due |-> u, priority |-> p,
                repeat |-> r, tags |-> g, override |-> o]
        /\ n \in BOOLEAN
  BY DEF IsDraft
<1>2. QED
  BY <1>1 DEF IsDraft

LEMMA EmptyIsDraft == IsDraft(Empty)
  BY DEF IsDraft, Empty

\* The actions on the draft send nothing.
LEMMA EditKeeps ==
    ASSUME BarInv, User, ~Enter, ~Create, ~Submit
    PROVE  BarInv' /\ calls' = calls
<1>1. busy' = busy /\ calls' = calls /\ context' = context
  BY DEF User, Type, Insert, TypeNotes, TogPop, ChooseAssignee, ChooseDue, ChoosePriority,
         DontRepeat, Choose, ChooseFreq, SetInterval, ToggleDay, ToggleCreateMore, Expand,
         ClosePop, Collapse, Escape, ClickOutside, ClearDraft, SwitchTab, SwitchFilter,
         Edit, Act, place
<1>2. IsDraft(draft')
  <2>1. CASE \/ \E t \in Texts : Type(t)
             \/ \E w \in Legend : Insert(w)
             \/ TypeNotes
    BY <2>1 DEF BarInv, IsDraft, Type, Insert, TypeNotes, Edit
  <2>2. CASE \/ \E m \in Member \cup {None} : ChooseAssignee(m)
             \/ \E d \in Date \cup {None} : ChooseDue(d)
             \/ \E p \in {"high", None} : ChoosePriority(p)
             \/ DontRepeat
    BY <2>2 DEF BarInv, IsDraft, ChooseAssignee, ChooseDue, ChoosePriority, DontRepeat, Choose, Edit
  <2>3. CASE \/ \E f \in Freq : ChooseFreq(f)
             \/ \E n \in {1, 2} : SetInterval(n)
             \/ \E d \in Day : ToggleDay(d)
    BY <2>3 DEF BarInv, IsDraft, ChooseFreq, SetInterval, ToggleDay, Edit
  <2>4. CASE Expand
    BY <2>4, MergedIsDraft DEF BarInv, Expand
  <2>5. CASE ClearDraft
    BY <2>5, EmptyIsDraft DEF ClearDraft
  <2>6. CASE \E h \in Horizon : SwitchTab(h)
    BY <2>6 DEF BarInv, IsDraft, SwitchTab
  <2>7. CASE \/ \E name \in Pill : TogPop(name)
             \/ \E m \in Member \cup {None} : SwitchFilter(m)
             \/ ToggleCreateMore \/ ClosePop \/ Collapse \/ Escape \/ ClickOutside
    BY <2>7 DEF BarInv, TogPop, SwitchFilter, ToggleCreateMore, ClosePop, Collapse, Escape,
                ClickOutside
  <2>8. QED
    BY <2>1, <2>2, <2>3, <2>4, <2>5, <2>6, <2>7 DEF User
<1>3. QED
  BY <1>1, <1>2 DEF BarInv, OneCreate, Composer, Quick

\* A create is sent only when none is under way; the quick-add row has no such
\* guard.
LEMMA SendKeeps ==
    ASSUME BarInv, Enter \/ Create \/ Submit
    PROVE  BarInv' /\ Len(calls') = Len(calls) + 1 /\ Len(calls) \in Nat
<1>1. ASSUME NEW from, NEW payload, Composer, ~busy, Send(from, payload)
      PROVE  BarInv' /\ Len(calls') = Len(calls) + 1 /\ Len(calls) \in Nat
  <2>1. /\ busy' = TRUE /\ context' = context /\ draft' = draft
        /\ Len(calls) = 0 /\ IsSeq(calls') /\ Len(calls') = Len(calls) + 1
    BY <1>1, AppendOne DEF Send, BarInv, OneCreate, place
  <2>2. QED
    BY <2>1 DEF BarInv, OneCreate, Composer, Quick
<1>2. CASE Enter
  BY <1>1, <1>2 DEF Enter, Bar
<1>3. CASE Create
  BY <1>1, <1>3 DEF Create, Card
<1>4. CASE Submit
  <2>1. /\ IsSeq(calls') /\ Len(calls') = Len(calls) + 1 /\ Len(calls) \in Nat
        /\ context' = context /\ busy' = busy /\ draft' = draft /\ context = "quick"
    BY <1>4, AppendOne DEF Submit, BarInv, Quick, place
  <2>2. QED
    BY <2>1 DEF BarInv, OneCreate, Composer, Quick
<1>5. QED
  BY <1>2, <1>3, <1>4

\* An answer takes its call away.
LEMMA AnswerKeeps ==
    ASSUME BarInv, NEW i \in 1..Len(calls),
           Created(i) \/ CreateFailed(i) \/ \E ok \in BOOLEAN : QuickAnswer(i, ok)
    PROVE  BarInv'
<1>1. Settle(i)
  BY DEF Created, CreateFailed, QuickAnswer
<1>2. /\ IsSeq(calls') /\ Len(calls') = Len(calls) - 1 /\ Len(calls) \in Nat
      /\ context' = context
  BY <1>1, RemoveOne DEF Settle, BarInv, place
<1>3. IsDraft(draft')
  <2>1. CASE Created(i)
    BY <2>1, EmptyIsDraft DEF Created, BarInv, IsDraft
  <2>2. CASE CreateFailed(i)
    BY <2>2 DEF CreateFailed, BarInv
  <2>3. CASE \E ok \in BOOLEAN : QuickAnswer(i, ok)
    BY <2>3 DEF QuickAnswer, BarInv, IsDraft
  <2>4. QED
    BY <2>1, <2>2, <2>3
<1>4. CASE Created(i) \/ CreateFailed(i)
  <2>1. busy' = FALSE /\ Composer
    BY <1>4 DEF Created, CreateFailed
  <2>2. Len(calls') = 0
    BY <1>2, <2>1 DEF BarInv, OneCreate
  <2>3. QED
    BY <1>2, <1>3, <2>1, <2>2 DEF BarInv, OneCreate
<1>5. CASE \E ok \in BOOLEAN : QuickAnswer(i, ok)
  BY <1>2, <1>3, <1>5 DEF QuickAnswer, BarInv, OneCreate, Composer, Quick
<1>6. QED
  BY <1>4, <1>5

LEMMA Invariance == Spec => []BarInv
<1>1. Init => BarInv
  <2> SUFFICES ASSUME Init PROVE BarInv
    OBVIOUS
  <2>1. IsSeq(calls) /\ Len(calls) = 0
    BY EmptySeq DEF Init, IsSeq
  <2>2. IsDraft(draft) /\ busy = FALSE
    BY EmptyIsDraft DEF Init
  <2>3. OneCreate
    BY <2>1, <2>2 DEF OneCreate
  <2>4. QED
    BY <2>1, <2>2, <2>3 DEF BarInv
<1>2. BarInv /\ [Next]_vars => BarInv'
  <2> SUFFICES ASSUME BarInv, [Next]_vars PROVE BarInv'
    OBVIOUS
  <2>1. CASE User
    BY <2>1, EditKeeps, SendKeeps
  <2>2. CASE Answers
    BY <2>2, AnswerKeeps DEF Answers
  <2>3. CASE UNCHANGED vars
    BY <2>3 DEF BarInv, OneCreate, Composer, Quick, vars, place
  <2>4. QED
    BY <2>1, <2>2, <2>3 DEF Next
<1>3. QED
  BY <1>1, <1>2, PTL DEF Spec

-------------------------------------------------------------------------------
(* The theorems.                                                             *)

\* The composer never has two creates under way, and is blocked exactly while it
\* has one (TaskComposer.tsx:523-566, inFlightRef).
THEOREM CreatesOnce == Spec => []OneCreate
<1>1. BarInv => OneCreate
  BY DEF BarInv
<1>2. QED
  BY <1>1, Invariance, PTL

\* Words typed into the quick-add row while a create is under way stay, however
\* many creates are and in whatever order they are answered (QuickAdd.tsx:82-86).
THEOREM QuickTextStays == Spec => QuickTextSurvives
<1>1. ASSUME BarInv, [Next]_vars, Quick, Len(calls') < Len(calls)
      PROVE  draft'.title = draft.title \/ \E i \in 1..Len(calls) : calls[i].text = draft.title
  <2>1. CASE User
    <3>1. calls' = calls \/ Len(calls') = Len(calls) + 1
      BY <1>1, <2>1, EditKeeps, SendKeeps
    <3>2. Len(calls) \in Nat
      BY <1>1 DEF BarInv, IsSeq
    <3>3. QED
      BY <1>1, <3>1, <3>2
  <2>2. CASE Answers
    <3>1. PICK i \in 1..Len(calls), ok \in BOOLEAN : QuickAnswer(i, ok)
      BY <1>1, <2>2 DEF Answers, Created, CreateFailed, Composer
    <3>2. draft' = [draft EXCEPT !.title = IF ok /\ draft.title = calls[i].text THEN <<>>
                                           ELSE draft.title]
      BY <3>1 DEF QuickAnswer
    <3>3. QED
      BY <1>1, <3>2 DEF BarInv, IsDraft
  <2>3. CASE UNCHANGED vars
    BY <1>1, <2>3 DEF vars, BarInv, IsSeq
  <2>4. QED
    BY <1>1, <2>1, <2>2, <2>3 DEF Next
<1>2. QED
  BY <1>1, Invariance, PTL DEF Spec, QuickTextSurvives

\* Without a member filter, Enter on the bar sends what expanding the bar and
\* creating from the card would, for every draft the bar can hold: the fast path
\* is taken only by drafts it drops nothing of (TaskComposer.tsx:442-463, 674-684).
THEOREM EnterIsExpand == Spec => []EnterMatchesExpand
<1>1. BarInv => EnterMatchesExpand
  <2> SUFFICES ASSUME BarInv, Bar, filter = None
               PROVE  EnterPayload(draft) = CardPayload(draft)
    BY DEF EnterMatchesExpand
  <2>1. CASE HasFields(draft)
    BY <2>1 DEF EnterPayload, CardPayload, DraftPayload
  <2>2. CASE ~HasFields(draft)
    <3>0. PICK fast : fast = [Empty EXCEPT !.title = draft.title]
      OBVIOUS
    <3>1. /\ Empty.notes = FALSE /\ Empty.assignee = None /\ Empty.due = None
          /\ Empty.priority = None /\ Empty.repeat = None /\ Empty.tags = {}
          /\ Empty.override = None
      BY DEF Empty
    <3>2. /\ IsDraft(fast) /\ fast.title = draft.title /\ fast.notes = FALSE
          /\ fast.assignee = None /\ fast.due = None /\ fast.priority = None
          /\ fast.repeat = None /\ fast.tags = {} /\ fast.override = None
      BY <3>0, <3>1, EmptyIsDraft, TitleSet
    <3>3. /\ draft.notes = FALSE /\ draft.assignee = None /\ draft.due = None
          /\ draft.priority = None /\ draft.repeat = None /\ draft.tags = {}
          /\ context = "personal" => draft.override = None
      BY <2>2 DEF BarInv, IsDraft, HasFields
    <3>4. IsDraft(draft)
      BY DEF BarInv
    <3>5. fast = [draft EXCEPT !.override = fast.override]
      <4>0. PICK bare : bare = [draft EXCEPT !.override = fast.override]
        OBVIOUS
      <4>1. /\ IsDraft(bare) /\ bare.title = draft.title /\ bare.notes = draft.notes
            /\ bare.assignee = draft.assignee /\ bare.due = draft.due
            /\ bare.priority = draft.priority /\ bare.repeat = draft.repeat
            /\ bare.tags = draft.tags /\ bare.override = fast.override
        BY <3>4, <4>0, OverrideSet
      <4>2. QED
        BY <4>0, <4>1, <3>2, <3>3, DraftsEqual
    <3>6. Merged(fast, filter) = Merged(draft, filter)
      BY <3>2, <3>3, <3>4, <3>5, MergedSame
    <3>7. QED
      BY <2>2, <3>0, <3>6 DEF EnterPayload, CardPayload, FastPayload
  <2>3. QED
    BY <2>1, <2>2
<1>2. QED
  BY <1>1, Invariance, PTL

-------------------------------------------------------------------------------
(* What a text holds.                                                        *)

Before(set, i) == {j \in set : j < i}
Places(set) == set \subseteq Int /\ IsFiniteSet(set)

LEMMA BeforeGrows ==
    ASSUME NEW set, Places(set), NEW i \in set
    PROVE  /\ Cardinality(Before(set, i)) \in Nat /\ Cardinality(set) \in Nat
           /\ Cardinality(Before(set, i)) < Cardinality(set)
           /\ \A j \in set : i < j => Cardinality(Before(set, i)) < Cardinality(Before(set, j))
<1>1. ASSUME NEW v \in set
      PROVE  /\ IsFiniteSet(Before(set, v)) /\ Cardinality(Before(set, v)) \in Nat
             /\ Cardinality(set) \in Nat /\ Cardinality(Before(set, v)) < Cardinality(set)
  <2>1. Before(set, v) \in SUBSET (set \ {v})
    BY DEF Before, Places
  <2>2. IsFiniteSet(set \ {v}) /\ Cardinality(set \ {v}) = Cardinality(set) - 1
    BY FS_RemoveElement DEF Places
  <2>3. IsFiniteSet(Before(set, v)) /\ Cardinality(Before(set, v)) <= Cardinality(set) - 1
    BY <2>1, <2>2, FS_Subset
  <2>4. QED
    BY <2>2, <2>3, FS_CardinalityType DEF Places
<1>2. ASSUME NEW j \in set, i < j PROVE Cardinality(Before(set, i)) < Cardinality(Before(set, j))
  <2>1. \A v \in set : v < i => v < j
    BY <1>2 DEF Places
  <2>2. Before(set, i) \in SUBSET Before(set, j)
    BY <2>1 DEF Before
  <2>3. i \in Before(set, j) /\ i \notin Before(set, i)
    BY <1>2 DEF Before, Places
  <2>4. Cardinality(Before(set, i)) # Cardinality(Before(set, j))
    BY <1>1, <2>2, <2>3, FS_Subset
  <2>5. Cardinality(Before(set, i)) <= Cardinality(Before(set, j))
    BY <1>1, <2>2, FS_Subset
  <2>6. QED
    BY <1>1, <2>4, <2>5
<1>3. QED
  BY <1>1, <1>2

\* Counting what is before a place numbers the places: no number is left out,
\* because an injection between finite sets of one size is onto.
LEMMA NthIs ==
    ASSUME NEW set, Places(set), NEW k \in 1..Cardinality(set)
    PROVE  Nth(set, k) \in set /\ Cardinality(Before(set, Nth(set, k))) = k - 1
<1> DEFINE n == Cardinality(set)
           f == [i \in set |-> Cardinality(Before(set, i))]
<1>1. n \in Nat
  BY FS_CardinalityType DEF Places
<1>2. f \in [set -> 0..(n - 1)]
  <2>1. ASSUME NEW i \in set PROVE Cardinality(Before(set, i)) \in 0..(n - 1)
    BY <1>1, BeforeGrows
  <2>2. QED
    BY <2>1
<1>3. \A i, j \in set : f[i] = f[j] => i = j
  <2>1. ASSUME NEW i \in set, NEW j \in set, i < j PROVE f[i] # f[j]
    <3>1. /\ Cardinality(Before(set, i)) \in Int /\ Cardinality(Before(set, j)) \in Int
          /\ Cardinality(Before(set, i)) < Cardinality(Before(set, j))
      BY <2>1, BeforeGrows
    <3>2. QED
      BY <3>1
  <2>2. \A i, j \in set : i = j \/ i < j \/ j < i
    BY DEF Places
  <2> HIDE DEF f
  <2>3. QED
    BY <2>1, <2>2
<1>4. IsFiniteSet(0..(n - 1)) /\ Cardinality(0..(n - 1)) = n
  <2> HIDE DEF n
  <2>1. 0 \in Int /\ n - 1 \in Int
    BY <1>1
  <2>2. IsFiniteSet(0..(n - 1)) /\ Cardinality(0..(n - 1)) = IF 0 > n - 1 THEN 0 ELSE n - 1 - 0 + 1
    BY <2>1, FS_Interval
  <2>3. QED
    BY <1>1, <2>2
<1>5. f \in Injection(set, 0..(n - 1))
  <2> HIDE DEF f
  <2>1. QED
    BY <1>2, <1>3 DEF Injection, IsInjective
<1>6. f \in Surjection(set, 0..(n - 1))
  BY <1>4, <1>5, FS_Injection
<1>7. \E i \in set : f[i] = k - 1
  <2> HIDE DEF f
  <2>1. k - 1 \in 0..(n - 1)
    BY <1>1
  <2>2. QED
    BY <1>6, <2>1 DEF Surjection
<1>8. \E i \in set : Cardinality(Before(set, i)) = k - 1
  BY <1>7
<1>9. QED
  BY <1>8 DEF Nth, Before

\* Some place of a text that has one is the last.
LEMMA LastPlace ==
    ASSUME NEW set, Places(set), set # {}
    PROVE  \E i \in set : \A j \in set : j <= i
<1>1. Cardinality(set) \in Nat /\ Cardinality(set) # 0
  BY FS_CardinalityType, FS_EmptySet DEF Places
<1> DEFINE i == Nth(set, Cardinality(set))
<1>2. i \in set /\ Cardinality(Before(set, i)) = Cardinality(set) - 1
  BY <1>1, NthIs
<1> HIDE DEF i
<1>3. ASSUME NEW j \in set PROVE j <= i
  <2>1. /\ Cardinality(Before(set, j)) \in Nat /\ Cardinality(Before(set, j)) < Cardinality(set)
        /\ i < j => Cardinality(Before(set, i)) < Cardinality(Before(set, j))
    BY <1>2, BeforeGrows
  <2>2. ~(i < j)
    BY <1>1, <1>2, <2>1
  <2>3. i \in Int /\ j \in Int
    BY <1>2 DEF Places
  <2>4. QED
    BY <2>2, <2>3
<1>4. QED
  BY <1>2, <1>3

\* The places of some words of a text.
LEMMA TextPlaces ==
    ASSUME NEW text \in Seq(Vocabulary), NEW kind
    PROVE  Places({i \in 1..Len(text) : text[i].kind = kind})
<1>1. Len(text) \in Nat /\ IsFiniteSet(1..Len(text))
  BY FS_Interval
<1>2. {i \in 1..Len(text) : text[i].kind = kind} \in SUBSET (1..Len(text))
  OBVIOUS
<1>3. QED
  BY <1>1, <1>2, FS_Subset DEF Places

LEMMA PlainIsText ==
    ASSUME NEW text \in Seq(Vocabulary)
    PROVE  Plain(text) \in Seq(Vocabulary)
<1> DEFINE places == {i \in 1..Len(text) : text[i].kind = "plain"}
           n == Cardinality(places)
<1>1. Places(places) /\ places \subseteq 1..Len(text)
  BY TextPlaces
<1>2. Plain(text) = [k \in 1..n |-> text[Nth(places, k)]]
  BY DEF Plain
<1> HIDE DEF places
<1>3. n \in Nat
  BY <1>1, FS_CardinalityType DEF Places
<1>4. \A k \in 1..n : text[Nth(places, k)] \in Vocabulary
  <2>1. \A k \in 1..n : Nth(places, k) \in 1..Len(text)
    BY <1>1, NthIs
  <2>2. QED
    BY <2>1
<1> HIDE DEF n
<1>5. QED
  BY <1>2, <1>3, <1>4

LEMMA LastIs ==
    ASSUME NEW text \in Seq(Vocabulary), NEW kind
    PROVE  \/ Last(text, kind) = None
           \/ \E i \in 1..Len(text) : text[i].kind = kind /\ Last(text, kind) = text[i].val
<1> DEFINE hits == {i \in 1..Len(text) : text[i].kind = kind}
           i == CHOOSE i \in hits : \A j \in hits : j <= i
<1>1. Last(text, kind) = IF hits = {} THEN None ELSE text[i].val
  BY DEF Last
<1>2. CASE hits # {}
  <2>1. Places(hits)
    BY TextPlaces
  <2>2. i \in hits
    <3> HIDE DEF hits
    <3>1. QED
      BY <1>2, <2>1, LastPlace
  <2>3. QED
    BY <1>1, <1>2, <2>2
<1>3. QED
  BY <1>1, <1>2

-------------------------------------------------------------------------------
(* What drafts and calls hold.                                               *)

\* A word that stands for a horizon.
Stands(w, h) ==
    \/ w.kind = "horizon" /\ w.val = h
    \/ w.kind = "recur" /\ RecurHorizon[w.val] = h

LEMMA RecurHorizonIs == \A f \in Freq : RecurHorizon[f] \in Horizon
  BY DEF RecurHorizon, Freq, Horizon

LEMMA ParseIs ==
    ASSUME NEW text \in Seq(Vocabulary)
    PROVE  /\ Parse(text).title \in Seq(Vocabulary)
           /\ Parse(text).repeat \in Repeat \cup {None}
           /\ Parse(text).horizon \in Horizon \cup {None}
           /\ Parse(text).horizon # None =>
                 \E i \in 1..Len(text) : Stands(text[i], Parse(text).horizon)
<1> DEFINE freq == Last(text, "recur")
           token == Last(text, "horizon")
<1>1. /\ Parse(text).title = Plain(text)
      /\ Parse(text).repeat = IF freq = None THEN None
                              ELSE [freq |-> freq, interval |-> 1, days |-> Workdays]
      /\ Parse(text).horizon = IF freq # None THEN RecurHorizon[freq] ELSE token
  BY DEF Parse
<1>2. \A i \in 1..Len(text) : text[i] \in Vocabulary
  OBVIOUS
<1>3. freq = None \/ \E i \in 1..Len(text) : text[i].kind = "recur" /\ freq = text[i].val
  BY LastIs
<1>4. token = None \/ \E i \in 1..Len(text) : text[i].kind = "horizon" /\ token = text[i].val
  BY LastIs
<1> HIDE DEF freq, token
<1>5. freq \in Freq \cup {None} /\ token \in Horizon \cup {None}
  BY <1>2, <1>3, <1>4, BarAssumption DEF BarAssumption
<1>6. Parse(text).repeat \in Repeat \cup {None}
  BY <1>1, <1>5, BarAssumption DEF Repeat, BarAssumption
<1>7. Parse(text).horizon \in Horizon \cup {None}
  BY <1>1, <1>5, RecurHorizonIs
<1>8. Parse(text).horizon # None =>
         \E i \in 1..Len(text) : Stands(text[i], Parse(text).horizon)
  BY <1>1, <1>3, <1>4 DEF Stands
<1>9. QED
  BY <1>1, <1>6, <1>7, <1>8, PlainIsText

LEMMA MergedFields ==
    ASSUME NEW d, IsDraft(d), NEW m
    PROVE  /\ Merged(d, m).title = Parse(d.title).title
           /\ Merged(d, m).repeat = Over(Parse(d.title).repeat, d.repeat)
           /\ Merged(d, m).override = IF context = "personal"
                                      THEN Over(Parse(d.title).horizon, d.override) ELSE None
<1>1. PICK t, n, a, u, p, r, g, o :
        d = [title |-> t, notes |-> n, assignee |-> a, due |-> u, priority |-> p,
             repeat |-> r, tags |-> g, override |-> o]
  BY DEF IsDraft
<1> DEFINE w == Parse(d.title)
<1> HIDE DEF w
<1>2. Merged(d, m) = [d EXCEPT !.title = w.title,
                               !.assignee = Over(Over(Resolve(w.assignee), d.assignee), m),
                               !.priority = Over(w.priority, d.priority),
                               !.due = Over(w.due, d.due),
                               !.repeat = Over(w.repeat, d.repeat),
                               !.tags = d.tags \cup w.tags,
                               !.override = IF context = "personal"
                                            THEN Over(w.horizon, d.override) ELSE None]
  BY DEF Merged, w
<1>3. QED
  BY <1>1, <1>2 DEF w

\* The title is a text, a recurrence and an override are of the lists there are.
DraftFit(d) ==
    /\ d.title \in Seq(Vocabulary)
    /\ d.repeat \in Repeat \cup {None}
    /\ d.override \in Horizon \cup {None}

TabFit == context = "personal" => tab \in Horizon

LEMMA EmptyFit == DraftFit(Empty) /\ Empty.override = None
  BY EmptySeq DEF DraftFit, Empty

LEMMA MergedFit ==
    ASSUME NEW d, IsDraft(d), DraftFit(d), NEW m
    PROVE  /\ DraftFit(Merged(d, m))
           /\ Merged(d, m).override \notin {None, d.override} =>
                 \E i \in 1..Len(d.title) : Stands(d.title[i], Merged(d, m).override)
<1>1. d.title \in Seq(Vocabulary)
  BY DEF DraftFit
<1>2. DraftFit(Merged(d, m))
  BY <1>1, ParseIs, MergedFields DEF DraftFit, Over
<1>3. QED
  BY <1>1, <1>2, ParseIs, MergedFields DEF Over

\* What one call must be like for the server to accept it.
Fits(b) ==
    /\ b.horizon = "backlog" <=> context = "backlog"
    /\ b.horizon = "backlog" => b.due = None /\ b.recurrence = None /\ ~b.team
    /\ b.recurrence # None =>
         /\ \/ b.horizon = RecurHorizon[b.recurrence.freq]
            \/ Quick /\ b.horizon = "daily"
         /\ b.recurrence.freq = "weekdays" <=> b.recurrence.days # {}
    /\ b.assignee # None => b.team

LEMMA PayloadFits ==
    ASSUME NEW d, DraftFit(d), TabFit
    PROVE  Fits(Payload(d))
<1> DEFINE b == Payload(d)
<1>1. /\ b.horizon = IF context = "backlog" THEN "backlog" ELSE IF context = "quick" THEN "daily"
                     ELSE HorizonOf(d.repeat, d.override)
      /\ b.due = IF context = "backlog" THEN None ELSE d.due
      /\ b.recurrence = IF context = "backlog" THEN None ELSE Recurrence(d.repeat)
      /\ b.team = (context \in {"team", "quick"})
      /\ b.assignee = IF context \in {"team", "quick"} THEN d.assignee ELSE None
  BY DEF Payload, OnTeam
<1>2. HorizonOf(d.repeat, d.override) \in Horizon
  BY RecurHorizonIs DEF HorizonOf, DraftFit, TabFit, Over, Repeat, Horizon
<1>3. "backlog" \notin Horizon
  BY DEF Horizon
<1>4. ASSUME d.repeat # None
      PROVE  /\ HorizonOf(d.repeat, d.override) = RecurHorizon[Recurrence(d.repeat).freq]
             /\ Recurrence(d.repeat).freq = "weekdays" <=> Recurrence(d.repeat).days # {}
  BY <1>4, BarAssumption DEF HorizonOf, Recurrence, BarAssumption
<1>5. d.repeat = None => Recurrence(d.repeat) = None
  BY DEF Recurrence
<1> HIDE DEF b
<1>6. QED
  BY <1>1, <1>2, <1>3, <1>4, <1>5 DEF b, Fits, Quick

FitInv == BarInv /\ DraftFit(draft) /\ TabFit /\ CallsFit /\ OverrideIsOfThisTab

\* Where the override stays or goes, and no word heard is forgotten with it there.
LEMMA OverrideStays ==
    ASSUME OverrideIsOfThisTab,
           \/ draft'.override = None
           \/ draft'.override = draft.override /\ heard' = heard
    PROVE  OverrideIsOfThisTab'
  BY DEF OverrideIsOfThisTab

\* The actions on the draft that send nothing.
LEMMA EditFits ==
    ASSUME FitInv, User, ~Enter, ~Create, ~Submit
    PROVE  DraftFit(draft') /\ OverrideIsOfThisTab' /\ TabFit' /\ context' = context
<1>1. PICK t, n, a, u, p, r, g, o :
        draft = [title |-> t, notes |-> n, assignee |-> a, due |-> u, priority |-> p,
                 repeat |-> r, tags |-> g, override |-> o]
  BY DEF FitInv, BarInv, IsDraft
<1>2. /\ t \in Seq(Vocabulary) /\ r \in Repeat \cup {None} /\ o \in Horizon \cup {None}
      /\ draft.override = o
  BY <1>1 DEF FitInv, DraftFit
<1>3. ASSUME UNCHANGED <<place, draft, heard>>
      PROVE  DraftFit(draft') /\ OverrideIsOfThisTab' /\ TabFit' /\ context' = context
  BY <1>3, OverrideStays DEF FitInv, TabFit, place
<1>4. ASSUME NEW d, Edit(d), UNCHANGED heard, DraftFit(d), d.override = o
      PROVE  DraftFit(draft') /\ OverrideIsOfThisTab' /\ TabFit' /\ context' = context
  <2>1. draft' = d /\ UNCHANGED place
    BY <1>4 DEF Edit
  <2>2. QED
    BY <1>2, <1>4, <2>1, OverrideStays DEF FitInv, TabFit, place
<1>5. ASSUME NEW x \in Texts, Type(x)
      PROVE  DraftFit(draft') /\ OverrideIsOfThisTab' /\ TabFit' /\ context' = context
  <2>1. DraftFit([draft EXCEPT !.title = x]) /\ [draft EXCEPT !.title = x].override = o
    BY <1>1, <1>2, BarAssumption DEF DraftFit, BarAssumption
  <2>2. QED
    BY <1>4, <1>5, <2>1 DEF Type
<1>6. ASSUME NEW w \in Legend, Insert(w)
      PROVE  DraftFit(draft') /\ OverrideIsOfThisTab' /\ TabFit' /\ context' = context
  <2>1. w \in Vocabulary
    BY DEF Vocabulary
  <2>2. Append(t, w) \in Seq(Vocabulary)
    BY <1>2, <2>1
  <2>3. DraftFit([draft EXCEPT !.title = Append(@, w)])
        /\ [draft EXCEPT !.title = Append(@, w)].override = o
    BY <1>1, <1>2, <2>2 DEF DraftFit
  <2>4. QED
    BY <1>4, <1>6, <2>3 DEF Insert
<1>7. CASE TypeNotes
  <2>1. DraftFit([draft EXCEPT !.notes = ~@]) /\ [draft EXCEPT !.notes = ~@].override = o
    BY <1>1, <1>2 DEF DraftFit
  <2>2. QED
    BY <1>4, <1>7, <2>1 DEF TypeNotes
<1>8. CASE \/ \E m \in Member \cup {None} : ChooseAssignee(m)
           \/ \E d \in Date \cup {None} : ChooseDue(d)
           \/ \E x \in {"high", None} : ChoosePriority(x)
  <2>1. ASSUME NEW x
        PROVE  /\ DraftFit([draft EXCEPT !.assignee = x]) /\ [draft EXCEPT !.assignee = x].override = o
               /\ DraftFit([draft EXCEPT !.due = x]) /\ [draft EXCEPT !.due = x].override = o
               /\ DraftFit([draft EXCEPT !.priority = x]) /\ [draft EXCEPT !.priority = x].override = o
    BY <1>1, <1>2 DEF DraftFit
  <2>2. QED
    BY <1>4, <1>8, <2>1 DEF ChooseAssignee, ChooseDue, ChoosePriority, Choose
<1>9. ASSUME NEW x \in Repeat \cup {None}
      PROVE  DraftFit([draft EXCEPT !.repeat = x]) /\ [draft EXCEPT !.repeat = x].override = o
  BY <1>1, <1>2 DEF DraftFit
<1>10. CASE DontRepeat
  BY <1>4, <1>9, <1>10 DEF DontRepeat, Choose
<1>11. ASSUME NEW f \in Freq, ChooseFreq(f)
       PROVE  DraftFit(draft') /\ OverrideIsOfThisTab' /\ TabFit' /\ context' = context
  <2> DEFINE x == IF draft.repeat = None
                  THEN [freq |-> f, interval |-> 1, days |-> Workdays]
                  ELSE [draft.repeat EXCEPT !.freq = f,
                                            !.days = IF @ = {} THEN Workdays ELSE @]
  <2>1. x \in Repeat
    BY <1>1, <1>2, BarAssumption DEF Repeat, BarAssumption
  <2>2. Edit([draft EXCEPT !.repeat = x]) /\ UNCHANGED heard
    BY <1>11 DEF ChooseFreq
  <2> HIDE DEF x
  <2>3. QED
    BY <1>4, <1>9, <2>1, <2>2
<1>12. ASSUME NEW i \in {1, 2}, SetInterval(i)
       PROVE  DraftFit(draft') /\ OverrideIsOfThisTab' /\ TabFit' /\ context' = context
  <2> DEFINE x == [r EXCEPT !.interval = i]
  <2>1. r # None
    BY <1>1, <1>12 DEF SetInterval
  <2>2. x \in Repeat
    BY <1>2, <2>1 DEF Repeat
  <2>3. Edit([draft EXCEPT !.repeat = x]) /\ UNCHANGED heard
    BY <1>1, <1>12 DEF SetInterval
  <2> HIDE DEF x
  <2>4. QED
    BY <1>4, <1>9, <2>2, <2>3
<1>13. ASSUME NEW day \in Day, ToggleDay(day)
       PROVE  DraftFit(draft') /\ OverrideIsOfThisTab' /\ TabFit' /\ context' = context
  <2> DEFINE x == [r EXCEPT !.days = IF day \in @ THEN @ \ {day} ELSE @ \cup {day}]
  <2>1. r # None
    BY <1>1, <1>13 DEF ToggleDay
  <2>2. x \in Repeat
    BY <1>2, <2>1 DEF Repeat
  <2>3. Edit([draft EXCEPT !.repeat = x]) /\ UNCHANGED heard
    BY <1>1, <1>13 DEF ToggleDay
  <2> HIDE DEF x
  <2>4. QED
    BY <1>4, <1>9, <2>2, <2>3
<1>14. CASE Expand
  <2>1. draft' = Merged(draft, filter) /\ UNCHANGED place
        /\ heard' = heard \cup {draft.title[i] : i \in 1..Len(draft.title)}
    BY <1>14 DEF Expand
  <2>2. /\ DraftFit(draft')
        /\ draft'.override \notin {None, draft.override} =>
              \E i \in 1..Len(draft.title) : Stands(draft.title[i], draft'.override)
    BY <2>1, MergedFit DEF FitInv, BarInv
  <2>3. OverrideIsOfThisTab'
    BY <2>1, <2>2 DEF FitInv, OverrideIsOfThisTab, Stands
  <2>4. QED
    BY <2>1, <2>2, <2>3 DEF FitInv, TabFit, place
<1>15. CASE ClearDraft
  <2>1. draft' = Empty /\ UNCHANGED place
    BY <1>15 DEF ClearDraft
  <2>2. OverrideIsOfThisTab'
    BY <2>1, EmptyFit, OverrideStays DEF FitInv
  <2>3. DraftFit(draft')
    BY <2>1, EmptyFit
  <2>4. QED
    BY <2>1, <2>2, <2>3 DEF FitInv, TabFit, place
<1>16. ASSUME NEW h \in Horizon, SwitchTab(h)
       PROVE  DraftFit(draft') /\ OverrideIsOfThisTab' /\ TabFit' /\ context' = context
  <2>1. draft' = [draft EXCEPT !.override = None] /\ tab' = h /\ context' = context
    BY <1>16 DEF SwitchTab
  <2>2. DraftFit(draft') /\ draft'.override = None
    BY <1>1, <1>2, <2>1 DEF DraftFit
  <2>3. OverrideIsOfThisTab'
    BY <2>2, OverrideStays DEF FitInv
  <2>4. QED
    BY <2>1, <2>2, <2>3 DEF TabFit
<1>17. CASE \/ \E name \in Pill : TogPop(name)
            \/ ToggleCreateMore \/ ClosePop \/ Collapse \/ Escape \/ ClickOutside
  BY <1>3, <1>17 DEF TogPop, ToggleCreateMore, ClosePop, Collapse, Escape, ClickOutside
<1>18. ASSUME NEW m, SwitchFilter(m)
       PROVE  DraftFit(draft') /\ OverrideIsOfThisTab' /\ TabFit' /\ context' = context
  BY <1>18, OverrideStays DEF SwitchFilter, FitInv, TabFit
<1>19. QED
  BY <1>5, <1>6, <1>7, <1>8, <1>10, <1>11, <1>12, <1>13, <1>14, <1>15, <1>16, <1>17, <1>18
     DEF User

LEMMA CallsStay ==
    ASSUME FitInv, UNCHANGED <<calls, context>>
    PROVE  CallsFit'
  BY DEF FitInv, CallsFit, Quick

LEMMA CallAdded ==
    ASSUME FitInv, NEW c, Fits(c.body), calls' = Append(calls, c), context' = context
    PROVE  CallsFit'
<1>1. IsSeq(calls)
  BY DEF FitInv, BarInv
<1>2. PICK set : calls \in Seq(set)
  BY <1>1 DEF IsSeq
<1>3. calls \in Seq(set \cup {c}) /\ c \in set \cup {c}
  BY <1>2
<1>4. Len(calls') = Len(calls) + 1 /\ Len(calls) \in Nat
  BY <1>3
<1>5. \A i \in 1..Len(calls') : calls'[i] = IF i = Len(calls) + 1 THEN c ELSE calls[i]
  BY <1>3, <1>4
<1>6. \A i \in 1..Len(calls) : Fits(calls[i].body)
  BY DEF FitInv, CallsFit, Fits
<1>7. \A i \in 1..Len(calls') : Fits(calls'[i].body)
  BY <1>4, <1>5, <1>6
<1>8. QED
  BY <1>7 DEF CallsFit, Fits, Quick

\* What is left of the calls was there before.
LEMMA CallTaken ==
    ASSUME FitInv, NEW i \in 1..Len(calls), Settle(i), context' = context
    PROVE  CallsFit'
<1> DEFINE n == Len(calls)
           x == SubSeq(calls, 1, i - 1)
           y == SubSeq(calls, i + 1, n)
<1>1. IsSeq(calls)
  BY DEF FitInv, BarInv
<1>2. PICK set : calls \in Seq(set)
  BY <1>1 DEF IsSeq
<1>3. n \in Nat /\ i \in Int /\ 1 <= i /\ i <= n /\ \A j \in 1..n : calls[j] \in set
  BY <1>2
<1>4. x \in Seq(set) /\ Len(x) = i - 1 /\ \A k \in 1..(i - 1) : x[k] = calls[k]
  <2>1. 1 \in Int /\ i - 1 \in Int /\ \A j \in 1..(i - 1) : calls[j] \in set
    BY <1>3
  <2>2. /\ x \in Seq(set)
        /\ Len(x) = IF 1 <= i - 1 THEN (i - 1) - 1 + 1 ELSE 0
        /\ \A k \in 1..((i - 1) - 1 + 1) : x[k] = calls[1 + k - 1]
    BY <2>1, SubSeqProperties
  <2> HIDE DEF x
  <2>3. QED
    BY <1>3, <2>2
<1>5. y \in Seq(set) /\ Len(y) = n - i /\ \A k \in 1..(n - i) : y[k] = calls[i + k]
  <2>1. i + 1 \in Int /\ n \in Int /\ \A j \in (i + 1)..n : calls[j] \in set
    BY <1>3
  <2>2. /\ y \in Seq(set)
        /\ Len(y) = IF i + 1 <= n THEN n - (i + 1) + 1 ELSE 0
        /\ \A k \in 1..(n - (i + 1) + 1) : y[k] = calls[(i + 1) + k - 1]
    BY <2>1, SubSeqProperties
  <2> HIDE DEF y, n
  <2>3. QED
    BY <1>3, <2>2
<1>6. calls' = x \o y
  BY DEF Settle
<1>7. \A j \in 1..n : Fits(calls[j].body)
  BY DEF FitInv, CallsFit, Fits
<1> HIDE DEF x, y, n
<1>8. /\ Len(x \o y) = Len(x) + Len(y)
      /\ \A k \in 1..(Len(x) + Len(y)) :
            (x \o y)[k] = IF k <= Len(x) THEN x[k] ELSE y[k - Len(x)]
  BY <1>4, <1>5, ConcatProperties
<1>9. \A k \in 1..Len(calls') : \E j \in 1..n : calls'[k] = calls[j]
  <2> SUFFICES ASSUME NEW k \in 1..Len(calls') PROVE \E j \in 1..n : calls'[k] = calls[j]
    OBVIOUS
  <2>1. k \in 1..(n - 1) /\ k \in Int
    BY <1>3, <1>4, <1>5, <1>6, <1>8
  <2>2. CASE k <= i - 1
    <3>1. calls'[k] = x[k] /\ k \in 1..(i - 1)
      BY <1>3, <1>4, <1>5, <1>6, <1>8, <2>1, <2>2
    <3>2. calls'[k] = calls[k] /\ k \in 1..n
      BY <1>3, <1>4, <2>1, <2>2, <3>1
    <3>3. QED
      BY <3>2
  <2>3. CASE ~(k <= i - 1)
    <3>1. calls'[k] = y[k - (i - 1)] /\ k - (i - 1) \in 1..(n - i)
      BY <1>3, <1>4, <1>5, <1>6, <1>8, <2>1, <2>3
    <3>2. calls'[k] = calls[i + (k - (i - 1))]
      BY <1>5, <3>1
    <3>3. i + (k - (i - 1)) \in 1..n
      BY <1>3, <2>1, <2>3
    <3>4. QED
      BY <3>2, <3>3
  <2>4. QED
    BY <2>2, <2>3
<1>10. \A k \in 1..Len(calls') : Fits(calls'[k].body)
  BY <1>7, <1>9
<1>11. QED
  BY <1>10 DEF CallsFit, Fits, Quick

\* The draft is sent as it is, or with the tokens of its title taken in.
LEMMA SendFits ==
    ASSUME FitInv, Enter \/ Create \/ Submit
    PROVE  CallsFit' /\ UNCHANGED <<place, draft, heard>>
<1>1. /\ IsDraft(draft) /\ DraftFit(draft) /\ TabFit
      /\ \A d : DraftFit(d) => Fits(Payload(d))
  BY PayloadFits DEF FitInv, BarInv
<1>2. Fits(Payload(draft)) /\ \A m : Fits(Payload(Merged(draft, m)))
  BY <1>1, MergedFit
<1>3. Fits(FastPayload(draft)) /\ Fits(DraftPayload(draft))
  <2> DEFINE fast == [Empty EXCEPT !.title = draft.title]
  <2>1. IsDraft(fast)
    BY EmptyIsDraft, TitleSet
  <2>2. fast.title = draft.title /\ fast.repeat = Empty.repeat /\ fast.override = Empty.override
    BY DEF Empty
  <2> HIDE DEF fast
  <2>3. DraftFit(fast)
    BY <1>1, <2>2, EmptyFit DEF DraftFit
  <2>4. DraftFit(Merged(fast, filter))
    BY <2>1, <2>3, MergedFit
  <2>5. QED
    BY <1>1, <1>2, <2>4 DEF FastPayload, DraftPayload, fast
<1>4. ASSUME NEW from, NEW payload, Fits(payload), Send(from, payload)
      PROVE  CallsFit' /\ UNCHANGED <<place, draft, heard>>
  <2> DEFINE c == [from |-> from, body |-> payload, text |-> draft.title, more |-> createMore]
  <2>1. calls' = Append(calls, c) /\ UNCHANGED <<place, draft, heard>>
    BY <1>4 DEF Send
  <2>2. c.body = payload
    OBVIOUS
  <2> HIDE DEF c
  <2>3. CallsFit'
    BY <1>4, <2>1, <2>2, CallAdded DEF place
  <2>4. QED
    BY <2>1, <2>3
<1>5. CASE Enter
  BY <1>3, <1>4, <1>5 DEF Enter
<1>6. CASE Create
  BY <1>2, <1>4, <1>6 DEF Create
<1>7. CASE Submit
  <2> DEFINE c == [from |-> "quick", body |-> Payload(Merged(draft, filter)),
                   text |-> draft.title, more |-> FALSE]
  <2>1. calls' = Append(calls, c) /\ UNCHANGED <<place, draft, heard>>
    BY <1>7 DEF Submit
  <2>2. c.body = Payload(Merged(draft, filter))
    OBVIOUS
  <2> HIDE DEF c
  <2>3. CallsFit'
    BY <1>2, <2>1, <2>2, CallAdded DEF place
  <2>4. QED
    BY <2>1, <2>3
<1>8. QED
  BY <1>5, <1>6, <1>7

\* An answer clears the title or the draft; an override left keeps its word.
LEMMA AnswerFits ==
    ASSUME FitInv, NEW i \in 1..Len(calls),
           Created(i) \/ CreateFailed(i) \/ \E ok \in BOOLEAN : QuickAnswer(i, ok)
    PROVE  DraftFit(draft') /\ OverrideIsOfThisTab' /\ CallsFit' /\ UNCHANGED place
<1>1. PICK t, n, a, u, p, r, g, o :
        draft = [title |-> t, notes |-> n, assignee |-> a, due |-> u, priority |-> p,
                 repeat |-> r, tags |-> g, override |-> o]
  BY DEF FitInv, BarInv, IsDraft
<1>2. t \in Seq(Vocabulary) /\ r \in Repeat \cup {None} /\ o \in Horizon \cup {None}
  BY <1>1 DEF FitInv, DraftFit
<1>3. Settle(i) /\ UNCHANGED place /\ CallsFit'
  <2>1. Settle(i)
    BY DEF Created, CreateFailed, QuickAnswer
  <2>2. UNCHANGED place
    BY <2>1 DEF Settle
  <2>3. QED
    BY <2>1, <2>2, CallTaken DEF place
<1>4. \/ draft' = Empty
      \/ draft' = draft /\ heard' = heard
      \/ draft' = [draft EXCEPT !.title = <<>>] /\ heard' = heard
      \/ draft' = [draft EXCEPT !.title = <<>>, !.tags = {}, !.notes = FALSE] /\ heard' = heard
  <2>1. CASE Created(i)
    BY <2>1 DEF Created
  <2>2. CASE CreateFailed(i)
    BY <2>2 DEF CreateFailed
  <2>3. ASSUME NEW ok \in BOOLEAN, QuickAnswer(i, ok)
        PROVE  heard' = heard /\ (draft' = draft \/ draft' = [draft EXCEPT !.title = <<>>])
    BY <1>1, <2>3 DEF QuickAnswer
  <2>4. QED
    BY <2>1, <2>2, <2>3
<1>5. CASE draft' = Empty
  <2>1. DraftFit(draft') /\ draft'.override = None
    BY <1>5, EmptyFit
  <2>2. OverrideIsOfThisTab'
    BY <2>1, OverrideStays DEF FitInv
  <2>3. QED
    BY <1>3, <2>1, <2>2
<1>6. CASE draft' # Empty
  <2>1. heard' = heard
    BY <1>4, <1>6
  <2>2. draft'.override = draft.override /\ DraftFit(draft')
    <3>1. <<>> \in Seq(Vocabulary)
      BY EmptySeq
    <3>2. CASE draft' = draft
      BY <3>2 DEF FitInv
    <3>3. CASE draft' = [draft EXCEPT !.title = <<>>]
      BY <1>1, <1>2, <3>1, <3>3 DEF DraftFit
    <3>4. CASE draft' = [draft EXCEPT !.title = <<>>, !.tags = {}, !.notes = FALSE]
      BY <1>1, <1>2, <3>1, <3>4 DEF DraftFit
    <3>5. QED
      BY <1>4, <1>6, <3>2, <3>3, <3>4
  <2>3. OverrideIsOfThisTab'
    BY <2>1, <2>2, OverrideStays DEF FitInv
  <2>4. QED
    BY <1>3, <2>2, <2>3
<1>7. QED
  BY <1>5, <1>6

LEMMA FitInvariance == Spec => []FitInv
<1>1. Init => DraftFit(draft) /\ TabFit /\ CallsFit /\ OverrideIsOfThisTab
  <2> SUFFICES ASSUME Init PROVE DraftFit(draft) /\ TabFit /\ CallsFit /\ OverrideIsOfThisTab
    OBVIOUS
  <2>1. draft = Empty /\ calls = <<>> /\ TabFit
    BY DEF Init, TabFit, Horizon
  <2>2. QED
    BY <2>1, EmptyFit, EmptySeq DEF CallsFit, OverrideIsOfThisTab
<1>2. BarInv' /\ FitInv /\ [Next]_vars => FitInv'
  <2> SUFFICES ASSUME BarInv', FitInv, [Next]_vars PROVE FitInv'
    OBVIOUS
  <2>1. ASSUME UNCHANGED <<place, draft, heard>>, CallsFit' PROVE FitInv'
    <3>1. OverrideIsOfThisTab'
      BY <2>1, OverrideStays DEF FitInv
    <3>2. QED
      BY <2>1, <3>1 DEF FitInv, TabFit, place
  <2>2. CASE Enter \/ Create \/ Submit
    BY <2>1, <2>2, SendFits
  <2>3. CASE User /\ ~Enter /\ ~Create /\ ~Submit
    <3>1. calls' = calls
      BY <2>3, EditKeeps DEF FitInv
    <3>2. QED
      BY <2>3, <3>1, EditFits, CallsStay DEF FitInv, DraftFit
  <2>4. ASSUME NEW i \in 1..Len(calls),
               Created(i) \/ CreateFailed(i) \/ \E ok \in BOOLEAN : QuickAnswer(i, ok)
        PROVE  FitInv'
    BY <2>4, AnswerFits DEF FitInv, TabFit, place, DraftFit
  <2>5. CASE UNCHANGED vars
    BY <2>1, <2>5, CallsStay DEF vars, place
  <2>6. QED
    BY <2>2, <2>3, <2>4, <2>5 DEF Next, Answers
<1>3. BarInv /\ DraftFit(draft) /\ TabFit /\ CallsFit /\ OverrideIsOfThisTab => FitInv
  BY DEF FitInv
<1>4. QED
  BY <1>1, <1>2, <1>3, Invariance, PTL DEF Spec

\* Every body sent is one the server accepts, whatever tokens, pills and tabs the
\* draft went through (TaskComposer.tsx:198-230, 643-654), and the quick-add row's is
\* but for a recurrence that is not daily (TeamPage.tsx:441-470).
THEOREM CallsAreFit == Spec => []CallsFit
<1>1. FitInv => CallsFit
  BY DEF FitInv
<1>2. QED
  BY <1>1, FitInvariance, PTL

\* A horizon the bar holds was typed under the tab that is active, however tabs
\* are switched between expanding and creating (TaskComposer.tsx:425-434).
THEOREM OverrideOfThisTab == Spec => []OverrideIsOfThisTab
<1>1. FitInv => OverrideIsOfThisTab
  BY DEF FitInv
<1>2. QED
  BY <1>1, FitInvariance, PTL
===============================================================================
