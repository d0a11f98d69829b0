------------------------------ MODULE ShellProofs ------------------------------
(***************************************************************************)
(* Theorems about Shell, for any tabs, periods, weeks, dates and teams and   *)
(* any number of requests: the summary panel implements LatestAnswer, the    *)
(* assign popover offers a team's own members only, the list views ask for   *)
(* what is viewed, and the team history shows the newest rows.               *)
(***************************************************************************)
EXTENDS Shell, FiniteSetTheorems, SequenceTheorems, TLAPS

-------------------------------------------------------------------------------
(* The summary panel.                                                        *)

SummaryInv == S!TypeOK /\ S!LiveFetch

\* A request for the range the inputs now show, with every earlier one
\* cancelled, is the only live one.
LEMMA RefetchKeeps ==
    ASSUME SummaryInv, NEW r \in S!Range, S!Refetch(r), S!Asked' = r
    PROVE  /\ fetches' \in SUBSET S!Fetch /\ sent' \in 0 .. MaxFetches
           /\ loading' = TRUE /\ failed' = FALSE /\ data' = data
           /\ S!LiveFetch'
<1>1. /\ sent \in 0 .. MaxFetches /\ sent' = sent + 1 /\ sent' \in 1 .. MaxFetches
      /\ fetches \in SUBSET S!Fetch /\ MaxFetches \in Nat
  BY ShellAssumption DEF SummaryInv, S!TypeOK, S!Refetch, ShellAssumption
<1>2. fetches' = S!Cancelled \cup {S!FetchOf(r)}
  BY DEF S!Refetch
<1>3. S!FetchOf(r) \in S!Fetch /\ S!FetchOf(r).no = sent' /\ ~S!FetchOf(r).cancelled
      /\ S!FetchOf(r).range = r
  BY <1>1 DEF S!FetchOf, S!Fetch
<1>4. \A f \in S!Cancelled : f \in S!Fetch /\ f.cancelled /\ \E g \in fetches :
         f.no = g.no /\ f.range = g.range
  BY <1>1 DEF S!Cancelled, S!Fetch
<1>5. fetches' \in SUBSET S!Fetch
  BY <1>2, <1>3, <1>4
<1>6. \A f \in fetches : f.no \in 1 .. MaxFetches /\ f.no <= sent
  BY <1>1 DEF SummaryInv, S!LiveFetch, S!Fetch
<1>7. \A f \in S!Cancelled : f.no <= sent /\ f.no # sent'
  BY <1>1, <1>4, <1>6
<1>8. \A f, g \in S!Cancelled : f.no = g.no => f = g
  <2> SUFFICES ASSUME NEW x \in fetches, NEW y \in fetches, x.no = y.no
               PROVE  [x EXCEPT !.cancelled = TRUE] = [y EXCEPT !.cancelled = TRUE]
    BY <1>1 DEF S!Cancelled, S!Fetch
  <2> QED
    BY DEF SummaryInv, S!LiveFetch
<1>9. \A f \in fetches' : f.no <= sent'
  BY <1>1, <1>2, <1>3, <1>4, <1>6, <1>7
<1>10. \A f, g \in fetches' : f.no = g.no => f = g
  BY <1>2, <1>3, <1>7, <1>8
<1>11. \A f \in fetches' : ~f.cancelled => f = S!FetchOf(r)
  BY <1>2, <1>4
<1>12. S!Asked' # None
  BY ShellAssumption DEF ShellAssumption, S!Range
<1>13. loading' = TRUE /\ failed' = FALSE /\ data' = data
  BY DEF S!Refetch
<1>14. QED
  BY <1>1, <1>2, <1>3, <1>5, <1>9, <1>10, <1>11, <1>12, <1>13 DEF S!LiveFetch

\* An unmounted panel has nothing to show and nothing to load.
LEMMA BlankKeeps ==
    ASSUME S!Unmount
    PROVE  SummaryInv' /\ S!Asked' = None /\ data' = None /\ loading' = FALSE
<1>1. /\ open' = FALSE /\ from' = 0 /\ to' = 0 /\ data' = None /\ loading' = FALSE
      /\ failed' = FALSE /\ closing' = FALSE /\ fetches' = {} /\ sent' = 0
  BY DEF S!Unmount
<1>2. 0 \in S!Input /\ 0 \in 0 .. MaxFetches /\ fetches' \in SUBSET S!Fetch
  BY <1>1, ShellAssumption DEF S!Input, ShellAssumption
<1>3. S!Asked' = None
  BY <1>1 DEF S!Asked
<1>4. S!TypeOK'
  BY <1>1, <1>2 DEF S!TypeOK
<1>5. S!LiveFetch'
  BY <1>1 DEF S!LiveFetch
<1>6. QED
  BY <1>1, <1>3, <1>4, <1>5 DEF SummaryInv

LEMMA OpenKeeps ==
    ASSUME SummaryInv, NEW w \in 0 .. MaxPeriod["week"], OpensAt(w)
    PROVE  SummaryInv' /\ S!Asked' \in S!Range /\ loading' /\ data' = data
<1> DEFINE r == WeekRange[w]
<1>1. /\ r.from \in Date /\ r.to \in Date /\ r.from <= r.to
      /\ r.from \in Nat \ {0} /\ r.to \in Nat \ {0}
  BY ShellAssumption DEF ShellAssumption
<1>2. /\ open' = TRUE /\ from' = r.from /\ to' = r.to /\ closing' = FALSE
      /\ S!Refetch([from |-> r.from, to |-> r.to])
  BY DEF OpensAt, S!OpenAt
<1>3. S!Asked' = [from |-> r.from, to |-> r.to]
  BY <1>1, <1>2 DEF S!Asked, S!rangeError
<1>4. [from |-> r.from, to |-> r.to] \in S!Range
  BY <1>1 DEF S!Range
<1>5. /\ fetches' \in SUBSET S!Fetch /\ sent' \in 0 .. MaxFetches
      /\ loading' = TRUE /\ failed' = FALSE /\ data' = data /\ S!LiveFetch'
  BY <1>2, <1>3, <1>4, RefetchKeeps
<1>6. data' \in S!Range \cup {None}
  BY <1>5 DEF SummaryInv, S!TypeOK
<1>7. QED
  BY <1>1, <1>2, <1>3, <1>4, <1>5, <1>6 DEF SummaryInv, S!TypeOK, S!Input

\* An input that changed asks for the range the inputs show, or for nothing.
LEMMA EditKeeps ==
    ASSUME SummaryInv, S!Edit
    PROVE  /\ SummaryInv'
           /\ \/ S!Asked' = None /\ data' = None /\ loading' = FALSE
              \/ S!Asked' \in S!Range /\ loading' = TRUE /\ data' = data
<1>1. /\ open /\ open' = open /\ closing' = closing /\ S!Effect
      /\ from' \in S!Input /\ to' \in S!Input
  BY DEF S!Edit, S!SetFrom, S!SetTo, SummaryInv, S!TypeOK
<1>2. CASE S!Asked' = None
  <2>1. /\ fetches' = S!Cancelled /\ loading' = FALSE /\ failed' = FALSE
        /\ data' = None /\ sent' = sent
    BY <1>1, <1>2 DEF S!Effect, S!ShowNothing
  <2>2. \A f \in S!Cancelled : f \in S!Fetch /\ f.cancelled /\ f.no <= sent
    <3>1. \A g \in fetches : g \in S!Fetch /\ g.no <= sent
      BY DEF SummaryInv, S!TypeOK, S!LiveFetch
    <3> SUFFICES ASSUME NEW g \in S!Fetch, g.no <= sent
                 PROVE  LET f == [g EXCEPT !.cancelled = TRUE]
                        IN  f \in S!Fetch /\ f.cancelled /\ f.no <= sent
      BY <3>1 DEF S!Cancelled
    <3> QED
      BY DEF S!Fetch
  <2>3. \A f, g \in S!Cancelled : f.no = g.no => f = g
    <3> SUFFICES ASSUME NEW x \in fetches, NEW y \in fetches, x.no = y.no
                 PROVE  [x EXCEPT !.cancelled = TRUE] = [y EXCEPT !.cancelled = TRUE]
      BY DEF S!Cancelled, S!Fetch, SummaryInv, S!TypeOK
    <3> QED
      BY DEF SummaryInv, S!LiveFetch
  <2>4. S!LiveFetch'
    BY <2>1, <2>2, <2>3 DEF S!LiveFetch
  <2>5. S!TypeOK'
    BY <1>1, <2>1, <2>2 DEF SummaryInv, S!TypeOK
  <2>6. QED
    BY <1>2, <2>1, <2>4, <2>5 DEF SummaryInv
<1>3. CASE S!Asked' # None
  <2>1. S!Asked' = [from |-> from', to |-> to'] /\ from' # 0 /\ to' # 0
    BY <1>3 DEF S!Asked
  <2>2. S!Asked' \in S!Range
    BY <1>1, <2>1 DEF S!Range, S!Input
  <2>3. S!Refetch(S!Asked')
    BY <1>1, <1>3 DEF S!Effect
  <2>4. /\ fetches' \in SUBSET S!Fetch /\ sent' \in 0 .. MaxFetches
        /\ loading' = TRUE /\ failed' = FALSE /\ data' = data /\ S!LiveFetch'
    BY <2>2, <2>3, RefetchKeeps
  <2>5. S!TypeOK'
    BY <1>1, <2>4 DEF SummaryInv, S!TypeOK
  <2>6. QED
    BY <2>2, <2>4, <2>5 DEF SummaryInv
<1>4. QED
  BY <1>2, <1>3

\* An answer of a cancelled request changes nothing on screen; that of the live
\* one is an answer to what is asked.
LEMMA AnswerKeeps ==
    ASSUME SummaryInv, S!Answers
    PROVE  /\ SummaryInv' /\ S!Asked' = S!Asked
           /\ \/ loading' = loading /\ data' = data
              \/ loading /\ loading' = FALSE /\ data' \in {S!Asked, None}
<1>1. PICK f \in fetches : S!Answer(f) \/ S!Fail(f)
  BY DEF S!Answers
<1>2. /\ fetches' = fetches \ {f}
      /\ UNCHANGED <<open, from, to, closing, sent>>
  BY <1>1 DEF S!Answer, S!Fail, S!Landed
<1>3. S!Asked' = S!Asked
  BY <1>2 DEF S!Asked, S!rangeError
<1>4. f \in S!Fetch /\ f.range \in S!Range /\ f.cancelled \in BOOLEAN
  BY DEF SummaryInv, S!TypeOK, S!Fetch
<1>5. CASE f.cancelled
  <2>1. data' = data /\ loading' = loading /\ failed' = failed
    BY <1>1, <1>5 DEF S!Answer, S!Fail
  <2>2. S!LiveFetch'
    BY <1>2, <1>3, <1>5, <2>1 DEF SummaryInv, S!LiveFetch
  <2>3. QED
    BY <1>2, <1>3, <2>1, <2>2 DEF SummaryInv, S!TypeOK
<1>6. CASE ~f.cancelled
  <2>1. f.no = sent /\ f.range = S!Asked /\ loading
    BY <1>6 DEF SummaryInv, S!LiveFetch
  <2>2. loading' = FALSE /\ data' \in {S!Asked, None} /\ failed' \in BOOLEAN
    BY <1>1, <1>6, <2>1 DEF S!Answer, S!Fail, SummaryInv, S!TypeOK
  <2>3. \A g \in fetches' : g.cancelled
    BY <1>2, <1>6, <2>1 DEF SummaryInv, S!LiveFetch
  <2>4. S!LiveFetch'
    BY <1>2, <2>2, <2>3 DEF SummaryInv, S!LiveFetch
  <2>5. data' \in S!Range \cup {None}
    BY <1>4, <2>1, <2>2
  <2>6. QED
    BY <1>2, <1>3, <2>1, <2>2, <2>4, <2>5 DEF SummaryInv, S!TypeOK
<1>7. QED
  BY <1>4, <1>5, <1>6

\* The tabs and their periods, which give the panel its week.
NavOK ==
    /\ at \in [PeriodTab -> Int]
    /\ \A t \in PeriodTab : at[t] \in 0 .. MaxPeriod[t]

PanelInv == NavOK /\ SummaryInv

LEMMA PanelInit == Init => PanelInv
<1> SUFFICES ASSUME Init PROVE PanelInv
  OBVIOUS
<1>1. /\ open = FALSE /\ from = 0 /\ to = 0 /\ data = None /\ loading = FALSE
      /\ failed = FALSE /\ closing = FALSE /\ fetches = {} /\ sent = 0
  BY DEF Init, S!Closed
<1>2. 0 \in S!Input /\ 0 \in 0 .. MaxFetches /\ fetches \in SUBSET S!Fetch
  BY <1>1, ShellAssumption DEF S!Input, ShellAssumption
<1>3. S!TypeOK
  BY <1>1, <1>2 DEF S!TypeOK
<1>4. S!LiveFetch
  BY <1>1 DEF S!LiveFetch
<1>5. at = [t \in PeriodTab |-> 0]
  BY DEF Init, Today
<1>6. NavOK
  BY <1>5, ShellAssumption DEF NavOK, ShellAssumption
<1>7. QED
  BY <1>3, <1>4, <1>6 DEF PanelInv, SummaryInv

\* What the panel shows, as LatestAnswer sees it, in one step of the shell.
PanelStep ==
    \/ S!Asked' \in S!Range /\ loading' = TRUE /\ data' = data
    \/ S!Asked' = None /\ data' = None /\ loading' = FALSE
    \/ loading /\ loading' = FALSE /\ data' \in {S!Asked, None} /\ S!Asked' = S!Asked
    \/ S!Asked' = S!Asked /\ loading' = loading /\ data' = data

LEMMA RestKeeps ==
    ASSUME SummaryInv, UNCHANGED summary
    PROVE  SummaryInv' /\ PanelStep
<1>1. /\ open' = open /\ from' = from /\ to' = to /\ data' = data /\ loading' = loading
      /\ failed' = failed /\ closing' = closing /\ fetches' = fetches /\ sent' = sent
  BY DEF summary
<1>2. S!Asked' = S!Asked
  BY <1>1 DEF S!Asked, S!rangeError
<1>3. QED
  BY <1>1, <1>2 DEF PanelStep, SummaryInv, S!TypeOK, S!LiveFetch

\* The panel's own part of every step of the shell.
LEMMA PanelNext ==
    ASSUME PanelInv, [Next]_vars
    PROVE  PanelInv' /\ PanelStep
<1>1. CASE UNCHANGED summary /\ UNCHANGED at
  BY <1>1, RestKeeps DEF PanelInv, NavOK
<1>2. ASSUME NEW t \in Tabs, SetTab(t) PROVE PanelInv' /\ PanelStep
  <2>1. at' = at /\ SummaryFollows(t)
    BY <1>2 DEF SetTab
  <2>2. CASE summaryOpen /\ t = "week"
    <3>1. OpensAt(at["week"]) /\ at["week"] \in 0 .. MaxPeriod["week"]
      BY <2>1, <2>2, ShellAssumption DEF SummaryFollows, PanelInv, NavOK, ShellAssumption
    <3>2. QED
      BY <2>1, <3>1, OpenKeeps DEF PanelInv, NavOK, PanelStep
  <2>3. CASE ~(summaryOpen /\ t = "week") /\ open
    <3>1. S!Unmount
      BY <2>1, <2>3 DEF SummaryFollows
    <3>2. QED
      BY <2>1, <3>1, BlankKeeps DEF PanelInv, NavOK, PanelStep
  <2>4. CASE ~(summaryOpen /\ t = "week") /\ ~open
    <3>1. UNCHANGED summary
      BY <2>1, <2>4 DEF SummaryFollows
    <3>2. QED
      BY <1>1, <2>1, <3>1
  <2>5. QED
    BY <2>2, <2>3, <2>4
<1>3. ASSUME NEW p, PeriodNav(p) PROVE PanelInv' /\ PanelStep
  <2>1. tab \in PeriodTab /\ p \in 0 .. MaxPeriod[tab] /\ at' = [at EXCEPT ![tab] = p]
    BY <1>3 DEF PeriodNav
  <2>2. UNCHANGED summary
    BY <1>3 DEF PeriodNav
  <2>3. MaxPeriod[tab] \in Nat /\ p \in Int
    BY <2>1, ShellAssumption DEF ShellAssumption
  <2>4. NavOK'
    BY <2>1, <2>3 DEF PanelInv, NavOK
  <2>5. QED
    BY <2>2, <2>4, RestKeeps DEF PanelInv
<1>4. ASSUME NEW new, SetTags(new) PROVE PanelInv' /\ PanelStep
  BY <1>1, <1>4 DEF SetTags, summary
<1>5. CASE Created
  BY <1>1, <1>5 DEF Created, shell
<1>6. CASE OpenSummary
  <2>1. at' = at /\ OpensAt(at["week"]) /\ at["week"] \in 0 .. MaxPeriod["week"]
    BY <1>6, ShellAssumption DEF OpenSummary, PanelInv, NavOK, ShellAssumption
  <2>2. QED
    BY <2>1, OpenKeeps DEF PanelInv, NavOK, PanelStep
<1>7. CASE RequestClose
  <2>1. at' = at /\ S!RequestClose
    BY <1>7 DEF RequestClose
  <2>2. /\ closing' = TRUE
        /\ UNCHANGED <<open, from, to, data, loading, failed, fetches, sent>>
    BY <2>1 DEF S!RequestClose
  <2>3. S!Asked' = S!Asked
    BY <2>2 DEF S!Asked, S!rangeError
  <2>4. SummaryInv' /\ PanelStep
    BY <2>2, <2>3 DEF PanelInv, PanelStep, SummaryInv, S!TypeOK, S!LiveFetch
  <2>5. QED
    BY <2>1, <2>4 DEF PanelInv, NavOK
<1>8. CASE CloseSummary
  <2>1. at' = at /\ (S!Unmount \/ UNCHANGED summary)
    BY <1>8 DEF CloseSummary
  <2>2. QED
    BY <1>1, <2>1, BlankKeeps DEF PanelInv, NavOK, PanelStep
<1>9. CASE ViewOlder \/ BackToBoard
  BY <1>1, <1>9 DEF ViewOlder, BackToBoard, shell
<1>10. CASE ListSteps \/ SearchDue \/ ListAnswers \/ HistorySteps \/ AssignSteps
  BY <1>1, <1>10 DEF ListSteps, SearchDue, ListAnswers, HistorySteps, AssignSteps, shell
<1>11. CASE SummarySteps
  <2>1. at' = at /\ (S!Edit \/ S!Answers)
    BY <1>11 DEF SummarySteps, shell
  <2>2. SummaryInv' /\ PanelStep
    BY <2>1, EditKeeps, AnswerKeeps DEF PanelInv, PanelStep
  <2>3. QED
    BY <2>1, <2>2 DEF PanelInv, NavOK
<1>12. CASE UNCHANGED vars
  BY <1>1, <1>12 DEF vars, shell
<1>13. QED
  BY <1>2, <1>3, <1>4, <1>5, <1>6, <1>7, <1>8, <1>9, <1>10, <1>11, <1>12 DEF Next, Toggle

\* The summary panel, mounted and unmounted by the shell, its answers late, lost
\* or out of order, implements LatestAnswer: an answer is put on screen only to
\* the question the inputs put (SummaryPanel.tsx:49-77).
THEOREM LatestAnswerShown == Spec => SummaryShowsLatestAnswer
<1>1. Init => S!Latest!Init
  BY DEF Init, S!Closed, S!Latest!Init, S!Asked
<1>2. PanelInv /\ [Next]_vars => PanelInv' /\ [S!Latest!Next]_S!Latest!vars
  <2> SUFFICES ASSUME PanelInv, [Next]_vars
               PROVE  PanelInv' /\ [S!Latest!Next]_S!Latest!vars
    OBVIOUS
  <2>1. PanelInv' /\ PanelStep
    BY PanelNext
  <2>2. QED
    BY <2>1 DEF PanelStep, S!Latest!Next, S!Latest!Ask, S!Latest!Withdraw,
                S!Latest!Answer, S!Latest!Fail, S!Latest!vars
<1>3. QED
  BY <1>1, <1>2, PanelInit, PTL DEF Spec, SummaryShowsLatestAnswer, S!ShowsLatestAnswer, S!Latest!Spec

-------------------------------------------------------------------------------
(* The assign popover.                                                       *)

\* Only the request for the team picked may be live; at rest the options are
\* that team's, and the member picked is one of them, or a board has failed.
PickInv ==
    /\ \A b \in boards : ~b.cancelled => b.team = teamId /\ loadingMembers
    /\ noBoard \/ loadingMembers \/ teamId = None \/ members = teamId
    /\ noBoard \/ assigneeId \in {teamId, None}
    /\ teamId = None => assigneeId = None
    /\ boards \subseteq [team : Team, cancelled : BOOLEAN]
    /\ noBoard \in BOOLEAN

\* Shut, the popover holds nothing.
LEMMA CloseKeeps == ASSUME A!Close PROVE PickInv'
  BY DEF A!Close, PickInv

\* A team picked cancels every request in flight and asks for its own board.
LEMMA PickTeamKeeps ==
    ASSUME PickInv, NEW t \in Team \cup {None}, A!PickTeam(t)
    PROVE  PickInv'
<1> DEFINE before == {[b EXCEPT !.cancelled = TRUE] : b \in boards}
<1>1. /\ teamId' = t /\ assigneeId' = None /\ noBoard' = noBoard
      /\ IF t = None
         THEN members' = None /\ boards' = before /\ loadingMembers' = loadingMembers
         ELSE /\ boards' = before \cup {[team |-> t, cancelled |-> FALSE]}
              /\ loadingMembers' = TRUE
  BY DEF A!PickTeam, A!NoMember
<1>2. \A b \in before : b.cancelled /\ b \in [team : Team, cancelled : BOOLEAN]
  BY DEF PickInv
<1>3. \A b \in boards' : ~b.cancelled => b.team = t /\ loadingMembers'
  BY <1>1, <1>2
<1>4. boards' \subseteq [team : Team, cancelled : BOOLEAN]
  <2> HIDE DEF before
  <2>1. before \subseteq [team : Team, cancelled : BOOLEAN]
    BY <1>2
  <2>2. t # None => [team |-> t, cancelled |-> FALSE] \in [team : Team, cancelled : BOOLEAN]
    OBVIOUS
  <2>3. QED
    BY <1>1, <2>1, <2>2
<1>5. QED
  BY <1>1, <1>3, <1>4 DEF PickInv

\* The board of the team picked, and no other, replaces the options.
LEMMA BoardKeeps ==
    ASSUME PickInv, NEW b \in boards, A!BoardAnswer(b) \/ A!BoardFail(b)
    PROVE  PickInv'
<1>1. /\ boards' = boards \ {b} /\ teamId' = teamId /\ assigneeId' = assigneeId
      /\ b \in boards
  BY DEF A!BoardAnswer, A!BoardFail
<1>2. CASE b.cancelled
  <2>1. members' = members /\ loadingMembers' = loadingMembers /\ noBoard' = noBoard
    BY <1>2 DEF A!BoardAnswer, A!BoardFail
  <2>2. QED
    BY <1>1, <1>2, <2>1 DEF PickInv
<1>3. CASE ~b.cancelled
  <2>1. b.team = teamId /\ \A c \in boards' : ~c.cancelled => c = b
    BY <1>1, <1>3 DEF PickInv
  <2>2. \A c \in boards' : c.cancelled
    BY <1>1, <2>1
  <2>3. CASE A!BoardAnswer(b)
    BY <1>1, <1>3, <2>1, <2>2, <2>3 DEF A!BoardAnswer, PickInv
  <2>4. CASE A!BoardFail(b)
    BY <1>1, <1>3, <2>1, <2>2, <2>4 DEF A!BoardFail, PickInv
  <2>5. QED
    BY <2>3, <2>4
<1>4. QED
  BY <1>2, <1>3

LEMMA AssignStepsKeep ==
    ASSUME PickInv, AssignSteps
    PROVE  PickInv'
<1>1. CASE A!Open
  BY <1>1 DEF A!Open, PickInv
<1>2. CASE A!Close
  BY <1>2, CloseKeeps
<1>3. ASSUME NEW t \in Team \cup {None}, A!PickTeam(t) PROVE PickInv'
  BY <1>3, PickTeamKeeps
<1>4. ASSUME NEW b \in boards, A!BoardAnswer(b) \/ A!BoardFail(b) PROVE PickInv'
  BY <1>4, BoardKeeps
<1>5. ASSUME NEW m, A!PickMember(m) PROVE PickInv'
  BY <1>5 DEF A!PickMember, PickInv
<1>6. QED
  BY <1>1, <1>2, <1>3, <1>4, <1>5 DEF AssignSteps

\* Teams picked one after the other, their boards answered late and in any
\* order: the member handed over is one of the team handed over, unless a board
\* failed to load (AssignPopover.tsx:57-87).
THEOREM AssigneeOfTheTeam == Spec => []AssigneeIsOfTheTeam
<1>1. Init => PickInv
  BY DEF Init, A!Shut, PickInv
<1>2. PickInv /\ [Next]_vars => PickInv'
  <2> SUFFICES ASSUME PickInv, [Next]_vars PROVE PickInv'
    OBVIOUS
  <2>1. CASE UNCHANGED assign
    BY <2>1 DEF assign, PickInv
  <2>2. ASSUME NEW t, SetTab(t) PROVE PickInv'
    BY <2>2, CloseKeeps DEF SetTab
  <2>3. CASE AssignSteps
    BY <2>3, AssignStepsKeep
  <2>4. ASSUME NEW p, PeriodNav(p) PROVE PickInv'
    BY <2>1, <2>4 DEF PeriodNav
  <2>5. ASSUME NEW new, SetTags(new) PROVE PickInv'
    BY <2>1, <2>5 DEF SetTags
  <2>6. CASE Created \/ OpenSummary \/ RequestClose \/ CloseSummary
    BY <2>1, <2>6 DEF Created, OpenSummary, RequestClose, CloseSummary
  <2>7. CASE ViewOlder \/ BackToBoard
    BY <2>1, <2>7 DEF ViewOlder, BackToBoard
  <2>8. CASE ListSteps \/ SearchDue \/ ListAnswers \/ HistorySteps \/ SummarySteps
    BY <2>1, <2>8 DEF ListSteps, SearchDue, ListAnswers, HistorySteps, SummarySteps
  <2>9. CASE UNCHANGED vars
    BY <2>1, <2>9 DEF vars
  <2>10. QED
    BY <2>2, <2>3, <2>4, <2>5, <2>6, <2>7, <2>8, <2>9 DEF Next, Toggle
<1>3. PickInv => AssigneeIsOfTheTeam
  BY DEF PickInv, AssigneeIsOfTheTeam, A!AssigneeIsOfTheTeamLoaded, A!AssigneeIsOfTheTeam, A!Picks
<1>4. QED
  BY <1>1, <1>2, <1>3, PTL DEF Spec

-------------------------------------------------------------------------------
(* The list views.                                                           *)

\* However periods, tags, typing, row operations, mounted views and answers
\* follow each other, the last request of the mounted view asks what it is a
\* view of, or a search is due, or a row's reload was sent last
\* (DayView.tsx:40, AllTasksView.tsx:110, SearchView.tsx:47-51).
THEOREM ViewsAskWhatIsViewed == Spec => []ViewsAskForWhatIsViewed
<1>1. Init => ViewsAskForWhatIsViewed
  BY DEF Init, ViewsAskForWhatIsViewed, L!AsksForWhatIsViewed
<1>2. ViewsAskForWhatIsViewed /\ [Next]_vars => ViewsAskForWhatIsViewed'
  <2> SUFFICES ASSUME ViewsAskForWhatIsViewed, [Next]_vars PROVE ViewsAskForWhatIsViewed'
    OBVIOUS
  <2> USE DEF ViewsAskForWhatIsViewed, L!AsksForWhatIsViewed
  <2>1. ASSUME UNCHANGED <<tab, at, tags, query, timer, newest>> PROVE ViewsAskForWhatIsViewed'
    BY <2>1 DEF L!Viewed
  <2>2. ASSUME NEW q, NEW by, L!Ask(q, by), q = L!Viewed \/ by = "row",
               UNCHANGED <<tab, at, tags, query>>
        PROVE  ViewsAskForWhatIsViewed'
    <3>1. newest'.q = q /\ newest'.by = by
      BY <2>2 DEF L!Ask, L!Send
    <3>2. L!Viewed' = L!Viewed
      BY <2>2 DEF L!Viewed
    <3>3. QED
      BY <2>2, <3>1, <3>2
  <2>3. ASSUME L!Refetch, UNCHANGED tab PROVE ViewsAskForWhatIsViewed'
    <3>1. CASE tab = "search"
      BY <2>3, <3>1 DEF L!Refetch
    <3>2. CASE tab # "search"
      <4>1. newest'.q = L!Viewed'
        BY <2>3, <3>2 DEF L!Refetch, L!Ask, L!Send
      <4>2. QED
        BY <4>1
    <3>3. QED
      BY <3>1, <3>2
  <2>4. ASSUME NEW t, SetTab(t) PROVE ViewsAskForWhatIsViewed'
    <3>1. L!Remount
      BY <2>4 DEF SetTab
    <3>2. CASE tab' \in L!ListTab \ {"search"}
      <4>1. newest'.q = L!Viewed'
        BY <3>1, <3>2 DEF L!Remount, L!Send
      <4>2. QED
        BY <4>1
    <3>3. CASE tab' \notin L!ListTab \ {"search"}
      BY <3>1, <3>3 DEF L!Remount
    <3>4. QED
      BY <3>2, <3>3
  <2>5. ASSUME NEW p, PeriodNav(p) PROVE ViewsAskForWhatIsViewed'
    BY <2>3, <2>5 DEF PeriodNav
  <2>6. CASE Created
    BY <2>2, <2>6 DEF Created, shell
  <2>7. ASSUME NEW new, SetTags(new) PROVE ViewsAskForWhatIsViewed'
    BY <2>3, <2>7 DEF SetTags
  <2>8. CASE ListSteps
    <3>1. ASSUME NEW q, L!Type(q) PROVE ViewsAskForWhatIsViewed'
      BY <3>1 DEF L!Type
    <3>2. CASE L!Enter
      BY <2>2, <2>8, <3>2 DEF L!Enter, L!RunSearch, ListSteps, shell
    <3>3. CASE L!StartOp
      BY <2>1, <2>8, <3>3 DEF L!StartOp, ListSteps, shell
    <3>4. QED
      BY <2>8, <3>1, <3>2, <3>3 DEF ListSteps
  <2>9. CASE SearchDue
    BY <2>2, <2>9 DEF SearchDue, L!Debounced, L!RunSearch, shell
  <2>10. CASE ListAnswers
    <3>1. ASSUME NEW c \in calls, L!Answer(c) \/ L!Fail(c) PROVE ViewsAskForWhatIsViewed'
      BY <2>1, <2>10, <3>1 DEF L!Answer, L!Fail, L!Landed, ListAnswers, shell
    <3>2. ASSUME NEW q \in ops, L!OpDone(q) PROVE ViewsAskForWhatIsViewed'
      BY <2>2, <2>10, <3>2 DEF L!OpDone, ListAnswers, shell
    <3>3. ASSUME NEW q \in ops, L!OpFailed(q) PROVE ViewsAskForWhatIsViewed'
      BY <2>1, <2>10, <3>3 DEF L!OpFailed, ListAnswers, shell
    <3>4. QED
      BY <2>10, <3>1, <3>2, <3>3 DEF ListAnswers
  <2>11. CASE OpenSummary \/ RequestClose \/ CloseSummary
    BY <2>1, <2>11 DEF OpenSummary, RequestClose, CloseSummary, lists
  <2>12. CASE ViewOlder \/ BackToBoard \/ HistorySteps \/ AssignSteps \/ SummarySteps
    BY <2>1, <2>12 DEF ViewOlder, BackToBoard, HistorySteps, AssignSteps, SummarySteps, shell, lists
  <2>13. CASE UNCHANGED vars
    BY <2>1, <2>13 DEF vars, shell, lists
  <2>14. QED
    BY <2>4, <2>5, <2>6, <2>7, <2>8, <2>9, <2>10, <2>11, <2>12, <2>13 DEF Next, Toggle
<1>3. QED
  BY <1>1, <1>2, PTL DEF Spec

-------------------------------------------------------------------------------
(* The team history.                                                         *)

\* What a finite set of tasks holds above one of them shrinks as that one grows.
Above(set, t) == {u \in set : u > t}
Numbers(set) == set \subseteq Int /\ IsFiniteSet(set)

LEMMA AboveShrinks ==
    ASSUME NEW set, Numbers(set), NEW t \in set
    PROVE  /\ Cardinality(Above(set, t)) \in Nat /\ Cardinality(set) \in Nat
           /\ Cardinality(Above(set, t)) < Cardinality(set)
           /\ \A u \in set : t < u => Cardinality(Above(set, u)) < Cardinality(Above(set, t))
<1>1. ASSUME NEW v \in set
      PROVE  /\ IsFiniteSet(Above(set, v)) /\ Cardinality(Above(set, v)) \in Nat
             /\ Cardinality(set) \in Nat /\ Cardinality(Above(set, v)) < Cardinality(set)
  <2>1. Above(set, v) \in SUBSET (set \ {v})
    BY DEF Above, Numbers
  <2>2. IsFiniteSet(set \ {v}) /\ Cardinality(set \ {v}) = Cardinality(set) - 1
    BY FS_RemoveElement DEF Numbers
  <2>3. IsFiniteSet(Above(set, v)) /\ Cardinality(Above(set, v)) <= Cardinality(set) - 1
    BY <2>1, <2>2, FS_Subset
  <2>4. QED
    BY <2>2, <2>3, FS_CardinalityType DEF Numbers
<1>2. ASSUME NEW u \in set, t < u PROVE Cardinality(Above(set, u)) < Cardinality(Above(set, t))
  <2>1. \A v \in set : v > u => v > t
    BY <1>2 DEF Numbers
  <2>2. Above(set, u) \in SUBSET Above(set, t)
    BY <2>1 DEF Above
  <2>3. u \in Above(set, t) /\ u \notin Above(set, u)
    BY <1>2 DEF Above, Numbers
  <2>4. Cardinality(Above(set, u)) # Cardinality(Above(set, t))
    BY <1>1, <2>2, <2>3, FS_Subset
  <2>5. Cardinality(Above(set, u)) <= Cardinality(Above(set, t))
    BY <1>1, <2>2, FS_Subset
  <2>6. QED
    BY <1>1, <2>4, <2>5
<1>3. QED
  BY <1>1, <1>2

\* Counting what is above a member numbers the members: no number is left out.
LEMMA Ranks ==
    ASSUME NEW set, Numbers(set)
    PROVE  \A k \in 1 .. Cardinality(set) :
              \E t \in set : Cardinality(Above(set, t)) = k - 1
<1> DEFINE n == Cardinality(set)
           f == [t \in set |-> Cardinality(Above(set, t))]
<1>1. n \in Nat
  BY FS_CardinalityType DEF Numbers
<1>2. f \in [set -> 0 .. n - 1]
  <2>1. ASSUME NEW t \in set PROVE Cardinality(Above(set, t)) \in 0 .. n - 1
    BY <1>1, AboveShrinks
  <2>2. QED
    BY <2>1
<1>3. \A t, u \in set : f[t] = f[u] => t = u
  <2>1. ASSUME NEW t \in set, NEW u \in set, t < u PROVE f[t] # f[u]
    <3>1. /\ Cardinality(Above(set, t)) \in Int /\ Cardinality(Above(set, u)) \in Int
          /\ Cardinality(Above(set, u)) < Cardinality(Above(set, t))
      BY <1>1, <2>1, AboveShrinks
    <3>2. QED
      BY <3>1
  <2>2. \A t, u \in set : t = u \/ t < u \/ u < t
    BY DEF Numbers
  <2> HIDE DEF f
  <2>3. QED
    BY <2>1, <2>2
<1>4. IsFiniteSet(0 .. n - 1) /\ Cardinality(0 .. n - 1) = n
  BY <1>1, FS_Interval
<1>5. f \in Injection(set, 0 .. n - 1)
  <2> HIDE DEF f
  <2>1. QED
    BY <1>2, <1>3 DEF Injection, IsInjective
<1>6. f \in Surjection(set, 0 .. n - 1)
  BY <1>4, <1>5, FS_Injection
<1>7. ASSUME NEW k \in 1 .. n PROVE \E t \in set : f[t] = k - 1
  <2> HIDE DEF f
  <2>1. k - 1 \in 0 .. n - 1
    BY <1>1
  <2>2. QED
    BY <1>6, <2>1 DEF Surjection
<1>8. QED
  BY <1>7

LEMMA SameCardinality == \A set : H!Cardinality(set) = Cardinality(set)
  BY DEF Cardinality, H!Cardinality

\* The i-th newest task of a list.
LEMMA RankedIs ==
    ASSUME NEW set, Numbers(set), NEW i \in 1 .. Cardinality(set)
    PROVE  H!Ranked(set, i) \in set /\ Cardinality(Above(set, H!Ranked(set, i))) = i - 1
<1>1. \E t \in set : Cardinality(Above(set, t)) = i - 1
  BY Ranks
<1>2. H!Ranked(set, i) = CHOOSE t \in set : Cardinality(Above(set, t)) = i - 1
  BY SameCardinality DEF H!Ranked, Above
<1>3. QED
  BY <1>1, <1>2

\* A filter's list is a sequence of tasks, whatever has left the history.
LEMMA ListIsSeq ==
    ASSUME closed \subseteq H!Task, NEW filter
    PROVE  /\ Numbers(H!Matches(filter))
           /\ Len(H!Listed(filter)) = Cardinality(H!Matches(filter))
           /\ \A i \in 1 .. Len(H!Listed(filter)) :
                 H!Listed(filter)[i] = H!Ranked(H!Matches(filter), i)
           /\ H!Listed(filter) \in Seq(H!Task) /\ Len(H!Listed(filter)) \in Nat
<1> DEFINE set == H!Matches(filter)
           n == Cardinality(set)
<1>1. IsFiniteSet(H!Task) /\ H!Task \subseteq Int
  BY ShellAssumption, FS_Interval DEF H!Task, ShellAssumption
<1>2. set \in SUBSET H!Task
  BY DEF H!Matches
<1>3. IsFiniteSet(set) /\ n \in Nat
  BY <1>1, <1>2, FS_Subset, FS_CardinalityType
<1>4. H!Listed(filter) = [i \in 1 .. n |-> H!Ranked(set, i)]
  BY SameCardinality DEF H!Listed
<1> HIDE DEF set
<1>5. \A i \in 1 .. n : H!Ranked(set, i) \in H!Task
  <2>1. Numbers(set)
    BY <1>1, <1>2, <1>3 DEF Numbers
  <2>2. QED
    BY <1>2, <2>1, RankedIs
<1> HIDE DEF n
<1>6. H!Listed(filter) \in Seq(H!Task) /\ Len(H!Listed(filter)) = n
  BY <1>3, <1>4, <1>5
<1>7. \A i \in 1 .. n : H!Listed(filter)[i] = H!Ranked(set, i)
  BY <1>4
<1>8. QED
  BY <1>1, <1>2, <1>3, <1>6, <1>7 DEF n, set, Numbers

\* The rows are the first ones of the list, and hasMore says whether it goes on.
Prefix(list) ==
    /\ Len(rows) <= Len(list)
    /\ rows = SubSeq(list, 1, Len(rows))
    /\ hasMore = (Len(rows) < Len(list))

NewestShown == Prefix(H!Listed(tags))

RowsOK ==
    /\ closed \subseteq H!Task
    /\ rows # None => rows \in Seq(H!Task)
    /\ \A e \in edits : e.limit \in Nat
    /\ \A p \in pages : p.offset \in Nat /\ p.limit \in Nat

\* One request in flight at most: one that starts over, or one for the rows
\* after those on screen.  With none in flight the rows are the newest.
OneFlight ==
    history /\ ~crossed =>
       /\ \A p, q \in pages : p = q
       /\ \A p \in pages : p.tags = tags
       /\ \A p \in pages : p.replace => p.offset = 0
       /\ \A p \in pages : ~p.replace => rows # None /\ p.offset = Len(rows) /\ NewestShown
       /\ pages = {} /\ rows # None => NewestShown

HistoryInv == RowsOK /\ OneFlight

\* Nothing in flight and nothing on screen but one request for the first rows.
LEMMA RestartKeeps ==
    ASSUME RowsOK, history => OneFlight, NEW filter, H!Restart(filter), tags' = filter
    PROVE  HistoryInv'
<1>1. PAGE \in Nat
  BY ShellAssumption DEF ShellAssumption
<1> DEFINE page == [n |-> asked + 1, tags |-> filter, offset |-> 0, limit |-> PAGE, replace |-> TRUE]
<1>2. /\ rows' = None /\ closed' = closed /\ edits' = edits
      /\ pages' = pages \cup {page} /\ crossed' = (pages # {})
  BY DEF H!Restart, H!FetchPage
<1>3. page.offset = 0 /\ page.limit = PAGE /\ page.tags = filter /\ page.replace = TRUE
  OBVIOUS
<1> HIDE DEF page
<1>4. RowsOK'
  BY <1>1, <1>2, <1>3 DEF RowsOK, H!Task
<1>5. ASSUME ~crossed' PROVE pages' = {page}
  BY <1>2, <1>5
<1>6. OneFlight'
  BY <1>2, <1>3, <1>5 DEF OneFlight
<1>7. QED
  BY <1>4, <1>6 DEF HistoryInv


\* The answer to the one request in flight puts the newest rows on screen: from
\* the top, or after those that are there.
LEMMA PageAnswerKeeps ==
    ASSUME HistoryInv, NEW p \in pages, H!PageAnswer(p), UNCHANGED <<tags, history>>
    PROVE  HistoryInv'
<1> DEFINE last(list) == H!Smaller(p.offset + p.limit, Len(list))
           tasks(list) == SubSeq(list, p.offset + 1, last(list))
<1>1. /\ pages' = pages \ {p} /\ closed' = closed /\ crossed' = crossed /\ edits' = edits
      /\ rows' = IF p.replace \/ rows = None THEN H!Served(p).tasks ELSE rows \o H!Served(p).tasks
      /\ hasMore' = H!Served(p).hasMore
  BY DEF H!PageAnswer
<1>2. /\ H!Served(p).tasks = tasks(H!Listed(p.tags))
      /\ H!Served(p).hasMore = (p.offset + p.limit < Len(H!Listed(p.tags)))
  BY DEF H!Served
<1>3. PICK list : list = H!Listed(p.tags)
  OBVIOUS
<1>4. list \in Seq(H!Task) /\ Len(list) \in Nat
  BY <1>3, ListIsSeq DEF HistoryInv, RowsOK
<1>5. p.offset \in Nat /\ p.limit \in Nat
  BY DEF HistoryInv, RowsOK
<1>6. last(list) \in Nat /\ last(list) <= Len(list)
  BY <1>4, <1>5 DEF H!Smaller
<1>7. tasks(list) \in Seq(H!Task)
  BY <1>4, <1>5, <1>6, SubSeqProperties
<1>8. RowsOK'
  <2>1. rows' \in Seq(H!Task)
    BY <1>1, <1>2, <1>3, <1>7, ConcatProperties DEF HistoryInv, RowsOK
  <2>2. QED
    BY <1>1, <2>1 DEF HistoryInv, RowsOK, H!Task
<1>9. ASSUME history, ~crossed PROVE pages' = {} /\ NewestShown'
  <2>1. /\ pages' = {} /\ p.tags = tags
        /\ p.replace => p.offset = 0
        /\ ~p.replace => rows # None /\ p.offset = Len(rows) /\ NewestShown
    BY <1>1, <1>9 DEF HistoryInv, OneFlight
  <2>2. H!Listed(tags)' = list
    BY <1>1, <1>3, <2>1 DEF H!Listed, H!Matches, H!Ranked
  <2>3. hasMore' = (p.offset + p.limit < Len(list))
    BY <1>1, <1>2, <1>3
  <2>4. CASE p.replace
    <3>1. rows' = SubSeq(list, 1, last(list))
      <4>1. rows' = tasks(list)
        BY <1>1, <1>2, <1>3, <2>4
      <4>2. p.offset + 1 = 1
        BY <2>1, <2>4
      <4>3. QED
        BY <4>1, <4>2
    <3>2. Len(rows') = last(list)
      BY <1>4, <1>6, <3>1, SubSeqProperties
    <3>3. (last(list) < Len(list)) <=> (p.offset + p.limit < Len(list))
      BY <1>4, <1>5, <3>1 DEF H!Smaller
    <3>4. Prefix(list)'
      BY <1>6, <2>3, <3>1, <3>2, <3>3 DEF Prefix
    <3>5. QED
      BY <2>1, <2>2, <3>4 DEF NewestShown, Prefix
  <2>5. CASE ~p.replace
    <3>1. /\ rows # None /\ p.offset = Len(rows) /\ Prefix(list)
          /\ rows' = rows \o tasks(list)
      BY <1>1, <1>2, <1>3, <2>1, <2>5 DEF NewestShown
    <3>2. p.offset <= Len(list) /\ p.offset <= last(list)
      BY <1>4, <1>5, <3>1 DEF Prefix, H!Smaller
    <3>3. rows = SubSeq(list, 1, p.offset)
      BY <3>1 DEF Prefix
    <3>4. rows' = SubSeq(list, 1, last(list))
      <4> HIDE DEF last
      <4>1. /\ list \in Seq(H!Task) /\ 1 \in 1 .. Len(list) + 1
            /\ p.offset \in 1 - 1 .. Len(list) /\ last(list) \in p.offset .. Len(list)
        BY <1>4, <1>5, <1>6, <3>2
      <4>2. SubSeq(list, 1, p.offset) \o SubSeq(list, p.offset + 1, last(list))
              = SubSeq(list, 1, last(list))
        BY <4>1, ConcatAdjacentSubSeq
      <4>3. QED
        BY <3>1, <3>3, <4>2
    <3>5. Len(rows') = last(list)
      BY <1>4, <1>6, <3>4, SubSeqProperties
    <3>6. (last(list) < Len(list)) <=> (p.offset + p.limit < Len(list))
      BY <1>4, <1>5, <3>2 DEF H!Smaller
    <3>7. Prefix(list)'
      BY <1>6, <2>3, <3>4, <3>5, <3>6 DEF Prefix
    <3>8. QED
      BY <2>1, <2>2, <3>7 DEF NewestShown, Prefix
  <2>6. QED
    BY <2>4, <2>5
<1>10. OneFlight'
  BY <1>1, <1>9 DEF OneFlight
<1>11. QED
  BY <1>8, <1>10 DEF HistoryInv


\* A page lost or an edit refused: what is on screen stays.
LEMMA FailureKeeps ==
    ASSUME HistoryInv, UNCHANGED <<tags, history>>,
           \/ \E p \in pages : H!PageFail(p)
           \/ \E e \in edits : H!EditFails(e)
    PROVE  HistoryInv'
<1>1. /\ closed' = closed /\ rows' = rows /\ hasMore' = hasMore
      /\ pages' \subseteq pages /\ edits' \subseteq edits
  BY DEF H!PageFail, H!EditFails
<1>2. NewestShown' <=> NewestShown
  BY <1>1 DEF NewestShown, Prefix, H!Listed, H!Matches, H!Ranked
<1>3. RowsOK'
  BY <1>1 DEF HistoryInv, RowsOK, H!Task
<1>4. ASSUME ~crossed' PROVE ~crossed /\ (pages' = {} /\ pages # {} => \E p \in pages : ~p.replace)
  <2>1. CASE \E e \in edits : H!EditFails(e)
    BY <1>4, <2>1 DEF H!EditFails
  <2>2. ASSUME NEW p \in pages, H!PageFail(p)
        PROVE  ~crossed /\ (pages' = {} /\ pages # {} => \E q \in pages : ~q.replace)
    <3>1. crossed' = (crossed \/ p.replace)
      BY <2>2 DEF H!PageFail
    <3>2. ~crossed /\ ~p.replace
      BY <1>4, <3>1
    <3>3. QED
      BY <3>2
  <2>3. QED
    BY <2>1, <2>2
<1>5. OneFlight'
  BY <1>1, <1>2, <1>4 DEF HistoryInv, OneFlight
<1>6. QED
  BY <1>3, <1>5 DEF HistoryInv

\* "Load more" asks for the rows after those on screen.
LEMMA LoadMoreKeeps ==
    ASSUME HistoryInv, H!LoadMore, UNCHANGED <<tags, history>>
    PROVE  HistoryInv'
<1> DEFINE page == [n |-> asked + 1, tags |-> tags, offset |-> Len(rows), limit |-> PAGE, replace |-> FALSE]
<1>1. /\ closed' = closed /\ rows' = rows /\ hasMore' = hasMore /\ edits' = edits
      /\ pages' = pages \cup {page} /\ rows # None
  BY DEF H!LoadMore, H!FetchPage
<1>2. /\ page.offset = Len(rows) /\ page.limit = PAGE /\ page.tags = tags /\ page.replace = FALSE
  OBVIOUS
<1> HIDE DEF page
<1>3. ASSUME ~crossed' PROVE ~crossed /\ pages = {} /\ pages' = {page}
  BY <1>1, <1>3 DEF H!LoadMore
<1>4. NewestShown' <=> NewestShown
  BY <1>1 DEF NewestShown, Prefix, H!Listed, H!Matches, H!Ranked
<1>5. Len(rows) \in Nat /\ PAGE \in Nat
  BY <1>1, ShellAssumption DEF HistoryInv, RowsOK, ShellAssumption
<1>6. RowsOK'
  BY <1>1, <1>2, <1>5 DEF HistoryInv, RowsOK, H!Task
<1>7. OneFlight'
  BY <1>1, <1>2, <1>3, <1>4 DEF HistoryInv, OneFlight
<1>8. QED
  BY <1>6, <1>7 DEF HistoryInv

\* An edit remembers how many rows there were and what they were filtered by.
LEMMA StartEditKeeps ==
    ASSUME HistoryInv, H!StartEdit, UNCHANGED <<tags, history>>
    PROVE  HistoryInv'
<1>1. /\ UNCHANGED <<closed, rows, hasMore, pages, crossed>> /\ rows # None
      /\ edits' = {[tags |-> tags, limit |-> H!Smaller(MAX_LIMIT, H!Larger(PAGE, Len(rows)))]}
  BY DEF H!StartEdit
<1>2. Len(rows) \in Nat /\ PAGE \in Nat /\ MAX_LIMIT \in Nat
  BY <1>1, ShellAssumption DEF HistoryInv, RowsOK, ShellAssumption
<1>3. \A e \in edits' : e.limit \in Nat
  BY <1>1, <1>2 DEF H!Smaller, H!Larger
<1>4. NewestShown' <=> NewestShown
  BY <1>1 DEF NewestShown, Prefix, H!Listed, H!Matches, H!Ranked
<1>5. RowsOK'
  BY <1>1, <1>3 DEF HistoryInv, RowsOK, H!Task
<1>6. OneFlight'
  BY <1>1, <1>4 DEF HistoryInv, OneFlight
<1>7. QED
  BY <1>5, <1>6 DEF HistoryInv

\* An edit done reloads as many rows from the top, whatever has left the list.
LEMMA EditDoneKeeps ==
    ASSUME HistoryInv, NEW e \in edits, NEW gone, H!EditDone(e, gone), UNCHANGED <<tags, history>>
    PROVE  HistoryInv'
<1> DEFINE page == [n |-> asked + 1, tags |-> e.tags, offset |-> 0, limit |-> e.limit, replace |-> TRUE]
<1>1. /\ closed' = closed \ gone /\ rows' = rows /\ edits' = {} /\ pages' = pages \cup {page}
  BY DEF H!EditDone, H!FetchPage
<1>2. /\ page.offset = 0 /\ page.limit = e.limit /\ page.tags = e.tags /\ page.replace = TRUE
  OBVIOUS
<1> HIDE DEF page
<1>3. ASSUME ~crossed' PROVE pages' = {page} /\ e.tags = tags
  <2>1. crossed' = (crossed \/ pages # {} \/ e.tags # tags)
    BY DEF H!EditDone
  <2>2. pages = {} /\ e.tags = tags
    BY <1>3, <2>1
  <2>3. QED
    BY <1>1, <2>2
<1>4. e.limit \in Nat
  BY DEF HistoryInv, RowsOK
<1>5. RowsOK'
  <2>1. \A p \in pages' : p.offset \in Nat /\ p.limit \in Nat
    BY <1>1, <1>2, <1>4 DEF HistoryInv, RowsOK
  <2>2. closed' \subseteq H!Task' /\ (rows' # None => rows' \in Seq(H!Task))
    BY <1>1 DEF HistoryInv, RowsOK, H!Task
  <2>3. QED
    BY <1>1, <2>1, <2>2 DEF RowsOK
<1>6. OneFlight'
  BY <1>1, <1>2, <1>3 DEF OneFlight
<1>7. QED
  BY <1>5, <1>6 DEF HistoryInv

LEMMA HistoryStepsKeep ==
    ASSUME HistoryInv, HistorySteps
    PROVE  HistoryInv'
<1>1. UNCHANGED <<tags, history>>
  BY DEF HistorySteps, shell
<1>2. CASE H!LoadMore
  BY <1>1, <1>2, LoadMoreKeeps
<1>3. CASE H!StartEdit
  BY <1>1, <1>3, StartEditKeeps
<1>4. ASSUME NEW p \in pages, H!PageAnswer(p) PROVE HistoryInv'
  BY <1>1, <1>4, PageAnswerKeeps
<1>5. ASSUME NEW p \in pages, H!PageFail(p) PROVE HistoryInv'
  BY <1>1, <1>5, FailureKeeps
<1>6. ASSUME NEW e \in edits, H!EditFails(e) PROVE HistoryInv'
  BY <1>1, <1>6, FailureKeeps
<1>7. ASSUME NEW e \in edits, NEW gone, H!EditDone(e, gone) PROVE HistoryInv'
  BY <1>1, <1>7, EditDoneKeeps
<1>8. ASSUME NEW t, H!TaskLeaves(t) PROVE HistoryInv'
  <2>1. /\ closed' = closed \ {t} /\ UNCHANGED <<rows, pages, edits>> /\ crossed' = TRUE
    BY <1>8 DEF H!TaskLeaves
  <2>2. QED
    BY <2>1 DEF HistoryInv, RowsOK, OneFlight, H!Task
<1>9. QED
  BY <1>2, <1>3, <1>4, <1>5, <1>6, <1>7, <1>8 DEF HistorySteps

\* With the view gone there is nothing to show.
LEMMA ResetKeeps ==
    ASSUME H!Reset, history' = FALSE
    PROVE  HistoryInv'
<1>1. RowsOK'
  BY DEF H!Reset, RowsOK, H!Task
<1>2. OneFlight'
  BY DEF OneFlight
<1>3. QED
  BY <1>1, <1>2 DEF HistoryInv

LEMMA HistoryRest ==
    ASSUME HistoryInv, UNCHANGED <<tags, team>>
    PROVE  HistoryInv'
<1>1. UNCHANGED <<tags, history, closed, rows, hasMore, pages, crossed, edits>>
  BY DEF team
<1>2. NewestShown' <=> NewestShown
  BY <1>1 DEF NewestShown, Prefix, H!Listed, H!Matches, H!Ranked
<1>3. QED
  BY <1>1, <1>2 DEF HistoryInv, RowsOK, OneFlight, H!Task

LEMMA HistoryNext ==
    ASSUME HistoryInv, [Next]_vars
    PROVE  HistoryInv'
<1>1. ASSUME NEW t, SetTab(t) PROVE HistoryInv'
  BY <1>1, ResetKeeps DEF SetTab
<1>2. ASSUME NEW p, PeriodNav(p) PROVE HistoryInv'
  BY <1>2, HistoryRest DEF PeriodNav
<1>3. ASSUME NEW new, SetTags(new) PROVE HistoryInv'
  <2>1. tags' = new
    BY <1>3 DEF SetTags
  <2>2. CASE history
    BY <1>3, <2>1, <2>2, RestartKeeps DEF SetTags, HistoryInv
  <2>3. CASE ~history
    <3>1. UNCHANGED <<history, closed, rows, pages, edits>>
      BY <1>3, <2>3 DEF SetTags, team
    <3>2. QED
      BY <2>3, <3>1 DEF HistoryInv, RowsOK, OneFlight, H!Task
  <2>4. QED
    BY <2>2, <2>3
<1>4. CASE Created \/ OpenSummary \/ RequestClose \/ CloseSummary
  BY <1>4, HistoryRest DEF Created, OpenSummary, RequestClose, CloseSummary, shell
<1>5. CASE ViewOlder
  BY <1>5, RestartKeeps DEF ViewOlder, HistoryInv, shell
<1>6. CASE BackToBoard
  BY <1>6, ResetKeeps DEF BackToBoard
<1>7. CASE HistorySteps
  BY <1>7, HistoryStepsKeep
<1>8. CASE ListSteps \/ SearchDue \/ ListAnswers \/ AssignSteps \/ SummarySteps
  BY <1>8, HistoryRest DEF ListSteps, SearchDue, ListAnswers, AssignSteps, SummarySteps, shell
<1>9. CASE UNCHANGED vars
  BY <1>9, HistoryRest DEF vars, shell
<1>10. QED
  BY <1>1, <1>2, <1>3, <1>4, <1>5, <1>6, <1>7, <1>8, <1>9 DEF Next, Toggle

\* However pages, edits, failures and filter changes follow one another, the
\* rows are the first ones of the list the filter asks for, and "Load more" is
\* offered exactly when it goes on, unless requests crossed, the filter was
\* changed during an edit, a reload was lost or another client changed the
\* history (TeamHistory.tsx:74-105).
THEOREM HistoryShowsNewest == Spec => []HistoryShowsNewestRows
<1>1. Init => HistoryInv
  BY DEF Init, H!Blank, HistoryInv, RowsOK, OneFlight, H!Task
<1>2. HistoryInv => HistoryShowsNewestRows
  BY DEF HistoryInv, OneFlight, NewestShown, Prefix, HistoryShowsNewestRows, H!ShowsNewestRows
<1>3. QED
  BY <1>1, <1>2, HistoryNext, PTL DEF Spec
===============================================================================
