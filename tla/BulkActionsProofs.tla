--------------------------- MODULE BulkActionsProofs ---------------------------
(***************************************************************************)
(* Proofs about BulkActions, for any tasks, members, series and starts, and *)
(* any number of acts and reloads.                                          *)
(***************************************************************************)
EXTENDS BulkActions, FiniteSetTheorems, SequenceTheorems, TLAPS

-------------------------------------------------------------------------------
(* Sequences of operations: what they hold does not matter here.             *)

IsSeq(s) == \E S : s \in Seq(S)

LEMMA AppendIs ==
    ASSUME NEW s, NEW e, IsSeq(s)
    PROVE  /\ IsSeq(Append(s, e)) /\ Len(s) \in Nat /\ Len(Append(s, e)) = Len(s) + 1
           /\ Append(s, e)[Len(s) + 1] = e
           /\ \A j \in 1..Len(s) : Append(s, e)[j] = s[j]
<1>1. PICK S : s \in Seq(S)
  BY DEF IsSeq
<1>2. s \in Seq(S \cup {e}) /\ e \in S \cup {e}
  BY <1>1
<1>3. Append(s, e) \in Seq(S \cup {e})
  BY <1>2
<1> QED
  BY <1>2, <1>3, AppendProperties DEF IsSeq

LEMMA ExceptIs ==
    ASSUME NEW s, IsSeq(s), NEW i \in 1..Len(s), NEW e
    PROVE  /\ IsSeq([s EXCEPT ![i] = e]) /\ Len([s EXCEPT ![i] = e]) = Len(s)
           /\ [s EXCEPT ![i] = e][i] = e
           /\ \A j \in 1..Len(s) : j # i => [s EXCEPT ![i] = e][j] = s[j]
<1>1. PICK S : s \in Seq(S)
  BY DEF IsSeq
<1>2. s \in Seq(S \cup {e}) /\ e \in S \cup {e}
  BY <1>1
<1>3. [s EXCEPT ![i] = e] \in Seq(S \cup {e}) /\ Len([s EXCEPT ![i] = e]) = Len(s)
  BY <1>2
<1> QED
  BY <1>2, <1>3 DEF IsSeq

\* Where the j-th of what is left was.
Before(i, j) == IF j < i THEN j ELSE j + 1

LEMMA WithoutIs ==
    ASSUME NEW s, IsSeq(s), NEW i \in 1..Len(s)
    PROVE  /\ IsSeq(Without(s, i)) /\ Len(s) \in Nat /\ Len(Without(s, i)) = Len(s) - 1
           /\ \A j \in 1..Len(Without(s, i)) :
                 /\ Before(i, j) \in 1..Len(s) /\ Before(i, j) # i
                 /\ Without(s, i)[j] = s[Before(i, j)]
<1> DEFINE n == Len(s)
           x == SubSeq(s, 1, i - 1)
           y == SubSeq(s, i + 1, n)
<1>1. PICK S : s \in Seq(S)
  BY DEF IsSeq
<1>2. n \in Nat /\ i \in Int /\ 1 <= i /\ i <= n /\ \A j \in 1..n : s[j] \in S
  BY <1>1
<1>3. x \in Seq(S) /\ Len(x) = i - 1 /\ \A k \in 1..(i - 1) : x[k] = s[k]
  <2>1. 1 \in Int /\ i - 1 \in Int /\ \A j \in 1..(i - 1) : s[j] \in S
    BY <1>2
  <2>2. /\ x \in Seq(S)
        /\ Len(x) = IF 1 <= i - 1 THEN (i - 1) - 1 + 1 ELSE 0
        /\ \A k \in 1..((i - 1) - 1 + 1) : x[k] = s[1 + k - 1]
    BY <2>1, SubSeqProperties
  <2> HIDE DEF x
  <2> QED
    BY <1>2, <2>2
<1>4. y \in Seq(S) /\ Len(y) = n - i /\ \A k \in 1..(n - i) : y[k] = s[i + k]
  <2>1. i + 1 \in Int /\ n \in Int /\ \A j \in (i + 1)..n : s[j] \in S
    BY <1>2
  <2>2. /\ y \in Seq(S)
        /\ Len(y) = IF i + 1 <= n THEN n - (i + 1) + 1 ELSE 0
        /\ \A k \in 1..(n - (i + 1) + 1) : y[k] = s[(i + 1) + k - 1]
    BY <2>1, SubSeqProperties
  <2> HIDE DEF y, n
  <2> QED
    BY <1>2, <2>2
<1>5. Without(s, i) = x \o y
  BY DEF Without
<1> HIDE DEF x, y, n
<1>6. /\ x \o y \in Seq(S) /\ Len(x \o y) = Len(x) + Len(y)
      /\ \A k \in 1..(Len(x) + Len(y)) :
            (x \o y)[k] = IF k <= Len(x) THEN x[k] ELSE y[k - Len(x)]
  BY <1>3, <1>4, ConcatProperties
<1>7. Len(x) + Len(y) = n - 1
  BY <1>2, <1>3, <1>4
<1>8. ASSUME NEW j \in 1..(n - 1)
      PROVE  /\ Before(i, j) \in 1..n /\ Before(i, j) # i
             /\ (x \o y)[j] = s[Before(i, j)]
  <2>1. j \in Int /\ 1 <= j /\ j <= n - 1
    BY <1>2
  <2>2. CASE j < i
    <3>1. j \in 1..(i - 1) /\ j <= Len(x)
      BY <1>2, <1>3, <2>1, <2>2
    <3> QED
      BY <1>2, <1>3, <1>6, <1>7, <2>1, <2>2, <3>1 DEF Before
  <2>3. CASE ~(j < i)
    <3>1. j - (i - 1) \in 1..(n - i) /\ ~(j <= Len(x)) /\ i + (j - (i - 1)) = j + 1
      BY <1>2, <1>3, <2>1, <2>3
    <3>2. (x \o y)[j] = y[j - (i - 1)]
      BY <1>3, <1>6, <1>7, <3>1
    <3>3. y[j - (i - 1)] = s[j + 1]
      BY <1>4, <3>1
    <3> QED
      BY <1>2, <2>1, <2>3, <3>2, <3>3 DEF Before
  <2> QED
    BY <2>2, <2>3
<1> QED
  BY <1>2, <1>5, <1>6, <1>7, <1>8 DEF IsSeq, n

-------------------------------------------------------------------------------
(* Rows and patches.                                                        *)

\* A row of t the server may have.
Good(t, row) ==
    row \in Row /\ Sound(row) /\ (row.home = "pool" => series[t] = None)

IsPatch(p) ==
    /\ DOMAIN p \subseteq Field
    /\ "home" \in DOMAIN p => p.home \in {"team", "personal", "pool"}
    /\ "status" \in DOMAIN p => p.status \in Status
    /\ "week" \in DOMAIN p => p.week \in {"past", "now", None}
    /\ "due" \in DOMAIN p => p.due \in {"past", "today", "later", None}
    /\ "period" \in DOMAIN p => p.period \in Int \cup {None}
    /\ "who" \in DOMAIN p => p.who \in Member \cup {None}

LEMMA WithIs ==
    ASSUME NEW row \in Row, NEW p, IsPatch(p)
    PROVE  /\ With(row, p) \in Row
           /\ With(row, p).home = IF "home" \in DOMAIN p THEN p.home ELSE row.home
           /\ With(row, p).status = IF "status" \in DOMAIN p THEN p.status ELSE row.status
           /\ With(row, p).week = IF "week" \in DOMAIN p THEN p.week ELSE row.week
           /\ With(row, p).due = IF "due" \in DOMAIN p THEN p.due ELSE row.due
           /\ With(row, p).period = IF "period" \in DOMAIN p THEN p.period ELSE row.period
           /\ With(row, p).who = IF "who" \in DOMAIN p THEN p.who ELSE row.who
<1>1. /\ With(row, p).home = IF "home" \in DOMAIN p THEN p.home ELSE row.home
      /\ With(row, p).status = IF "status" \in DOMAIN p THEN p.status ELSE row.status
      /\ With(row, p).week = IF "week" \in DOMAIN p THEN p.week ELSE row.week
      /\ With(row, p).due = IF "due" \in DOMAIN p THEN p.due ELSE row.due
      /\ With(row, p).period = IF "period" \in DOMAIN p THEN p.period ELSE row.period
      /\ With(row, p).who = IF "who" \in DOMAIN p THEN p.who ELSE row.who
  BY DEF With, Field
<1>2. With(row, p) = [home |-> With(row, p).home, status |-> With(row, p).status,
                      week |-> With(row, p).week, due |-> With(row, p).due,
                      period |-> With(row, p).period, who |-> With(row, p).who]
  BY DEF With, Field
<1>3. /\ With(row, p).home \in {"team", "personal", "pool"}
      /\ With(row, p).status \in Status
      /\ With(row, p).week \in {"past", "now", None}
      /\ With(row, p).due \in {"past", "today", "later", None}
      /\ With(row, p).period \in Int \cup {None}
      /\ With(row, p).who \in Member \cup {None}
  BY <1>1 DEF IsPatch, Row
<1> HIDE DEF With
<1> QED
  BY <1>1, <1>2, <1>3 DEF Row

\* The week Patched gives.
WeekOf(row, p) ==
    LET new == With(row, p)
    IN  IF new.home # "team" THEN None
        ELSE IF Open(row) /\ ~Open(new) THEN "now"
        ELSE IF "week" \in DOMAIN p THEN new.week
        ELSE IF row.home # "team" THEN "now"
        ELSE row.week

LEMMA PatchedIs ==
    ASSUME NEW row \in Row, NEW p, IsPatch(p)
    PROVE  /\ Patched(row, p) \in Row
           /\ Patched(row, p).home = IF "home" \in DOMAIN p THEN p.home ELSE row.home
           /\ Patched(row, p).status = IF "status" \in DOMAIN p THEN p.status ELSE row.status
           /\ Patched(row, p).week = WeekOf(row, p)
           /\ Patched(row, p).due = IF "due" \in DOMAIN p THEN p.due ELSE row.due
           /\ Patched(row, p).period = IF "period" \in DOMAIN p THEN p.period ELSE row.period
           /\ Patched(row, p).who = IF "who" \in DOMAIN p THEN p.who ELSE row.who
<1>1. PICK new : new = With(row, p)
  OBVIOUS
<1>2. /\ new \in Row
      /\ new.home = IF "home" \in DOMAIN p THEN p.home ELSE row.home
      /\ new.status = IF "status" \in DOMAIN p THEN p.status ELSE row.status
      /\ new.week = IF "week" \in DOMAIN p THEN p.week ELSE row.week
      /\ new.due = IF "due" \in DOMAIN p THEN p.due ELSE row.due
      /\ new.period = IF "period" \in DOMAIN p THEN p.period ELSE row.period
      /\ new.who = IF "who" \in DOMAIN p THEN p.who ELSE row.who
  BY <1>1, WithIs
<1>3. Patched(row, p) = [new EXCEPT !.week = WeekOf(row, p)]
  BY <1>1 DEF Patched, WeekOf
<1>4. WeekOf(row, p) \in {"past", "now", None}
  BY <1>1, <1>2 DEF WeekOf, Row
<1>5. Patched(row, p) = [home |-> new.home, status |-> new.status, week |-> WeekOf(row, p),
                         due |-> new.due, period |-> new.period, who |-> new.who]
  BY <1>2, <1>3 DEF Row
<1>6. Patched(row, p) \in Row
  BY <1>2, <1>4, <1>5 DEF Row
<1> QED
  BY <1>2, <1>5, <1>6

\* The week stays where the home and the status do.
LEMMA WeekStays ==
    ASSUME NEW row \in Row, Sound(row), NEW p, IsPatch(p),
           DOMAIN p \cap {"home", "status", "week"} = {}
    PROVE  WeekOf(row, p) = row.week
BY WithIs DEF WeekOf, Open, Sound

LEMMA SameRow ==
    ASSUME NEW row \in Row, NEW l \in Row,
           l.home = row.home, l.status = row.status, l.week = row.week,
           l.due = row.due, l.period = row.period, l.who = row.who
    PROVE  l = row
BY DEF Row

\* Refused, of a task without relatives that is not blocked.
RefusedAlone(t, row, p) ==
    LET new == With(row, p)
    IN  \/ role = "USER" /\ (row.home = "team") # (new.home = "team")
        \/ role = "USER" /\ "week" \in DOMAIN p
        \/ "week" \in DOMAIN p /\ (new.home # "team" \/ new.week = None)
        \/ new.home = "pool" /\ (new.due # None \/ series[t] # None)
        \/ (new.home = "pool") # (new.period = None)
        \/ new.home # "team" /\ new.who # None

LEMMA AloneIs ==
    ASSUME NEW t \in Task, NEW p, Exists(t), parent[t] = None, Children(t) = {},
           ~RefusedAlone(t, srv[t], p), ~Blocked(t, p)
    PROVE  ~Refused(t, p)
BY DEF Refused, RefusedAlone, Blocked

\* What the server accepts leaves a good row.
LEMMA AcceptedIsGood ==
    ASSUME NEW t \in Task, NEW p, IsPatch(p), Exists(t), Good(t, srv[t]), ~Refused(t, p)
    PROVE  Good(t, Patched(srv[t], p))
<1>1. PICK row : row = srv[t]
  OBVIOUS
<1>2. PICK new : new = With(row, p)
  OBVIOUS
<1>3. row \in Row /\ Sound(row)
  BY <1>1 DEF Good
<1>4. /\ "week" \in DOMAIN p => new.home = "team" /\ new.week # None
      /\ new.home = "pool" => new.due = None /\ series[t] = None
      /\ (new.home = "pool") = (new.period = None)
      /\ new.home # "team" => new.who = None
  BY <1>1, <1>2 DEF Refused
<1>5. /\ new.home = IF "home" \in DOMAIN p THEN p.home ELSE row.home
      /\ new.status = IF "status" \in DOMAIN p THEN p.status ELSE row.status
      /\ new.week = IF "week" \in DOMAIN p THEN p.week ELSE row.week
      /\ new.due = IF "due" \in DOMAIN p THEN p.due ELSE row.due
      /\ new.period = IF "period" \in DOMAIN p THEN p.period ELSE row.period
      /\ new.who = IF "who" \in DOMAIN p THEN p.who ELSE row.who
  BY <1>2, <1>3, WithIs
<1>6. (new.home = "team") = (WeekOf(row, p) # None)
  BY <1>2, <1>3, <1>4, BulkAssumption DEF WeekOf, Sound
<1> QED
  BY <1>1, <1>3, <1>4, <1>5, <1>6, PatchedIs DEF Good, Sound

\* A task moved to today.
AtToday(row) == [row EXCEPT !.period = 0, !.due = IF @ = None THEN None ELSE "today"]

LEMMA TodayIs ==
    ASSUME NEW row \in Row, NEW l, l = AtToday(row)
    PROVE  /\ l \in Row /\ l.home = row.home /\ l.status = row.status /\ l.week = row.week
           /\ l.period = 0 /\ l.who = row.who
<1>1. row = [home |-> row.home, status |-> row.status, week |-> row.week, due |-> row.due,
             period |-> row.period, who |-> row.who]
  BY DEF Row
<1>2. PICK due : due = IF row.due = None THEN None ELSE "today"
  OBVIOUS
<1>3. l = [row EXCEPT !.period = 0, !.due = due]
  BY <1>2 DEF AtToday
<1>4. l = [home |-> row.home, status |-> row.status, week |-> row.week, due |-> due,
           period |-> 0, who |-> row.who]
  BY ONLY <1>1, <1>3
<1>5. due \in {"past", "today", "later", None} /\ 0 \in Int
  BY <1>2
<1> QED
  BY <1>4, <1>5 DEF Row

-------------------------------------------------------------------------------
(* What is offered, and what its undo gives back.                           *)

\* The undo u of a kind of operation, from the row l it left, is accepted and
\* gives the row w back; but for the week of a team's task that ended, where
\* WeekIsKept excepts it.
Back(kind, t, w, l, u) ==
    ~(kind = "done" /\ w.home = "team" /\ (view = "attention" \/ role = "USER")) =>
        ~RefusedAlone(t, l, u) /\ Patched(l, u) = w

\* What the request q makes of a row.
Made(row, q) ==
    IF q.do = "today" THEN AtToday(row) ELSE Patched(row, q.set)

\* A page shows t as row: q is accepted of it, and u undoes it.
Offer(kind, t, row, q, u) ==
    /\ q.do \in {"patch", "today"}
    /\ q.do = "patch" => IsPatch(q.set) /\ ~RefusedAlone(t, row, q.set)
    /\ IsPatch(u)
    /\ Back(kind, t, row, Made(row, q), u)

\* The page is one of four, and the queue and the backlog are an admin's.
Place ==
    /\ view \in View /\ role \in {"ADMIN", "USER"}
    /\ view \in {"rollover", "backlog"} => role = "ADMIN"
    /\ parent \in [Task -> Task \cup {None}]
    /\ \A t \in Task : parent[t] # t

\* The board sets one of three columns.
LEMMA OfferBoard ==
    ASSUME Place, NEW kind, kind # "done", NEW t \in Task, NEW row, Good(t, row),
           NEW f \in {"who", "due"}, row.home = "team" \/ (f = "due" /\ row.home # "pool"),
           NEW p, NEW u, DOMAIN p = {f}, DOMAIN u = {f},
           f = "who" => p.who \in Member \cup {None} /\ u.who = row.who,
           f = "due" => p.due \in {"past", "today", "later", None} /\ u.due = row.due
    PROVE  Offer(kind, t, row, Patch(p), u)
<1>1. row \in Row /\ Sound(row) /\ IsPatch(p) /\ IsPatch(u)
  BY DEF Good, IsPatch, Field, Row
<1>2. ~RefusedAlone(t, row, p)
  BY <1>1, WithIs, BulkAssumption DEF RefusedAlone, Sound, Good
<1>3. PICK l : l = Patched(row, p)
  OBVIOUS
<1>4. /\ l \in Row /\ l.home = row.home /\ l.status = row.status /\ l.week = row.week
      /\ l.period = row.period /\ l.due = IF f = "due" THEN p.due ELSE row.due
      /\ l.who = IF f = "who" THEN p.who ELSE row.who
  BY <1>1, <1>3, WeekStays, PatchedIs
<1>5. ~RefusedAlone(t, l, u)
  BY <1>1, <1>4, WithIs DEF RefusedAlone, Sound, Good
<1>6. Sound(l)
  BY <1>1, <1>4 DEF Sound, Good
<1>7. WeekOf(l, u) = row.week
  BY <1>1, <1>4, <1>6, WeekStays
<1>8. Patched(l, u) = row
  BY <1>1, <1>4, <1>7, PatchedIs, SameRow
<1> QED
  BY <1>1, <1>2, <1>3, <1>5, <1>8 DEF Offer, Patch, Made, Back

\* Marking done, and the queue's two ends, with or without the week's undo.
LEMMA OfferEnd ==
    ASSUME Place, NEW kind, NEW t \in Task, NEW row, Good(t, row),
           NEW s \in {"done", "cancelled"},
           NEW u, u.status = row.status,
           \/ DOMAIN u = {"status", "week"} /\ u.week = row.week /\ row.home = "team"
              /\ (kind = "done" \/ role = "ADMIN")
           \/ DOMAIN u = {"status"} /\ (row.home # "team" \/ (kind = "done" /\ view = "attention"))
    PROVE  Offer(kind, t, row, Patch([status |-> s]), u)
<1> DEFINE p == [status |-> s]
<1>1. row \in Row /\ Sound(row) /\ IsPatch(p) /\ IsPatch(u)
  BY DEF Good, IsPatch, Field, Row, Status
<1>2. DOMAIN p = {"status"} /\ p.status = s
  OBVIOUS
<1> HIDE DEF p
<1>3. ~RefusedAlone(t, row, p)
  BY <1>1, <1>2, WithIs DEF RefusedAlone, Sound, Good
<1>4. SUFFICES ASSUME ~(kind = "done" /\ row.home = "team" /\ (view = "attention" \/ role = "USER"))
               PROVE  ~RefusedAlone(t, Patched(row, p), u) /\ Patched(Patched(row, p), u) = row
  BY <1>1, <1>3 DEF Offer, Patch, Made, Back, p
<1>5. PICK l : l = Patched(row, p)
  OBVIOUS
<1>6. /\ l \in Row /\ l.home = row.home /\ l.status = s /\ l.due = row.due /\ l.who = row.who
      /\ l.period = row.period
      /\ l.week = IF row.home # "team" THEN None ELSE IF Open(row) THEN "now" ELSE row.week
  <2>1. WeekOf(row, p) = IF row.home # "team" THEN None ELSE IF Open(row) THEN "now" ELSE row.week
    BY <1>1, <1>2, WithIs DEF WeekOf, Open, Sound
  <2> QED
    BY <1>1, <1>2, <1>5, <2>1, PatchedIs
<1>7. row.home # "team" \/ (DOMAIN u = {"status", "week"} /\ u.week = row.week /\ role = "ADMIN")
  BY <1>4 DEF Place
<1>8. ~RefusedAlone(t, l, u)
  BY <1>1, <1>6, <1>7, WithIs DEF RefusedAlone, Sound, Good
<1>9. ~Open(l)
  BY <1>6 DEF Open
<1>10. WeekOf(l, u) = row.week
  BY <1>1, <1>6, <1>7, <1>9, WithIs DEF WeekOf, Sound
<1>12. Patched(l, u) = row
  BY <1>1, <1>6, <1>7, <1>10, PatchedIs, SameRow
<1> QED
  BY <1>5, <1>8, <1>12

\* The queue moves a task to this week.
LEMMA OfferMove ==
    ASSUME Place, role = "ADMIN", NEW kind, NEW t \in Task, NEW row, Good(t, row),
           row.home = "team"
    PROVE  Offer(kind, t, row, Patch([week |-> "now"]), [week |-> row.week])
<1> DEFINE p == [week |-> "now"]
           u == [week |-> row.week]
<1>1. row \in Row /\ Sound(row) /\ IsPatch(p) /\ IsPatch(u)
  BY DEF Good, IsPatch, Field, Row
<1>2. DOMAIN p = {"week"} /\ p.week = "now" /\ DOMAIN u = {"week"} /\ u.week = row.week
  OBVIOUS
<1> HIDE DEF p, u
<1>3. ~RefusedAlone(t, row, p)
  BY <1>1, <1>2, WithIs, BulkAssumption DEF RefusedAlone, Sound, Good
<1>5. PICK l : l = Patched(row, p)
  OBVIOUS
<1>6. /\ l \in Row /\ l.home = "team" /\ l.status = row.status /\ l.week = "now"
      /\ l.due = row.due /\ l.period = row.period /\ l.who = row.who
  <2>1. WeekOf(row, p) = "now"
    BY <1>1, <1>2, WithIs DEF WeekOf, Open
  <2> QED
    BY <1>1, <1>2, <1>5, <2>1, PatchedIs
<1>8. ~RefusedAlone(t, l, u)
  BY <1>1, <1>2, <1>6, WithIs DEF RefusedAlone, Sound, Good
<1>10. WeekOf(l, u) = row.week
  BY <1>1, <1>2, <1>6, WithIs DEF WeekOf, Open
<1>12. Patched(l, u) = row
  BY <1>1, <1>2, <1>6, <1>10, PatchedIs, SameRow
<1> QED
  BY <1>1, <1>3, <1>5, <1>8, <1>12 DEF Offer, Patch, Made, Back, p, u

\* Attention: to the current period, and due today if due at all.
LEMMA OfferToday ==
    ASSUME Place, NEW kind, NEW t \in Task, NEW row, Good(t, row), row.home # "pool"
    PROVE  Offer(kind, t, row, Simply("today"), [period |-> row.period, due |-> row.due])
<1> DEFINE u == [period |-> row.period, due |-> row.due]
<1>1. row \in Row /\ Sound(row) /\ IsPatch(u)
  BY DEF Good, IsPatch, Field, Row
<1>2. DOMAIN u = {"period", "due"} /\ u.period = row.period /\ u.due = row.due
  OBVIOUS
<1> HIDE DEF u
<1>5. PICK l : l = AtToday(row)
  OBVIOUS
<1>6. /\ l \in Row /\ l.home = row.home /\ l.status = row.status /\ l.week = row.week
      /\ l.who = row.who
  BY <1>1, <1>5, TodayIs
<1>8. ~RefusedAlone(t, l, u)
  BY <1>1, <1>2, <1>6, WithIs DEF RefusedAlone, Sound, Good
<1>10. WeekOf(l, u) = row.week
  BY <1>1, <1>2, <1>6, WithIs DEF WeekOf, Open, Sound
<1>12. Patched(l, u) = row
  BY <1>1, <1>2, <1>6, <1>10, PatchedIs, SameRow
<1> QED
  BY <1>1, <1>5, <1>8, <1>12 DEF Offer, Simply, Made, Back, u

\* Attention: to the period of a day, and due then if due at all.
LEMMA OfferLater ==
    ASSUME Place, NEW kind, kind # "done", NEW t \in Task, NEW row, Good(t, row),
           row.home # "pool", NEW p, p.period \in Int,
           DOMAIN p = {"period"} \/ (DOMAIN p = {"period", "due"} /\ p.due = "later")
    PROVE  Offer(kind, t, row, Patch(p), [period |-> row.period, due |-> row.due])
<1> DEFINE u == [period |-> row.period, due |-> row.due]
<1>1. row \in Row /\ Sound(row) /\ IsPatch(p) /\ IsPatch(u)
  BY DEF Good, IsPatch, Field, Row
<1>2. DOMAIN u = {"period", "due"} /\ u.period = row.period /\ u.due = row.due
  OBVIOUS
<1> HIDE DEF u
<1>3. ~RefusedAlone(t, row, p)
  BY <1>1, WithIs, BulkAssumption DEF RefusedAlone, Sound
<1>5. PICK l : l = Patched(row, p)
  OBVIOUS
<1>6. /\ l \in Row /\ l.home = row.home /\ l.status = row.status /\ l.week = row.week
      /\ l.who = row.who
  BY <1>1, <1>5, WeekStays, PatchedIs
<1>8. ~RefusedAlone(t, l, u)
  BY <1>1, <1>2, <1>6, WithIs DEF RefusedAlone, Sound, Good
<1>10. WeekOf(l, u) = row.week
  BY <1>1, <1>2, <1>6, WithIs DEF WeekOf, Open, Sound
<1>12. Patched(l, u) = row
  BY <1>1, <1>2, <1>6, <1>10, PatchedIs, SameRow
<1> QED
  BY <1>1, <1>3, <1>5, <1>8, <1>12 DEF Offer, Patch, Made, Back, u

\* To the backlog, out of a team or not.
LEMMA OfferPark ==
    ASSUME Place, NEW kind, kind # "done", NEW t \in Task, series[t] = None, NEW row,
           Good(t, row), row.home # "pool", row.home = "team" => role = "ADMIN",
           NEW p, NEW u, p.home = "pool", p.due = None, p.period = None,
           u.home = row.home, u.due = row.due, u.period = row.period,
           row.home = "team" => /\ DOMAIN p = {"home", "who", "due", "period"} /\ p.who = None
                                /\ DOMAIN u = {"home", "who", "due", "period", "week"}
                                /\ u.who = row.who /\ u.week = row.week,
           row.home # "team" => DOMAIN p = {"home", "due", "period"}
                                /\ DOMAIN u = {"home", "due", "period"}
    PROVE  Offer(kind, t, row, Patch(p), u)
<1>1. row \in Row /\ Sound(row) /\ IsPatch(p) /\ IsPatch(u)
  BY DEF Good, IsPatch, Field, Row
<1>3. ~RefusedAlone(t, row, p)
  BY <1>1, WithIs DEF RefusedAlone, Sound
<1>5. PICK l : l = Patched(row, p)
  OBVIOUS
<1>6. /\ l \in Row /\ l.home = "pool" /\ l.status = row.status /\ l.week = None
      /\ l.due = None /\ l.period = None /\ l.who = None
  <2>1. WeekOf(row, p) = None
    BY <1>1, WithIs DEF WeekOf
  <2> QED
    BY <1>1, <1>5, <2>1, PatchedIs DEF Sound
<1>8. ~RefusedAlone(t, l, u)
  BY <1>1, <1>6, WithIs DEF RefusedAlone, Sound, Good
<1>10. WeekOf(l, u) = row.week
  BY <1>1, <1>6, WithIs DEF WeekOf, Open, Sound
<1>12. Patched(l, u) = row
  BY <1>1, <1>6, <1>10, PatchedIs, SameRow DEF Sound
<1> QED
  BY <1>1, <1>3, <1>5, <1>8, <1>12 DEF Offer, Patch, Made, Back

\* From the backlog to a team and today, and back.
LEMMA OfferAssign ==
    ASSUME Place, role = "ADMIN", NEW kind, kind # "done", NEW t \in Task, NEW row,
           Good(t, row), row.home = "pool",
           NEW p, p.home = "team", p.due = "today", p.period = 0,
           \/ DOMAIN p = {"home", "due", "period"}
           \/ DOMAIN p = {"home", "due", "period", "who"} /\ p.who \in Member
    PROVE  Offer(kind, t, row, Patch(p),
                 [home |-> "pool", who |-> None, due |-> None, period |-> None])
<1> DEFINE u == [home |-> "pool", who |-> None, due |-> None, period |-> None]
<1>1. row \in Row /\ Sound(row) /\ IsPatch(p) /\ IsPatch(u)
  BY DEF Good, IsPatch, Field, Row
<1>2. /\ DOMAIN u = {"home", "who", "due", "period"}
      /\ u.home = "pool" /\ u.who = None /\ u.due = None /\ u.period = None
  OBVIOUS
<1> HIDE DEF u
<1>3. ~RefusedAlone(t, row, p)
  BY <1>1, WithIs, BulkAssumption DEF RefusedAlone, Sound
<1>5. PICK l : l = Patched(row, p)
  OBVIOUS
<1>6. l \in Row /\ l.status = row.status
  BY <1>1, <1>5, PatchedIs
<1>8. ~RefusedAlone(t, l, u)
  BY <1>1, <1>2, <1>6, WithIs DEF RefusedAlone, Sound, Good
<1>10. WeekOf(l, u) = None
  BY <1>1, <1>2, <1>6, WithIs DEF WeekOf, Open, Sound
<1>12. Patched(l, u) = row
  BY <1>1, <1>2, <1>6, <1>10, PatchedIs, SameRow DEF Sound
<1> QED
  BY <1>1, <1>3, <1>5, <1>8, <1>12 DEF Offer, Patch, Made, Back, u

-------------------------------------------------------------------------------
(* The invariant.                                                           *)

IsRows(f) == DOMAIN f \subseteq Task /\ \A t \in DOMAIN f : Good(t, f[t])

Shown(f) == IsRows(f) /\ \A t \in DOMAIN f : Listed(f[t])

SrvInv ==
    srv \in [Task -> Row \cup {None}] /\ \A t \in Task : Exists(t) => Good(t, srv[t])

PageInv ==
    /\ SelectionShown /\ Shown(rows) /\ IsSeq(reloads)
    /\ \A j \in 1..Len(reloads) : reloads[j] # None => Shown(reloads[j].rows)

\* A request of an operation is about a task; a restore brings back rows.
IsReq(op, t) ==
    LET q == op.reqs[t]
    IN  /\ q.do \in {"patch", "delete", "today", "restore"}
        /\ q.do # "restore" => t \in Task
        /\ q.do = "patch" => IsPatch(q.set)
        /\ q.do = "restore" => IsRows(op.undo)

\* Where t was as the page showed it, the undo gives it back.
Undone(op, t) ==
    t \in DOMAIN op.was =>
        /\ t \in DOMAIN op.left /\ op.left[t] # None
        /\ op.was[t] = op.seen[t] => Back(op.kind, t, op.was[t], op.left[t], op.undo[t])

\* The rows a delete took away.
Taken(op) ==
    IsRows(op.was) /\ \A t \in DOMAIN op.was : t \in DOMAIN op.left /\ op.left[t] = None

\* The undo of t is a patch of a row the page showed.
Undoes(op, t) ==
    t \in Task /\ IsPatch(op.undo[t]) /\ t \in DOMAIN op.seen /\ Undone(op, t)

DeleteFits(op) == Taken(op) /\ \A t \in DOMAIN op.reqs : op.reqs[t].do = "delete"

BulkFits(op) ==
    /\ \A t \in DOMAIN op.undo : Undoes(op, t)
    /\ \A t \in DOMAIN op.reqs :
          /\ t \in DOMAIN op.undo /\ t \notin DOMAIN op.was
          /\ Offer(op.kind, t, op.seen[t], op.reqs[t], op.undo[t])

\* An undo is one restore, or a patch for each task.
UndoFits(op) ==
    \A t \in DOMAIN op.reqs :
       /\ op.kind = "delete" => /\ op.reqs[t].do = "restore"
                                /\ op.undo = op.was /\ Taken(op)
                                /\ \A x \in DOMAIN op.reqs : x = t
       /\ op.kind # "delete" => op.reqs[t] = Patch(op.undo[t]) /\ Undoes(op, t)

IsOp(op) ==
    /\ op = [by |-> op.by, kind |-> op.kind, reqs |-> op.reqs, undo |-> op.undo,
             seen |-> op.seen, was |-> op.was, left |-> op.left,
             out |-> op.out, told |-> op.told]
    /\ op.told \in BOOLEAN
    /\ op.told => op.out # "running" /\ DOMAIN op.was = {}
    /\ \A t \in DOMAIN op.reqs : IsReq(op, t)

OpFits(op) ==
    /\ IsOp(op)
    /\ ~op.told =>
          /\ op.by = "bulk" => \A t \in DOMAIN op.reqs :
                                  t \in DOMAIN op.seen /\ Good(t, op.seen[t])
          /\ op.by # "undo" /\ op.kind = "delete" => DeleteFits(op)
          /\ op.by = "bulk" /\ op.kind # "delete" => BulkFits(op)
          /\ op.by = "undo" => UndoFits(op)

\* What the toast would undo.
ToastFits(x) ==
    /\ x.kind = "delete" => x.undo = x.was /\ Taken(x)
    /\ x.kind # "delete" => \A t \in DOMAIN x.undo : Undoes(x, t)

OpsInv == IsSeq(ops) /\ \A i \in 1..Len(ops) : OpFits(ops[i])

ToastInv == toast # None => ToastFits(toast)

\* A bulk action still unanswered: none, or one.
LiveOp(op) == op.by = "bulk" /\ ~op.told
NoLive(s) == \A j \in 1..Len(s) : ~LiveOp(s[j])
OneLive(s) == \E i \in 1..Len(s) : LiveOp(s[i]) /\ \A j \in 1..Len(s) : LiveOp(s[j]) => j = i

BusyInv ==
    /\ busy \in BOOLEAN
    /\ mounted /\ view # "team" => IF busy THEN OneLive(ops) ELSE NoLive(ops)

IInv == Place /\ SrvInv /\ PageInv /\ OpsInv /\ ToastInv /\ BusyInv

-------------------------------------------------------------------------------
(* The parts of the invariant that a step leaves alone.                     *)

LEMMA PlaceStays ==
    ASSUME UNCHANGED place
    PROVE  /\ Place => Place'
           /\ \A t, row : Good(t, row)' = Good(t, row)
           /\ \A f : IsRows(f)' = IsRows(f)
           /\ \A f : Shown(f)' = Shown(f)
           /\ \A op : OpFits(op)' = OpFits(op)
           /\ \A x : ToastFits(x)' = ToastFits(x)
<1>1. UNCHANGED <<view, role, parent, series>>
  BY DEF place
<1>2. Place => Place'
  BY <1>1 DEF Place
<1>3. \A t, row : Good(t, row)' = Good(t, row)
  BY <1>1 DEF Good
<1>4. \A f : IsRows(f)' = IsRows(f)
  BY <1>3 DEF IsRows
<1>5. \A row : Listed(row)' = Listed(row)
  BY <1>1 DEF Listed
<1>6. \A f : Shown(f)' = Shown(f)
  BY <1>4, <1>5 DEF Shown
<1>7. \A kind, t, w, l, u : Back(kind, t, w, l, u)' = Back(kind, t, w, l, u)
  <2>1. \A t, row, p : RefusedAlone(t, row, p)' = RefusedAlone(t, row, p)
    BY <1>1 DEF RefusedAlone
  <2> QED
    BY <1>1, <2>1 DEF Back
<1>8. \A kind, t, row, q, u : Offer(kind, t, row, q, u)' = Offer(kind, t, row, q, u)
  <2>1. \A t, row, p : RefusedAlone(t, row, p)' = RefusedAlone(t, row, p)
    BY <1>1 DEF RefusedAlone
  <2> QED
    BY <1>7, <2>1 DEF Offer
<1>9. \A op, t : Undone(op, t)' = Undone(op, t) /\ Undoes(op, t)' = Undoes(op, t)
  BY <1>7 DEF Undone, Undoes
<1>10. \A op : Taken(op)' = Taken(op)
  BY <1>4 DEF Taken
<1>11. \A op : /\ DeleteFits(op)' = DeleteFits(op) /\ BulkFits(op)' = BulkFits(op)
               /\ UndoFits(op)' = UndoFits(op)
  BY <1>8, <1>9, <1>10 DEF DeleteFits, BulkFits, UndoFits
<1>12. \A op : IsOp(op)' = IsOp(op)
  <2>1. \A op, t : IsReq(op, t)' = IsReq(op, t)
    BY <1>4 DEF IsReq
  <2> QED
    BY <2>1 DEF IsOp
<1>13. \A op : OpFits(op)' = OpFits(op)
  BY <1>3, <1>11, <1>12 DEF OpFits
<1>14. \A x : ToastFits(x)' = ToastFits(x)
  BY <1>9, <1>10 DEF ToastFits
<1> QED
  BY <1>2, <1>3, <1>4, <1>6, <1>13, <1>14

LEMMA ServerStays ==
    ASSUME SrvInv, UNCHANGED <<place, srv>> PROVE SrvInv'
BY PlaceStays DEF SrvInv, Exists

LEMMA OpsStay ==
    ASSUME OpsInv, UNCHANGED <<place, ops>> PROVE OpsInv'
BY PlaceStays DEF OpsInv

LEMMA ToastStays ==
    ASSUME ToastInv, UNCHANGED place, toast' \in {toast, None} PROVE ToastInv'
BY PlaceStays DEF ToastInv

LEMMA RowsStay ==
    ASSUME PageInv, UNCHANGED <<place, rows, reloads>>, selected' \subseteq DOMAIN rows
    PROVE  PageInv'
BY PlaceStays DEF PageInv, SelectionShown

LEMMA BusyStays ==
    ASSUME BusyInv, UNCHANGED <<place, ops, busy, mounted>> PROVE BusyInv'
BY DEF BusyInv, place

-------------------------------------------------------------------------------
(* The page and its reloads.                                                *)

LEMMA Selecting ==
    ASSUME IInv,
           \/ \E t \in Task : Toggle(t)
           \/ \E ids \in SUBSET DOMAIN rows : ToggleSection(ids)
           \/ ToggleWeek("past") \/ ToggleAll \/ Clear
    PROVE  IInv'
<1>1. UNCHANGED <<place, rows, reloads, srv, ops, busy, mounted>> /\ toast' \in {toast, None}
  BY DEF Toggle, ToggleSection, ToggleWeek, ToggleAll, Clear, Select, world
<1>2. selected \subseteq DOMAIN rows
  BY DEF IInv, PageInv, SelectionShown
<1>3. ASSUME NEW t \in Task, Toggle(t) PROVE selected' \subseteq DOMAIN rows
  <2>1. Selectable \subseteq DOMAIN rows
    BY DEF IInv, Place, View, Selectable, BoardRows, Visible, QueueRows, AttentionRows, ActiveRows
  <2> QED
    BY <1>2, <1>3, <2>1 DEF Toggle
<1>4. ASSUME \/ \E ids \in SUBSET DOMAIN rows : ToggleSection(ids)
             \/ ToggleWeek("past") \/ ToggleAll \/ Clear
      PROVE  selected' \subseteq DOMAIN rows
  BY <1>2, <1>4 DEF ToggleSection, ToggleWeek, ToggleAll, Clear, Select, AllOrNone, QueueRows
<1> QED
  BY <1>1, <1>3, <1>4, PlaceStays, ServerStays, OpsStay, ToastStays, RowsStay, BusyStays DEF IInv

LEMMA Leaving == ASSUME IInv, Leave PROVE IInv'
<1>1. /\ UNCHANGED <<place, srv, ops>> /\ toast' \in {toast, None}
      /\ mounted' = FALSE /\ busy' = FALSE /\ selected' = {} /\ DOMAIN rows' = {}
      /\ reloads' = <<>>
  BY DEF Leave, world
<1>2. PageInv'
  <2>1. IsSeq(reloads') /\ Len(reloads') = 0
    BY <1>1 DEF IsSeq
  <2> QED
    BY <1>1, <2>1 DEF PageInv, SelectionShown, Shown, IsRows
<1>3. BusyInv'
  BY <1>1 DEF BusyInv
<1> QED
  BY <1>1, <1>2, <1>3, PlaceStays, ServerStays, OpsStay, ToastStays DEF IInv

\* A snapshot holds the server's rows of the list.
LEMMA SnapshotShown == ASSUME SrvInv PROVE Shown(Snapshot.rows)
<1>1. PICK f : f = Snapshot.rows
  OBVIOUS
<1>2. f = [t \in {x \in Task : /\ Exists(x) /\ Listed(srv[x])
                               /\ view = "team" => srv[x].who \in inTeam \cup {None}} |-> srv[t]]
  BY <1>1 DEF Snapshot
<1>3. \A t \in DOMAIN f : t \in Task /\ Exists(t) /\ Listed(srv[t]) /\ f[t] = srv[t]
  BY <1>2
<1> QED
  BY <1>1, <1>3 DEF SrvInv, Shown, IsRows

\* One reload is asked, is served, is shown, or fails.
LEMMA Reloading ==
    ASSUME IInv,
           \/ Refresh
           \/ \E j \in 1..Len(reloads) : ReloadServe(j) \/ ReloadAnswer(j) \/ ReloadFail(j)
    PROVE  IInv'
<1>1. UNCHANGED <<place, srv, ops, busy, mounted, toast>>
  BY DEF Refresh, ReloadServe, ReloadAnswer, ReloadFail, world
<1>2. IsSeq(reloads) /\ Shown(rows) /\ selected \subseteq DOMAIN rows
  BY DEF IInv, PageInv, SelectionShown
<1>3. \A f : Shown(f)' = Shown(f)
  BY <1>1, PlaceStays
<1>4. ASSUME Refresh PROVE PageInv'
  <2>1. /\ IsSeq(reloads') /\ Len(reloads) \in Nat /\ Len(reloads') = Len(reloads) + 1
        /\ \A j \in 1..Len(reloads') :
              reloads'[j] = None \/ (j \in 1..Len(reloads) /\ reloads'[j] = reloads[j])
    BY <1>2, <1>4, AppendIs DEF Refresh
  <2> QED
    BY <1>2, <1>3, <1>4, <2>1 DEF IInv, PageInv, SelectionShown, Refresh, page
<1>5. ASSUME NEW j \in 1..Len(reloads), ReloadServe(j) PROVE PageInv'
  <2>1. Shown(Snapshot.rows)
    BY SnapshotShown DEF IInv
  <2>2. /\ IsSeq(reloads') /\ Len(reloads') = Len(reloads)
        /\ \A k \in 1..Len(reloads') : reloads'[k] = Snapshot \/ reloads'[k] = reloads[k]
    <3>1. PICK e : e = Snapshot
      OBVIOUS
    <3>2. reloads' = [reloads EXCEPT ![j] = e]
      BY <1>5, <3>1 DEF ReloadServe
    <3>3. /\ IsSeq([reloads EXCEPT ![j] = e])
          /\ Len([reloads EXCEPT ![j] = e]) = Len(reloads)
          /\ [reloads EXCEPT ![j] = e][j] = e
          /\ \A k \in 1..Len(reloads) : k # j => [reloads EXCEPT ![j] = e][k] = reloads[k]
      BY <1>2, <1>5, ExceptIs
    <3> QED
      BY <3>1, <3>2, <3>3
  <2> QED
    BY <1>2, <1>3, <1>5, <2>1, <2>2 DEF IInv, PageInv, SelectionShown, ReloadServe, page
<1>6. ASSUME NEW j \in 1..Len(reloads), reloads' = Without(reloads, j)
      PROVE  /\ IsSeq(reloads')
             /\ (\A k \in 1..Len(reloads) : reloads[k] # None => Shown(reloads[k].rows))'
  BY <1>2, <1>3, <1>6, WithoutIs DEF IInv, PageInv
<1>7. ASSUME NEW j \in 1..Len(reloads), ReloadAnswer(j) PROVE PageInv'
  <2>1. Shown(rows)'
    BY <1>1, <1>3, <1>7 DEF IInv, PageInv, ReloadAnswer
  <2>2. selected' \subseteq DOMAIN rows' /\ reloads' = Without(reloads, j)
    BY <1>7 DEF ReloadAnswer
  <2> QED
    BY <1>3, <1>6, <2>1, <2>2 DEF PageInv, SelectionShown
<1>8. ASSUME NEW j \in 1..Len(reloads), ReloadFail(j) PROVE PageInv'
  <2>1. reloads' = Without(reloads, j) /\ UNCHANGED <<rows, selected>>
    BY <1>8 DEF ReloadFail, page
  <2> QED
    BY <1>2, <1>3, <1>6, <2>1 DEF PageInv, SelectionShown
<1>9. PageInv'
  BY <1>4, <1>5, <1>7, <1>8 DEF IInv
<1> QED
  BY <1>1, <1>9, PlaceStays, ServerStays, OpsStay, ToastStays, BusyStays DEF IInv

-------------------------------------------------------------------------------
(* Operations are added, changed and removed.                               *)

LEMMA OpAdded ==
    ASSUME OpsInv, NEW op, OpFits(op), UNCHANGED place, ops' = Append(ops, op)
    PROVE  /\ OpsInv'
           /\ ~LiveOp(op) => /\ NoLive(ops) => NoLive(ops')
                             /\ OneLive(ops) => OneLive(ops')
           /\ LiveOp(op) /\ NoLive(ops) => OneLive(ops')
<1>1. /\ IsSeq(ops') /\ Len(ops) \in Nat /\ Len(ops') = Len(ops) + 1
      /\ ops'[Len(ops) + 1] = op
      /\ \A j \in 1..Len(ops) : ops'[j] = ops[j]
  BY AppendIs DEF OpsInv
<1>2. /\ Len(ops) + 1 \in 1..Len(ops')
      /\ \A j \in 1..Len(ops) : j \in 1..Len(ops')
      /\ \A j \in 1..Len(ops') : j = Len(ops) + 1 \/ j \in 1..Len(ops)
  BY <1>1
<1>3. OpsInv'
  BY <1>1, <1>2, PlaceStays DEF OpsInv
<1>4. ASSUME ~LiveOp(op), OneLive(ops) PROVE OneLive(ops')
  BY <1>1, <1>2, <1>4 DEF OneLive
<1>5. ASSUME ~LiveOp(op), NoLive(ops) PROVE NoLive(ops')
  BY <1>1, <1>2, <1>5 DEF NoLive
<1>6. ASSUME LiveOp(op), NoLive(ops) PROVE OneLive(ops')
  BY <1>1, <1>2, <1>6 DEF NoLive, OneLive
<1> QED
  BY <1>3, <1>4, <1>5, <1>6

LEMMA OpChanged ==
    ASSUME OpsInv, NEW i \in 1..Len(ops), NEW op, OpFits(op), UNCHANGED place,
           ops' = [ops EXCEPT ![i] = op]
    PROVE  /\ OpsInv'
           /\ LiveOp(op) = LiveOp(ops[i]) => /\ NoLive(ops) => NoLive(ops')
                                             /\ OneLive(ops) => OneLive(ops')
           /\ ~LiveOp(op) /\ LiveOp(ops[i]) => /\ ~NoLive(ops)
                                               /\ OneLive(ops) => NoLive(ops')
<1>1. /\ IsSeq(ops') /\ Len(ops') = Len(ops) /\ ops'[i] = op
      /\ \A j \in 1..Len(ops) : j # i => ops'[j] = ops[j]
  <2>1. IsSeq(ops)
    BY DEF OpsInv
  <2>2. PICK s : s = ops
    OBVIOUS
  <2>3. /\ IsSeq([s EXCEPT ![i] = op]) /\ Len([s EXCEPT ![i] = op]) = Len(s)
        /\ [s EXCEPT ![i] = op][i] = op
        /\ \A j \in 1..Len(s) : j # i => [s EXCEPT ![i] = op][j] = s[j]
    <3>1. IsSeq(s) /\ i \in 1..Len(s)
      BY <2>1, <2>2
    <3> QED
      BY ONLY <3>1, ExceptIs
  <2> QED
    BY <2>2, <2>3
<1>2. OpsInv'
  BY <1>1, PlaceStays DEF OpsInv
<1>3. ASSUME LiveOp(op) = LiveOp(ops[i])
      PROVE  (NoLive(ops) => NoLive(ops')) /\ (OneLive(ops) => OneLive(ops'))
  <2>1. \A j \in 1..Len(ops) : LiveOp(ops'[j]) = LiveOp(ops[j])
    BY <1>1, <1>3
  <2> QED
    BY <1>1, <2>1 DEF NoLive, OneLive
<1>4. ASSUME ~LiveOp(op), LiveOp(ops[i]), OneLive(ops) PROVE NoLive(ops')
  BY <1>1, <1>4 DEF NoLive, OneLive
<1>5. LiveOp(ops[i]) => ~NoLive(ops)
  BY DEF NoLive
<1> QED
  BY <1>2, <1>3, <1>4, <1>5

LEMMA OpGone ==
    ASSUME OpsInv, NEW i \in 1..Len(ops), UNCHANGED place, ops' = Without(ops, i)
    PROVE  /\ OpsInv'
           /\ ~LiveOp(ops[i]) => /\ NoLive(ops) => NoLive(ops')
                                 /\ OneLive(ops) => OneLive(ops')
           /\ LiveOp(ops[i]) => /\ ~NoLive(ops)
                                /\ OneLive(ops) => NoLive(ops')
<1>1. /\ IsSeq(ops') /\ Len(ops) \in Nat /\ Len(ops') = Len(ops) - 1
      /\ \A j \in 1..Len(ops') : /\ Before(i, j) \in 1..Len(ops) /\ Before(i, j) # i
                                 /\ ops'[j] = ops[Before(i, j)]
  BY WithoutIs DEF OpsInv
<1>2. OpsInv'
  BY <1>1, PlaceStays DEF OpsInv
<1>3. NoLive(ops) => NoLive(ops')
  BY <1>1 DEF NoLive
<1>4. ASSUME ~LiveOp(ops[i]), OneLive(ops) PROVE OneLive(ops')
  <2>1. PICK m \in 1..Len(ops) :
           LiveOp(ops[m]) /\ \A j \in 1..Len(ops) : LiveOp(ops[j]) => j = m
    BY <1>4 DEF OneLive
  <2>2. m # i /\ m \in Int /\ i \in Int
    BY <1>4, <2>1
  <2> DEFINE k == IF m < i THEN m ELSE m - 1
  <2>3. k \in 1..Len(ops') /\ Before(i, k) = m
    BY <1>1, <2>2 DEF Before
  <2>4. \A j \in 1..Len(ops') : Before(i, j) = m => j = k
    BY <1>1, <2>2 DEF Before
  <2>5. LiveOp(ops'[k]) /\ \A j \in 1..Len(ops') : LiveOp(ops'[j]) => j = k
    <3> HIDE DEF k
    <3> QED
      BY <1>1, <2>1, <2>3, <2>4
  <2> QED
    BY <2>3, <2>5 DEF OneLive
<1>5. ASSUME LiveOp(ops[i]), OneLive(ops) PROVE NoLive(ops')
  BY <1>1, <1>5 DEF OneLive, NoLive
<1>6. LiveOp(ops[i]) => ~NoLive(ops)
  BY DEF NoLive
<1> QED
  BY <1>2, <1>3, <1>4, <1>5, <1>6

-------------------------------------------------------------------------------
(* What users start.                                                        *)

\* A bulk action other than a delete fits when the page offers it of each row.
LEMMA BulkOp ==
    ASSUME IInv, NEW kind, kind # "delete", NEW D \in SUBSET DOMAIN rows,
           NEW reqs, NEW undo, DOMAIN reqs = D, DOMAIN undo = D,
           \A t \in D : Offer(kind, t, rows[t], reqs[t], undo[t])
    PROVE  OpFits(Op("bulk", kind, reqs, undo))
<1>1. PICK op : op = Op("bulk", kind, reqs, undo)
  OBVIOUS
<1>2. /\ op.by = "bulk" /\ op.kind = kind /\ op.reqs = reqs /\ op.undo = undo
      /\ op.seen = [t \in D |-> rows[t]] /\ op.out = "running" /\ op.told = FALSE
      /\ DOMAIN op.was = {}
      /\ op = [by |-> op.by, kind |-> op.kind, reqs |-> op.reqs, undo |-> op.undo,
               seen |-> op.seen, was |-> op.was, left |-> op.left,
               out |-> op.out, told |-> op.told]
  BY <1>1 DEF Op
<1>3. \A t \in D : t \in Task /\ t \in DOMAIN op.seen /\ op.seen[t] = rows[t]
                   /\ Good(t, rows[t])
  BY <1>2 DEF IInv, PageInv, Shown, IsRows
<1>4. \A t \in D : IsReq(op, t)
  BY <1>2, <1>3 DEF Offer, IsReq
<1>5. IsOp(op)
  BY <1>2, <1>4 DEF IsOp
<1>6. BulkFits(op)
  BY <1>2, <1>3 DEF BulkFits, Undoes, Undone, Offer
<1> QED
  BY <1>1, <1>2, <1>3, <1>5, <1>6 DEF OpFits

LEMMA DeletionOp ==
    ASSUME IInv, NEW by \in {"bulk", "row"}, NEW D \in SUBSET DOMAIN rows
    PROVE  OpFits(Op(by, "delete", [t \in D |-> Simply("delete")], <<>>))
<1>1. PICK op : op = Op(by, "delete", [t \in D |-> Simply("delete")], <<>>)
  OBVIOUS
<1>2. /\ op.by = by /\ op.kind = "delete" /\ op.reqs = [t \in D |-> Simply("delete")]
      /\ op.seen = [t \in D |-> rows[t]] /\ op.out = "running" /\ op.told = FALSE
      /\ DOMAIN op.was = {}
      /\ op = [by |-> op.by, kind |-> op.kind, reqs |-> op.reqs, undo |-> op.undo,
               seen |-> op.seen, was |-> op.was, left |-> op.left,
               out |-> op.out, told |-> op.told]
  BY <1>1 DEF Op
<1>3. \A t \in D : /\ t \in Task /\ t \in DOMAIN op.seen /\ op.seen[t] = rows[t]
                   /\ Good(t, rows[t]) /\ op.reqs[t].do = "delete"
  BY <1>2 DEF IInv, PageInv, Shown, IsRows, Simply
<1>4. \A t \in D : IsReq(op, t)
  BY <1>2, <1>3 DEF IsReq
<1>5. IsOp(op)
  BY <1>2, <1>4 DEF IsOp
<1>6. DeleteFits(op)
  BY <1>2, <1>3 DEF DeleteFits, Taken, IsRows
<1> QED
  BY <1>1, <1>2, <1>3, <1>5, <1>6 DEF OpFits

LEMMA RowRequest ==
    ASSUME IInv, NEW t \in DOMAIN rows, NEW kind, kind # "delete", NEW req,
           \/ req.do = "patch" /\ IsPatch(req.set)
           \/ req.do = "today"
    PROVE  OpFits(Op("row", kind, [x \in {t} |-> req], <<>>))
<1>1. PICK op : op = Op("row", kind, [x \in {t} |-> req], <<>>)
  OBVIOUS
<1>2. /\ op.by = "row" /\ op.kind = kind /\ op.reqs = [x \in {t} |-> req]
      /\ op.out = "running" /\ op.told = FALSE
      /\ op = [by |-> op.by, kind |-> op.kind, reqs |-> op.reqs, undo |-> op.undo,
               seen |-> op.seen, was |-> op.was, left |-> op.left,
               out |-> op.out, told |-> op.told]
  BY <1>1 DEF Op
<1>3. t \in Task /\ op.reqs[t] = req /\ DOMAIN op.reqs = {t}
  BY <1>2 DEF IInv, PageInv, Shown, IsRows
<1>4. IsReq(op, t)
  BY <1>3 DEF IsReq
<1>5. IsOp(op)
  BY <1>2, <1>3, <1>4 DEF IsOp
<1> QED
  BY <1>1, <1>2, <1>5 DEF OpFits

\* What adds an operation changes no row and asks for no list.
LEMMA AddedStep ==
    ASSUME IInv, NEW op, OpFits(op), ops' = Append(ops, op),
           UNCHANGED <<place, rows, srv, reloads, mounted>>,
           selected' \in {selected, {}}, toast' \in {toast, None},
           \/ op.by # "bulk" /\ busy' = busy
           \/ /\ op.by = "bulk" /\ op.told = FALSE
              /\ view # "team" => ~busy /\ busy' = TRUE
              /\ busy' \in BOOLEAN
    PROVE  IInv'
<1>1. /\ OpsInv'
      /\ ~LiveOp(op) => /\ NoLive(ops) => NoLive(ops')
                        /\ OneLive(ops) => OneLive(ops')
      /\ LiveOp(op) /\ NoLive(ops) => OneLive(ops')
  BY OpAdded DEF IInv
<1>2. BusyInv'
  BY <1>1 DEF IInv, BusyInv, LiveOp, place
<1>3. selected' \subseteq DOMAIN rows
  BY DEF IInv, PageInv, SelectionShown
<1>4. PageInv'
  BY <1>3, RowsStay DEF IInv
<1> QED
  BY <1>1, <1>2, <1>4, PlaceStays, ServerStays, ToastStays DEF IInv

LEMMA BulkStep ==
    ASSUME IInv, NEW kind, NEW reqs, NEW undo, Bulk(kind, reqs, undo),
           OpFits(Op("bulk", kind, reqs, undo)), view # "team" => ~busy
    PROVE  IInv'
<1>1. PICK op : op = Op("bulk", kind, reqs, undo)
  OBVIOUS
<1>2. op.by = "bulk" /\ op.told = FALSE
  BY <1>1 DEF Op
<1>3. /\ ops' = Append(ops, op) /\ busy' = (view # "team")
      /\ selected' \in {selected, {}} /\ UNCHANGED <<place, rows, srv, reloads, toast, mounted>>
  BY <1>1 DEF Bulk, world
<1> QED
  BY <1>1, <1>2, <1>3, AddedStep

\* What a row of a list is.
LEMMA ListedIs ==
    ASSUME IInv, NEW t \in DOMAIN rows
    PROVE  /\ t \in Task /\ Good(t, rows[t]) /\ rows[t] \in Row
           /\ view \in {"team", "rollover"} => rows[t].home = "team"
           /\ view = "attention" => rows[t].home # "pool"
           /\ view = "backlog" => rows[t].home = "pool"
<1>1. t \in Task /\ Good(t, rows[t]) /\ Listed(rows[t])
  BY DEF IInv, PageInv, Shown, IsRows
<1>2. rows[t] \in Row
  BY <1>1 DEF Good
<1>3. /\ view = "team" => OnBoard(rows[t])
      /\ view = "rollover" => Stale(rows[t])
      /\ view = "attention" => Slipped(rows[t])
      /\ view = "backlog" => rows[t].home = "pool"
  BY <1>1 DEF Listed
<1> QED
  BY <1>1, <1>2, <1>3 DEF OnBoard, Stale, Slipped

LEMMA BoardActs ==
    ASSUME IInv,
           \/ \E m \in Member : BulkReassign(m)
           \/ BulkUnassign \/ BulkSetDue \/ BulkMarkDone
    PROVE  IInv'
<1>1. view = "team" /\ Place /\ Found \subseteq DOMAIN rows
  BY DEF BulkReassign, BulkUnassign, BulkSetDue, BulkMarkDone, BoardBar, Found, IInv
<1>2. \A t \in Found : t \in Task /\ Good(t, rows[t]) /\ rows[t].home = "team"
  BY <1>1, ListedIs
<1>3. ASSUME NEW m \in Member \cup {None}, NEW kind \in {"reassign", "unassign"},
             Bulk(kind, [t \in Found |-> Patch([who |-> m])],
                        [t \in Found |-> [who |-> rows[t].who]])
      PROVE  IInv'
  <2>1. ASSUME NEW t \in Found
        PROVE  Offer(kind, t, rows[t], Patch([who |-> m]), [who |-> rows[t].who])
    BY <1>1, <1>2, OfferBoard
  <2>2. OpFits(Op("bulk", kind, [t \in Found |-> Patch([who |-> m])],
                                [t \in Found |-> [who |-> rows[t].who]]))
    BY <1>1, <2>1, BulkOp
  <2> QED
    BY <1>1, <1>3, <2>2, BulkStep
<1>4. ASSUME BulkSetDue PROVE IInv'
  <2>1. ASSUME NEW t \in Found
        PROVE  Offer("due", t, rows[t], Patch([due |-> "later"]), [due |-> rows[t].due])
    BY <1>1, <1>2, OfferBoard
  <2>2. OpFits(Op("bulk", "due", [t \in Found |-> Patch([due |-> "later"])],
                                 [t \in Found |-> [due |-> rows[t].due]]))
    BY <1>1, <2>1, BulkOp
  <2> QED
    BY <1>1, <1>4, <2>2, BulkStep DEF BulkSetDue
<1>5. ASSUME BulkMarkDone PROVE IInv'
  <2>1. ASSUME NEW t \in Found
        PROVE  Offer("done", t, rows[t], Patch([status |-> "done"]),
                     [status |-> rows[t].status, week |-> rows[t].week])
    BY <1>1, <1>2, OfferEnd
  <2>2. OpFits(Op("bulk", "done", [t \in Found |-> Patch([status |-> "done"])],
                 [t \in Found |-> [status |-> rows[t].status, week |-> rows[t].week]]))
    BY <1>1, <2>1, BulkOp
  <2> QED
    BY <1>1, <1>5, <2>2, BulkStep DEF BulkMarkDone
<1> QED
  BY <1>3, <1>4, <1>5 DEF BulkReassign, BulkUnassign

LEMMA QueueActs ==
    ASSUME IInv, BulkMove \/ \E s \in {"done", "cancelled"} : BulkStatus(s)
    PROVE  IInv'
<1>1. /\ view = "rollover" /\ ~busy /\ Place /\ role = "ADMIN"
      /\ Found \subseteq DOMAIN rows
  BY DEF BulkMove, BulkStatus, QueueBar, Found, IInv, Place
<1>2. \A t \in Found : t \in Task /\ Good(t, rows[t]) /\ rows[t].home = "team"
  BY <1>1, ListedIs
<1>3. ASSUME BulkMove PROVE IInv'
  <2> DEFINE ids == {t \in Found : series[t] = None}
  <2>1. ASSUME NEW t \in ids
        PROVE  Offer("move", t, rows[t], Patch([week |-> "now"]), [week |-> rows[t].week])
    BY <1>1, <1>2, OfferMove
  <2>2. ids \subseteq DOMAIN rows
    BY <1>1
  <2>3. Bulk("move", [t \in ids |-> Patch([week |-> "now"])],
                     [t \in ids |-> [week |-> rows[t].week]])
    BY <1>3 DEF BulkMove
  <2> HIDE DEF ids
  <2>4. OpFits(Op("bulk", "move", [t \in ids |-> Patch([week |-> "now"])],
                                  [t \in ids |-> [week |-> rows[t].week]]))
    BY <2>1, <2>2, BulkOp
  <2> QED
    BY <1>1, <2>3, <2>4, BulkStep
<1>4. ASSUME NEW s \in {"done", "cancelled"}, BulkStatus(s) PROVE IInv'
  <2>1. ASSUME NEW t \in Found
        PROVE  Offer("status", t, rows[t], Patch([status |-> s]),
                     [status |-> rows[t].status, week |-> rows[t].week])
    BY <1>1, <1>2, OfferEnd
  <2>2. OpFits(Op("bulk", "status", [t \in Found |-> Patch([status |-> s])],
                 [t \in Found |-> [status |-> rows[t].status, week |-> rows[t].week]]))
    BY <1>1, <2>1, BulkOp
  <2> QED
    BY <1>1, <1>4, <2>2, BulkStep DEF BulkStatus
<1> QED
  BY <1>3, <1>4

LEMMA AttentionActs ==
    ASSUME IInv, RunReschedule \/ RunScheduleFor \/ RunMarkDone \/ RunMoveToBacklog
    PROVE  IInv'
<1>1. view = "attention" /\ ~busy /\ Place /\ Found \subseteq DOMAIN rows
  BY DEF RunReschedule, RunScheduleFor, RunMarkDone, RunMoveToBacklog, AttentionBar, Found, IInv
<1>2. \A t \in Found : t \in Task /\ Good(t, rows[t]) /\ rows[t].home # "pool"
  BY <1>1, ListedIs
<1>3. ASSUME RunReschedule PROVE IInv'
  <2>1. ASSUME NEW t \in Found
        PROVE  Offer("today", t, rows[t], Simply("today"),
                     [period |-> rows[t].period, due |-> rows[t].due])
    BY <1>1, <1>2, OfferToday
  <2>2. OpFits(Op("bulk", "today", [t \in Found |-> Simply("today")],
                 [t \in Found |-> [period |-> rows[t].period, due |-> rows[t].due]]))
    BY <1>1, <2>1, BulkOp
  <2> QED
    BY <1>1, <1>3, <2>2, BulkStep DEF RunReschedule
<1>4. ASSUME RunScheduleFor PROVE IInv'
  <2>1. PICK at \in [Found -> {0, 1}] :
           Bulk("later",
                [t \in Found |-> Patch(IF rows[t].due = None THEN [period |-> at[t]]
                                       ELSE [period |-> at[t], due |-> "later"])],
                [t \in Found |-> [period |-> rows[t].period, due |-> rows[t].due]])
    BY <1>4 DEF RunScheduleFor
  <2> DEFINE set(t) == IF rows[t].due = None THEN [period |-> at[t]]
                       ELSE [period |-> at[t], due |-> "later"]
  <2>2. ASSUME NEW t \in Found
        PROVE  Offer("later", t, rows[t], Patch(set(t)),
                     [period |-> rows[t].period, due |-> rows[t].due])
    <3>1. /\ set(t).period \in Int
          /\ \/ DOMAIN set(t) = {"period"}
             \/ DOMAIN set(t) = {"period", "due"} /\ set(t).due = "later"
      OBVIOUS
    <3> HIDE DEF set
    <3> QED
      BY <1>1, <1>2, <3>1, OfferLater
  <2>3. Bulk("later", [t \in Found |-> Patch(set(t))],
                      [t \in Found |-> [period |-> rows[t].period, due |-> rows[t].due]])
    BY <2>1
  <2> HIDE DEF set
  <2>4. OpFits(Op("bulk", "later", [t \in Found |-> Patch(set(t))],
                 [t \in Found |-> [period |-> rows[t].period, due |-> rows[t].due]]))
    BY <1>1, <2>2, BulkOp
  <2> QED
    BY <1>1, <2>3, <2>4, BulkStep
<1>5. ASSUME RunMarkDone PROVE IInv'
  <2>1. ASSUME NEW t \in Found
        PROVE  Offer("done", t, rows[t], Patch([status |-> "done"]),
                     [status |-> rows[t].status])
    BY <1>1, <1>2, OfferEnd
  <2>2. OpFits(Op("bulk", "done", [t \in Found |-> Patch([status |-> "done"])],
                                  [t \in Found |-> [status |-> rows[t].status]]))
    BY <1>1, <2>1, BulkOp
  <2> QED
    BY <1>1, <1>5, <2>2, BulkStep DEF RunMarkDone
<1>6. ASSUME RunMoveToBacklog PROVE IInv'
  <2> DEFINE ids == {t \in Found : Eligible(t)}
             Park(t) == IF rows[t].home = "team"
                        THEN [home |-> "pool", who |-> None, due |-> None, period |-> None]
                        ELSE [home |-> "pool", due |-> None, period |-> None]
             Return(t) == IF rows[t].home = "team"
                          THEN [home |-> "team", who |-> rows[t].who, due |-> rows[t].due,
                                period |-> rows[t].period, week |-> rows[t].week]
                          ELSE [home |-> rows[t].home, due |-> rows[t].due,
                                period |-> rows[t].period]
  <2>1. ASSUME NEW t \in ids PROVE Offer("backlog", t, rows[t], Patch(Park(t)), Return(t))
    <3>1. /\ t \in Task /\ series[t] = None /\ Good(t, rows[t]) /\ rows[t].home # "pool"
          /\ rows[t].home = "team" => role = "ADMIN"
      BY <1>2 DEF Eligible
    <3>2. /\ Park(t).home = "pool" /\ Park(t).due = None /\ Park(t).period = None
          /\ Return(t).home = rows[t].home /\ Return(t).due = rows[t].due
          /\ Return(t).period = rows[t].period
          /\ rows[t].home = "team" =>
                /\ DOMAIN Park(t) = {"home", "who", "due", "period"} /\ Park(t).who = None
                /\ DOMAIN Return(t) = {"home", "who", "due", "period", "week"}
                /\ Return(t).who = rows[t].who /\ Return(t).week = rows[t].week
          /\ rows[t].home # "team" => /\ DOMAIN Park(t) = {"home", "due", "period"}
                                      /\ DOMAIN Return(t) = {"home", "due", "period"}
      OBVIOUS
    <3> HIDE DEF Park, Return
    <3> QED
      BY <1>1, <3>1, <3>2, OfferPark
  <2>2. ids \subseteq DOMAIN rows
    BY <1>1
  <2>3. Bulk("backlog", [t \in ids |-> Patch(Park(t))], [t \in ids |-> Return(t)])
    BY <1>6 DEF RunMoveToBacklog
  <2> HIDE DEF ids, Park, Return
  <2>4. OpFits(Op("bulk", "backlog", [t \in ids |-> Patch(Park(t))], [t \in ids |-> Return(t)]))
    BY <2>1, <2>2, BulkOp
  <2> QED
    BY <1>1, <2>3, <2>4, BulkStep
<1> QED
  BY <1>3, <1>4, <1>5, <1>6

LEMMA Deletes ==
    ASSUME IInv, BulkDelete \/ RunDelete \/ BacklogDelete
    PROVE  IInv'
<1>1. Deletion /\ (view # "team" => ~busy) /\ Found \subseteq DOMAIN rows
  BY DEF BulkDelete, RunDelete, BacklogDelete, BoardBar, AttentionBar, BacklogBar, Found
<1>2. OpFits(Op("bulk", "delete", [t \in Found |-> Simply("delete")], <<>>))
  BY <1>1, DeletionOp
<1> QED
  BY <1>1, <1>2, BulkStep DEF Deletion

LEMMA Assigns ==
    ASSUME IInv, NEW m \in Member \cup {None}, Assign(m)
    PROVE  IInv'
<1> DEFINE set == IF m = None THEN [home |-> "team", due |-> "today", period |-> 0]
                  ELSE [home |-> "team", due |-> "today", period |-> 0, who |-> m]
<1>1. PICK ids \in SUBSET DOMAIN rows : AssignTasks(ids, set)
  <2>1. Found \in SUBSET DOMAIN rows
    BY DEF Found
  <2>2. \A t \in ActiveRows : {t} \in SUBSET DOMAIN rows
    BY DEF ActiveRows
  <2> QED
    BY <2>1, <2>2 DEF Assign
<1>2. /\ set.home = "team" /\ set.due = "today" /\ set.period = 0
      /\ \/ DOMAIN set = {"home", "due", "period"}
         \/ DOMAIN set = {"home", "due", "period", "who"} /\ set.who \in Member
  OBVIOUS
<1> HIDE DEF set
<1> DEFINE back == [home |-> "pool", who |-> None, due |-> None, period |-> None]
           reqs == [t \in ids |-> Patch(set)]
           undo == [t \in ids |-> back]
           op == Op("bulk", "assign", reqs, undo)
<1>3. view = "backlog" /\ role = "ADMIN" /\ ~busy
  BY <1>1 DEF AssignTasks, IInv, Place
<1>4. ASSUME NEW t \in ids PROVE Offer("assign", t, rows[t], Patch(set), back)
  <2>1. t \in Task /\ Good(t, rows[t]) /\ rows[t].home = "pool"
    BY <1>3, ListedIs
  <2> QED
    BY <1>2, <1>3, <2>1, OfferAssign DEF IInv
<1>5. OpFits(op)
  <2> HIDE DEF back
  <2> QED
    BY <1>4, BulkOp
<1>6. op.by = "bulk" /\ op.told = FALSE
  BY DEF Op
<1>7. /\ ops' = Append(ops, op) /\ busy' = TRUE /\ selected' = {}
      /\ UNCHANGED <<place, rows, srv, reloads, toast, mounted>>
  BY <1>1 DEF AssignTasks, world
<1> HIDE DEF op
<1> QED
  BY <1>3, <1>5, <1>6, <1>7, AddedStep

\* A row's own actions are no bulk actions.
LEMMA RowActs ==
    ASSUME IInv, NEW t \in DOMAIN rows,
           \/ CycleStatus(t) \/ MarkDone(t) \/ RescheduleToday(t)
           \/ HandleDelete(t) \/ SetRowStatus(t) \/ DeleteOne(t)
    PROVE  IInv'
<1>1. ASSUME NEW kind, NEW req, RowOp(t, kind, req),
             OpFits(Op("row", kind, [x \in {t} |-> req], <<>>))
      PROVE  IInv'
  <2>1. PICK op : op = Op("row", kind, [x \in {t} |-> req], <<>>)
    OBVIOUS
  <2>2. op.by = "row"
    BY <2>1 DEF Op
  <2>3. /\ ops' = Append(ops, op)
        /\ UNCHANGED <<place, rows, selected, srv, busy, reloads, toast, mounted>>
    BY <1>1, <2>1 DEF RowOp, page, world
  <2> QED
    BY <1>1, <2>1, <2>2, <2>3, AddedStep
<1>2. rows[t].status \in Status
  BY ListedIs DEF Row
<1>3. ASSUME NEW s \in Status, SetStatus(t, s) PROVE IInv'
  <2>1. PICK req : req = Patch([status |-> s])
    OBVIOUS
  <2>2. req.do = "patch" /\ IsPatch(req.set)
    BY <2>1 DEF Patch, IsPatch, Field
  <2>3. OpFits(Op("row", "status", [x \in {t} |-> req], <<>>))
    BY <2>2, RowRequest
  <2> QED
    BY <1>1, <1>3, <2>1, <2>3 DEF SetStatus
<1>4. ASSUME CycleStatus(t) \/ MarkDone(t) \/ SetRowStatus(t) PROVE IInv'
  <2>1. Cycle[rows[t].status] \in Status /\ "done" \in Status
    BY <1>2 DEF Cycle, Status
  <2> QED
    BY <1>3, <1>4, <2>1 DEF CycleStatus, MarkDone, SetRowStatus
<1>5. ASSUME RescheduleToday(t) PROVE IInv'
  <2>1. OpFits(Op("row", "today", [x \in {t} |-> Simply("today")], <<>>))
    BY RowRequest DEF Simply
  <2> QED
    BY <1>1, <1>5, <2>1 DEF RescheduleToday
<1>6. ASSUME HandleDelete(t) \/ DeleteOne(t) PROVE IInv'
  <2>1. OpFits(Op("row", "delete", [x \in {t} |-> Simply("delete")], <<>>))
    BY DeletionOp
  <2> QED
    BY <1>1, <1>6, <2>1 DEF HandleDelete, DeleteOne
<1> QED
  BY <1>4, <1>5, <1>6

\* The toast's undo fits as the toast does.
LEMMA Undoing == ASSUME IInv, Undo PROVE IInv'
<1> DEFINE reqs == IF toast.kind = "delete"
                   THEN [t \in {CHOOSE x \in DOMAIN toast.undo : TRUE} |-> Simply("restore")]
                   ELSE [t \in DOMAIN toast.undo |-> Patch(toast.undo[t])]
           op == [by |-> "undo", kind |-> toast.kind, undo |-> toast.undo,
                  seen |-> toast.seen, was |-> toast.was, left |-> toast.left,
                  reqs |-> reqs, out |-> "running", told |-> FALSE]
<1>1. /\ ops' = Append(ops, op) /\ toast' = None
      /\ UNCHANGED <<place, rows, selected, srv, busy, reloads, mounted>>
  BY DEF Undo, page, world
<1>2. ToastFits(toast)
  BY DEF Undo, IInv, ToastInv
<1>3. /\ op.by = "undo" /\ op.kind = toast.kind /\ op.undo = toast.undo
      /\ op.seen = toast.seen /\ op.was = toast.was /\ op.left = toast.left
      /\ op.reqs = reqs /\ op.out = "running" /\ op.told = FALSE
      /\ op = [by |-> op.by, kind |-> op.kind, reqs |-> op.reqs, undo |-> op.undo,
               seen |-> op.seen, was |-> op.was, left |-> op.left,
               out |-> op.out, told |-> op.told]
  OBVIOUS
<1>4. CASE toast.kind = "delete"
  <2>1. \A t \in DOMAIN reqs : /\ reqs[t] = Simply("restore")
                               /\ \A x \in DOMAIN reqs : x = t
    BY <1>4
  <2> HIDE DEF op, reqs
  <2>2. Taken(op) /\ op.undo = op.was
    BY <1>2, <1>3, <1>4 DEF ToastFits, Taken
  <2>3. \A t \in DOMAIN reqs : IsReq(op, t)
    BY <1>3, <2>1, <2>2 DEF IsReq, Simply, Taken
  <2>4. IsOp(op)
    BY <1>3, <2>3 DEF IsOp
  <2>5. UndoFits(op)
    BY <1>3, <1>4, <2>1, <2>2 DEF UndoFits, Simply
  <2>6. OpFits(op)
    BY <1>3, <2>4, <2>5 DEF OpFits
  <2> QED
    BY <1>1, <1>3, <2>6, AddedStep
<1>5. CASE toast.kind # "delete"
  <2>1. /\ DOMAIN reqs = DOMAIN toast.undo
        /\ \A t \in DOMAIN reqs : reqs[t] = Patch(toast.undo[t])
    BY <1>5
  <2> HIDE DEF op, reqs
  <2>2. \A t \in DOMAIN reqs : Undoes(op, t)
    BY <1>2, <1>3, <1>5, <2>1 DEF ToastFits, Undoes, Undone
  <2>3. ASSUME NEW t \in DOMAIN reqs PROVE IsReq(op, t)
    <3>1. t \in Task /\ IsPatch(op.undo[t])
      BY <2>2 DEF Undoes
    <3>2. op.reqs = reqs /\ op.undo = toast.undo
      BY <1>3
    <3>3. op.reqs[t] = Patch(op.undo[t])
      BY <2>1, <3>2
    <3>4. op.reqs[t].do = "patch" /\ op.reqs[t].set = op.undo[t]
      BY ONLY <3>3 DEF Patch
    <3> QED
      BY <3>1, <3>4 DEF IsReq
  <2>4. IsOp(op)
    BY <1>3, <2>3 DEF IsOp
  <2>5. UndoFits(op)
    BY <1>3, <1>5, <2>1, <2>2 DEF UndoFits
  <2>6. OpFits(op)
    BY <1>3, <2>4, <2>5 DEF OpFits
  <2> QED
    BY <1>1, <1>3, <2>6, AddedStep
<1> QED
  BY <1>4, <1>5

-------------------------------------------------------------------------------
(* The answers.                                                             *)

LEMMA AnsweredIs ==
    ASSUME NEW op, IsOp(op), NEW ids, NEW out, NEW n, n = Answered(op, ids, out)
    PROVE  /\ n.by = op.by /\ n.kind = op.kind /\ n.undo = op.undo /\ n.seen = op.seen
           /\ n.was = op.was /\ n.left = op.left /\ n.told = op.told /\ n.out = out
           /\ DOMAIN n.reqs = DOMAIN op.reqs \ ids
           /\ \A x \in DOMAIN n.reqs : n.reqs[x] = op.reqs[x]
           /\ n = [by |-> n.by, kind |-> n.kind, reqs |-> n.reqs, undo |-> n.undo,
                   seen |-> n.seen, was |-> n.was, left |-> n.left,
                   out |-> n.out, told |-> n.told]
<1>1. op = [by |-> op.by, kind |-> op.kind, reqs |-> op.reqs, undo |-> op.undo,
            seen |-> op.seen, was |-> op.was, left |-> op.left,
            out |-> op.out, told |-> op.told]
  BY DEF IsOp
<1>2. PICK reqs : reqs = [x \in DOMAIN op.reqs \ ids |-> op.reqs[x]]
  OBVIOUS
<1>3. n = [op EXCEPT !.reqs = reqs, !.out = out]
  BY <1>2 DEF Answered
<1>4. n = [by |-> op.by, kind |-> op.kind, reqs |-> reqs, undo |-> op.undo,
           seen |-> op.seen, was |-> op.was, left |-> op.left,
           out |-> out, told |-> op.told]
  BY ONLY <1>1, <1>3
<1>5. DOMAIN reqs = DOMAIN op.reqs \ ids /\ \A x \in DOMAIN reqs : reqs[x] = op.reqs[x]
  BY <1>2
<1> QED
  BY ONLY <1>4, <1>5

LEMMA NotedIs ==
    ASSUME NEW op, IsOp(op), ~op.told, NEW e, NEW n, n = Noted(op, e)
    PROVE  /\ n.by = op.by /\ n.kind = op.kind /\ n.undo = op.undo /\ n.seen = op.seen
           /\ n.reqs = op.reqs /\ n.told = op.told /\ n.out = op.out
           /\ DOMAIN n.was = DOMAIN op.was \cup DOMAIN e
           /\ \A x \in DOMAIN op.was : n.was[x] = op.was[x]
           /\ \A x \in DOMAIN e : x \notin DOMAIN op.was => n.was[x] = srv[x]
           /\ DOMAIN n.left = DOMAIN op.left \cup DOMAIN e
           /\ \A x \in DOMAIN e : n.left[x] = e[x]
           /\ \A x \in DOMAIN op.left : x \notin DOMAIN e => n.left[x] = op.left[x]
           /\ n = [by |-> n.by, kind |-> n.kind, reqs |-> n.reqs, undo |-> n.undo,
                   seen |-> n.seen, was |-> n.was, left |-> n.left,
                   out |-> n.out, told |-> n.told]
<1>1. op = [by |-> op.by, kind |-> op.kind, reqs |-> op.reqs, undo |-> op.undo,
            seen |-> op.seen, was |-> op.was, left |-> op.left,
            out |-> op.out, told |-> op.told]
  BY DEF IsOp
<1>2. PICK was : was = Over(op.was, [x \in DOMAIN e |-> srv[x]])
  OBVIOUS
<1>3. PICK left : left = Over(e, op.left)
  OBVIOUS
<1>4. n = [op EXCEPT !.was = was, !.left = left]
  BY <1>2, <1>3 DEF Noted
<1>5. n = [by |-> op.by, kind |-> op.kind, reqs |-> op.reqs, undo |-> op.undo,
           seen |-> op.seen, was |-> was, left |-> left,
           out |-> op.out, told |-> op.told]
  BY ONLY <1>1, <1>4
<1>6. /\ DOMAIN was = DOMAIN op.was \cup DOMAIN e
      /\ \A x \in DOMAIN op.was : was[x] = op.was[x]
      /\ \A x \in DOMAIN e : x \notin DOMAIN op.was => was[x] = srv[x]
  BY <1>2 DEF Over
<1>7. /\ DOMAIN left = DOMAIN op.left \cup DOMAIN e
      /\ \A x \in DOMAIN e : left[x] = e[x]
      /\ \A x \in DOMAIN op.left : x \notin DOMAIN e => left[x] = op.left[x]
  BY <1>3 DEF Over
<1> QED
  BY ONLY <1>5, <1>6, <1>7

\* An answer leaves an operation that fits.
LEMMA AnsweredFits ==
    ASSUME NEW op, OpFits(op), NEW ids, NEW out, op.told => out # "running"
    PROVE  OpFits(Answered(op, ids, out))
<1>1. PICK n : n = Answered(op, ids, out)
  OBVIOUS
<1>2. IsOp(op)
  BY DEF OpFits
<1>3. /\ n.by = op.by /\ n.kind = op.kind /\ n.undo = op.undo /\ n.seen = op.seen
      /\ n.was = op.was /\ n.left = op.left /\ n.told = op.told /\ n.out = out
      /\ DOMAIN n.reqs \subseteq DOMAIN op.reqs
      /\ \A x \in DOMAIN n.reqs : n.reqs[x] = op.reqs[x]
      /\ n = [by |-> n.by, kind |-> n.kind, reqs |-> n.reqs, undo |-> n.undo,
              seen |-> n.seen, was |-> n.was, left |-> n.left,
              out |-> n.out, told |-> n.told]
  BY <1>1, <1>2, AnsweredIs
<1>4. IsOp(n)
  <2>1. \A x \in DOMAIN n.reqs : IsReq(n, x)
    BY <1>2, <1>3 DEF IsOp, IsReq
  <2> QED
    BY <1>2, <1>3, <2>1 DEF IsOp
<1>5. DeleteFits(op) => DeleteFits(n)
  BY <1>3 DEF DeleteFits, Taken
<1>6. BulkFits(op) => BulkFits(n)
  BY <1>3 DEF BulkFits, Undoes, Undone
<1>7. UndoFits(op) => UndoFits(n)
  BY <1>3 DEF UndoFits, Taken, Undoes, Undone
<1>8. OpFits(n)
  BY <1>3, <1>4, <1>5, <1>6, <1>7 DEF OpFits
<1> QED
  BY <1>1, <1>8

\* What a request makes of the rows it changes.
LEMMA EffectIs ==
    ASSUME IInv, NEW i \in 1..Len(ops), NEW t \in DOMAIN ops[i].reqs, ~Rejects(i, t)
    PROVE  /\ DOMAIN Effect(i, t) \subseteq Task
           /\ \A x \in DOMAIN Effect(i, t) :
                 Effect(i, t)[x] = None \/ Good(x, Effect(i, t)[x])
           /\ ops[i].reqs[t].do = "patch" =>
                 /\ t \in Task /\ Exists(t) /\ DOMAIN Effect(i, t) = {t}
                 /\ Effect(i, t)[t] = Patched(srv[t], ops[i].reqs[t].set)
                 /\ Effect(i, t)[t] \in Row
           /\ ops[i].reqs[t].do = "delete" =>
                 /\ \A x \in DOMAIN Effect(i, t) : Exists(x) /\ Effect(i, t)[x] = None
           /\ ops[i].reqs[t].do = "today" =>
                 /\ DOMAIN Effect(i, t) \subseteq {t}
                 /\ \A x \in DOMAIN Effect(i, t) :
                       Effect(i, t)[x] = Made(srv[t], ops[i].reqs[t]) /\ Effect(i, t)[x] \in Row
<1> DEFINE q == ops[i].reqs[t]
<1>1. IsReq(ops[i], t)
  BY DEF IInv, OpsInv, OpFits, IsOp
<1>2. q.do \in {"patch", "delete", "today", "restore"} /\ (q.do # "restore" => t \in Task)
  BY <1>1 DEF IsReq
<1>3. \A x \in Task : Exists(x) => Good(x, srv[x]) /\ srv[x] \in Row
  BY DEF IInv, SrvInv, Good
<1>4. CASE q.do = "patch"
  <2>1. Effect(i, t) = [x \in {t} |-> Patched(srv[x], q.set)]
    BY <1>4 DEF Effect
  <2>2. IsPatch(q.set) /\ ~Refused(t, q.set) /\ t \in Task
    BY <1>1, <1>2, <1>4 DEF IsReq, Rejects
  <2>3. Exists(t)
    BY <2>2 DEF Refused
  <2>4. Good(t, Patched(srv[t], q.set))
    BY <1>3, <2>2, <2>3, AcceptedIsGood
  <2> QED
    BY <1>4, <2>1, <2>2, <2>3, <2>4 DEF Good
<1>5. CASE q.do = "delete"
  <2>1. Effect(i, t) = [x \in Family(t) |-> None]
    BY <1>5 DEF Effect
  <2>2. Exists(t) /\ t \in Task
    BY <1>2, <1>5 DEF Rejects
  <2>3. \A x \in Family(t) : x \in Task /\ Exists(x)
    BY <2>2 DEF Family, Children
  <2> QED
    BY <1>5, <2>1, <2>3
<1>6. CASE q.do = "today"
  <2>1. Effect(i, t) = IF Exists(t) /\ srv[t].home # "pool"
                       THEN [x \in {t} |-> Made(srv[t], q)] ELSE <<>>
    BY <1>6 DEF Effect, Made, AtToday
  <2>2. DOMAIN <<>> = {}
    OBVIOUS
  <2>3. CASE Exists(t) /\ srv[t].home # "pool"
    <3>1. PICK row : row = srv[t]
      OBVIOUS
    <3>2. row \in Row /\ Sound(row) /\ row.home # "pool" /\ t \in Task
      BY <1>2, <1>3, <1>6, <2>3, <3>1 DEF Good
    <3>3. PICK new : new = Made(row, q)
      OBVIOUS
    <3>4. /\ new \in Row /\ new.home = row.home /\ new.week = row.week /\ new.who = row.who
          /\ new.period = 0
      BY <1>6, <3>2, <3>3, TodayIs DEF Made
    <3>5. Good(t, new)
      BY <3>2, <3>4, BulkAssumption DEF Good, Sound
    <3> QED
      BY <1>6, <2>1, <2>3, <3>1, <3>2, <3>3, <3>4, <3>5
  <2>4. CASE ~(Exists(t) /\ srv[t].home # "pool")
    <3>1. Effect(i, t) = <<>>
      BY <2>1, <2>4
    <3>2. DOMAIN Effect(i, t) = {}
      BY <2>2, <3>1
    <3> QED
      BY <1>6, <3>2
  <2> QED
    BY <2>3, <2>4
<1>7. CASE q.do = "restore"
  <2>1. Effect(i, t) = [x \in Revived(ops[i].undo) |-> ops[i].undo[x]]
    BY <1>7 DEF Effect
  <2>2. IsRows(ops[i].undo) /\ Revived(ops[i].undo) \subseteq DOMAIN ops[i].undo
    BY <1>1, <1>7 DEF IsReq, Revived
  <2> QED
    BY <1>7, <2>1, <2>2 DEF IsRows
<1> QED
  BY <1>2, <1>4, <1>5, <1>6, <1>7

\* A served request leaves an operation that fits.
LEMMA AppliedFits ==
    ASSUME IInv, NEW i \in 1..Len(ops), NEW t \in DOMAIN ops[i].reqs, ~Rejects(i, t),
           NEW out, ops[i].told => out # "running"
    PROVE  OpFits(Answered(Noted(ops[i], Effect(i, t)), {t}, out))
<1>1. PICK op : op = ops[i]
  OBVIOUS
<1>2. PICK e : e = Effect(i, t)
  OBVIOUS
<1>3. OpFits(op) /\ IsOp(op) /\ t \in DOMAIN op.reqs
  BY <1>1 DEF IInv, OpsInv, OpFits
<1>4. CASE op.told
  <2>1. Noted(op, e) = op
    BY <1>4 DEF Noted
  <2> QED
    BY <1>1, <1>2, <1>3, <2>1, AnsweredFits
<1>5. CASE ~op.told
  <2>0. /\ DOMAIN e \subseteq Task
        /\ op.reqs[t].do = "patch" =>
              DOMAIN e = {t} /\ e[t] = Patched(srv[t], op.reqs[t].set) /\ e[t] \in Row
        /\ op.reqs[t].do = "delete" => \A x \in DOMAIN e : Exists(x) /\ e[x] = None
        /\ op.reqs[t].do = "today" =>
              /\ DOMAIN e \subseteq {t}
              /\ \A x \in DOMAIN e : e[x] = Made(srv[t], op.reqs[t]) /\ e[x] \in Row
    <3>1. /\ DOMAIN Effect(i, t) \subseteq Task
          /\ op.reqs[t].do = "patch" =>
                /\ DOMAIN Effect(i, t) = {t} /\ Effect(i, t)[t] \in Row
                /\ Effect(i, t)[t] = Patched(srv[t], op.reqs[t].set)
      BY <1>1, EffectIs
    <3>2. op.reqs[t].do = "delete" =>
            \A x \in DOMAIN Effect(i, t) : Exists(x) /\ Effect(i, t)[x] = None
      BY <1>1, EffectIs
    <3>3. op.reqs[t].do = "today" =>
            /\ DOMAIN Effect(i, t) \subseteq {t}
            /\ \A x \in DOMAIN Effect(i, t) :
                  /\ Effect(i, t)[x] = Made(srv[t], op.reqs[t])
                  /\ Effect(i, t)[x] \in Row
      <4>1. ops[i].reqs[t].do = "today" =>
              /\ DOMAIN Effect(i, t) \subseteq {t}
              /\ \A x \in DOMAIN Effect(i, t) :
                    Effect(i, t)[x] = Made(srv[t], ops[i].reqs[t]) /\ Effect(i, t)[x] \in Row
        BY EffectIs
      <4> QED
        BY <1>1, <4>1
    <3> QED
      BY <1>2, <3>1, <3>2, <3>3
  <2>1. PICK m : m = Noted(op, e)
    OBVIOUS
  <2>2. PICK n : n = Answered(m, {t}, out)
    OBVIOUS
  <2>3. /\ m.by = op.by /\ m.kind = op.kind /\ m.undo = op.undo /\ m.seen = op.seen
        /\ m.reqs = op.reqs /\ m.told = op.told /\ m.out = op.out
        /\ DOMAIN m.was = DOMAIN op.was \cup DOMAIN e
        /\ \A x \in DOMAIN op.was : m.was[x] = op.was[x]
        /\ \A x \in DOMAIN e : x \notin DOMAIN op.was => m.was[x] = srv[x]
        /\ DOMAIN m.left = DOMAIN op.left \cup DOMAIN e
        /\ \A x \in DOMAIN e : m.left[x] = e[x]
        /\ \A x \in DOMAIN op.left : x \notin DOMAIN e => m.left[x] = op.left[x]
        /\ m = [by |-> m.by, kind |-> m.kind, reqs |-> m.reqs, undo |-> m.undo,
                seen |-> m.seen, was |-> m.was, left |-> m.left,
                out |-> m.out, told |-> m.told]
    BY <1>3, <1>5, <2>1, NotedIs
  <2>4. IsOp(m)
    <3>1. \A x \in DOMAIN m.reqs : IsReq(m, x)
      BY <1>3, <2>3 DEF IsOp, IsReq
    <3> QED
      BY <1>3, <1>5, <2>3, <3>1 DEF IsOp
  <2>5. /\ n.by = m.by /\ n.kind = m.kind /\ n.undo = m.undo /\ n.seen = m.seen
        /\ n.was = m.was /\ n.left = m.left /\ n.told = m.told /\ n.out = out
        /\ DOMAIN n.reqs = DOMAIN m.reqs \ {t}
        /\ \A x \in DOMAIN n.reqs : n.reqs[x] = m.reqs[x]
        /\ n = [by |-> n.by, kind |-> n.kind, reqs |-> n.reqs, undo |-> n.undo,
                seen |-> n.seen, was |-> n.was, left |-> n.left,
                out |-> n.out, told |-> n.told]
    <3>1. PICK ids : ids = {t}
      OBVIOUS
    <3>2. n = Answered(m, ids, out)
      BY <2>2, <3>1
    <3>3. /\ n.by = m.by /\ n.kind = m.kind /\ n.undo = m.undo /\ n.seen = m.seen
          /\ n.was = m.was /\ n.left = m.left /\ n.told = m.told /\ n.out = out
          /\ DOMAIN n.reqs = DOMAIN m.reqs \ ids
          /\ \A x \in DOMAIN n.reqs : n.reqs[x] = m.reqs[x]
          /\ n = [by |-> n.by, kind |-> n.kind, reqs |-> n.reqs, undo |-> n.undo,
                  seen |-> n.seen, was |-> n.was, left |-> n.left,
                  out |-> n.out, told |-> n.told]
      BY ONLY <2>4, <3>2, AnsweredIs
    <3> QED
      BY ONLY <3>1, <3>3
  <2>6. /\ n.by = op.by /\ n.kind = op.kind /\ n.undo = op.undo /\ n.seen = op.seen
        /\ n.told = FALSE /\ DOMAIN n.reqs = DOMAIN op.reqs \ {t}
        /\ \A x \in DOMAIN n.reqs : n.reqs[x] = op.reqs[x]
        /\ DOMAIN n.was = DOMAIN op.was \cup DOMAIN e
        /\ \A x \in DOMAIN op.was : n.was[x] = op.was[x]
        /\ \A x \in DOMAIN e : x \notin DOMAIN op.was => n.was[x] = srv[x]
        /\ DOMAIN n.left = DOMAIN op.left \cup DOMAIN e
        /\ \A x \in DOMAIN e : n.left[x] = e[x]
        /\ \A x \in DOMAIN op.left : x \notin DOMAIN e => n.left[x] = op.left[x]
    <3>1. op.told = FALSE
      BY <1>3, <1>5 DEF IsOp
    <3> QED
      BY <2>3, <2>5, <3>1
  <2>7. IsOp(n)
    <3>1. \A x \in DOMAIN n.reqs : IsReq(n, x)
      BY <1>3, <2>6 DEF IsOp, IsReq
    <3> QED
      BY <2>5, <2>6, <3>1 DEF IsOp
  <2>8. ASSUME NEW x, x \notin DOMAIN e, Undoes(op, x) PROVE Undoes(n, x)
    BY <2>6, <2>8 DEF Undoes, Undone
  <2>9. ASSUME op.by # "undo", op.kind = "delete" PROVE DeleteFits(n)
    <3>1. DeleteFits(op) /\ op.reqs[t].do = "delete"
      BY <1>3, <1>5, <2>9 DEF OpFits, DeleteFits
    <3>2. \A x \in DOMAIN e : x \in Task /\ Exists(x) /\ e[x] = None
      BY <2>0, <3>1
    <3>3. \A x \in DOMAIN e : Good(x, srv[x])
      BY <3>2 DEF IInv, SrvInv
    <3>4. Taken(n)
      BY <2>6, <3>1, <3>2, <3>3 DEF DeleteFits, Taken, IsRows
    <3> QED
      BY <2>6, <3>1, <3>4 DEF DeleteFits
  <2>10. ASSUME op.by = "bulk", op.kind # "delete" PROVE BulkFits(n)
    <3>1. BulkFits(op)
      BY <1>3, <1>5, <2>10 DEF OpFits
    <3>2. /\ t \in DOMAIN op.undo /\ t \notin DOMAIN op.was /\ Undoes(op, t)
          /\ Offer(op.kind, t, op.seen[t], op.reqs[t], op.undo[t])
      BY <1>3, <3>1 DEF BulkFits
    <3>3. /\ DOMAIN e \subseteq {t}
          /\ \A x \in DOMAIN e : e[x] = Made(srv[t], op.reqs[t]) /\ e[x] # None
      <4>1. None \notin Row
        BY BulkAssumption
      <4>2. CASE op.reqs[t].do = "patch"
        BY <2>0, <4>1, <4>2 DEF Made
      <4>3. CASE op.reqs[t].do = "today"
        BY <2>0, <4>1, <4>3 DEF Made
      <4> QED
        BY <3>2, <4>2, <4>3 DEF Offer
    <3>4. Undoes(n, t)
      <4>1. CASE t \in DOMAIN e
        <5>1. n.was[t] = srv[t] /\ n.left[t] = Made(srv[t], op.reqs[t]) /\ n.left[t] # None
          BY <2>6, <3>2, <3>3, <4>1
        <5>2. srv[t] = op.seen[t] => Back(op.kind, t, srv[t], n.left[t], op.undo[t])
          BY <3>2, <5>1 DEF Offer
        <5> QED
          BY <2>6, <3>2, <4>1, <5>1, <5>2 DEF Undoes, Undone
      <4>2. CASE t \notin DOMAIN e
        BY <2>8, <3>2, <4>2
      <4> QED
        BY <4>1, <4>2
    <3>5. \A x \in DOMAIN n.undo : Undoes(n, x)
      BY <2>6, <2>8, <3>1, <3>3, <3>4 DEF BulkFits
    <3>6. ASSUME NEW x \in DOMAIN n.reqs
          PROVE  /\ x \in DOMAIN n.undo /\ x \notin DOMAIN n.was
                 /\ Offer(n.kind, x, n.seen[x], n.reqs[x], n.undo[x])
      <4>1. x \in DOMAIN op.reqs /\ x # t /\ n.reqs[x] = op.reqs[x]
        BY <2>6
      <4>2. /\ x \in DOMAIN op.undo /\ x \notin DOMAIN op.was
            /\ Offer(op.kind, x, op.seen[x], op.reqs[x], op.undo[x])
        BY <3>1, <4>1 DEF BulkFits
      <4> QED
        BY <2>6, <3>3, <4>1, <4>2
    <3> QED
      BY <3>5, <3>6 DEF BulkFits
  <2>11. ASSUME op.by = "undo" PROVE UndoFits(n)
    <3>1. UndoFits(op)
      BY <1>3, <1>5, <2>11 DEF OpFits
    <3>2. SUFFICES ASSUME NEW x \in DOMAIN n.reqs
                   PROVE  /\ n.kind # "delete"
                          /\ n.reqs[x] = Patch(n.undo[x]) /\ Undoes(n, x)
      BY DEF UndoFits
    <3>3. x \in DOMAIN op.reqs /\ x # t /\ n.reqs[x] = op.reqs[x]
      BY <2>6
    <3>4. op.kind # "delete"
      BY <1>3, <3>1, <3>3 DEF UndoFits
    <3>5. op.reqs[t] = Patch(op.undo[t]) /\ op.reqs[x] = Patch(op.undo[x]) /\ Undoes(op, x)
      BY <1>3, <3>1, <3>3, <3>4 DEF UndoFits
    <3>6. op.reqs[t].do = "patch"
      BY <3>5 DEF Patch
    <3>7. DOMAIN e = {t}
      BY <2>0, <3>6
    <3> QED
      BY <2>6, <2>8, <3>3, <3>4, <3>5, <3>7
  <2>12. op.by = "bulk" => \A x \in DOMAIN n.reqs : x \in DOMAIN n.seen /\ Good(x, n.seen[x])
    BY <1>3, <1>5, <2>6 DEF OpFits
  <2>13. OpFits(n)
    BY <2>6, <2>7, <2>9, <2>10, <2>11, <2>12 DEF OpFits
  <2> QED
    BY <1>1, <1>2, <2>1, <2>2, <2>13
<1> QED
  BY <1>4, <1>5

\* An answered operation, where it was and as live as it was.
LEMMA OpStep ==
    ASSUME IInv, NEW i \in 1..Len(ops), NEW op, OpFits(op), LiveOp(op) = LiveOp(ops[i]),
           ops' = [ops EXCEPT ![i] = op], SrvInv',
           UNCHANGED <<place, page, busy, reloads, toast, mounted>>
    PROVE  IInv'
<1>1. /\ OpsInv'
      /\ NoLive(ops) => NoLive(ops')
      /\ OneLive(ops) => OneLive(ops')
  BY OpChanged DEF IInv
<1>2. BusyInv'
  BY <1>1 DEF IInv, BusyInv, place
<1>3. UNCHANGED <<rows, selected>>
  BY DEF page
<1>4. PageInv'
  BY <1>3, RowsStay DEF IInv, PageInv, SelectionShown
<1> QED
  BY <1>1, <1>2, <1>4, PlaceStays, ToastStays DEF IInv

LEMMA LostStep ==
    ASSUME IInv, NEW i \in 1..Len(ops), NEW t \in DOMAIN ops[i].reqs, NEW out,
           ops[i].told => out # "running", Lost(i, t, out),
           UNCHANGED <<place, page, busy, reloads, toast, mounted>>
    PROVE  IInv'
<1>1. PICK op : op = Answered(ops[i], Halted(i, t), out)
  OBVIOUS
<1>2. OpFits(ops[i]) /\ IsOp(ops[i])
  BY DEF IInv, OpsInv, OpFits
<1>3. OpFits(op)
  BY <1>1, <1>2, AnsweredFits
<1>4. LiveOp(op) = LiveOp(ops[i])
  BY <1>1, <1>2, AnsweredIs DEF LiveOp
<1>5. ops' = [ops EXCEPT ![i] = op] /\ UNCHANGED srv
  BY <1>1 DEF Lost
<1>6. SrvInv'
  BY <1>5, ServerStays DEF IInv
<1> QED
  BY <1>3, <1>4, <1>5, <1>6, OpStep

LEMMA AppliedStep ==
    ASSUME IInv, NEW i \in 1..Len(ops), NEW t \in DOMAIN ops[i].reqs, NEW out,
           ops[i].told => out # "running", ~Rejects(i, t), Applied(i, t, out),
           UNCHANGED <<place, page, busy, reloads, toast, mounted>>
    PROVE  IInv'
<1>1. PICK op : op = Answered(Noted(ops[i], Effect(i, t)), {t}, out)
  OBVIOUS
<1>2. OpFits(ops[i]) /\ IsOp(ops[i])
  BY DEF IInv, OpsInv, OpFits
<1>3. OpFits(op) /\ IsOp(op)
  BY <1>1, AppliedFits DEF OpFits
<1>4. LiveOp(op) = LiveOp(ops[i])
  <2>1. PICK m : m = Noted(ops[i], Effect(i, t))
    OBVIOUS
  <2>2. op.by = m.by /\ op.told = m.told
    BY <1>1, <2>1 DEF Answered
  <2>3. m.by = ops[i].by /\ m.told = ops[i].told
    BY <2>1 DEF Noted
  <2> QED
    BY <2>2, <2>3 DEF LiveOp
<1>5. ops' = [ops EXCEPT ![i] = op] /\ srv' = Over(Effect(i, t), srv)
  BY <1>1 DEF Applied
<1>6. SrvInv'
  <2>1. PICK e : e = Effect(i, t)
    OBVIOUS
  <2>2. DOMAIN e \subseteq Task /\ \A x \in DOMAIN e : e[x] = None \/ Good(x, e[x])
    BY <2>1, EffectIs
  <2>3. srv \in [Task -> Row \cup {None}] /\ \A x \in Task : srv[x] # None => Good(x, srv[x])
    BY DEF IInv, SrvInv, Exists
  <2>4. srv' = [x \in Task |-> IF x \in DOMAIN e THEN e[x] ELSE srv[x]]
    BY <1>5, <2>1, <2>2, <2>3 DEF Over
  <2>5. \A x \in Task : srv'[x] = None \/ Good(x, srv'[x])
    BY <2>2, <2>3, <2>4
  <2>6. srv' \in [Task -> Row \cup {None}]
    BY <2>4, <2>5 DEF Good
  <2> QED
    BY <2>5, <2>6, PlaceStays DEF SrvInv, Exists
<1> QED
  BY <1>3, <1>4, <1>5, <1>6, OpStep

LEMMA Serving ==
    ASSUME IInv, NEW i \in 1..Len(ops), NEW t \in DOMAIN ops[i].reqs, Serve(i, t) \/ Fail(i, t)
    PROVE  IInv'
<1>1. UNCHANGED <<place, page, busy, reloads, toast, mounted>>
  BY DEF Serve, Fail
<1>2. ops[i].told => ops[i].out # "running"
  BY DEF IInv, OpsInv, OpFits, IsOp
<1>3. /\ ops[i].told => Worse(i, "refused") # "running"
      /\ ops[i].told => Worse(i, "failed") # "running"
  BY <1>2 DEF Worse
<1>4. CASE Serve(i, t)
  BY <1>1, <1>2, <1>3, <1>4, LostStep, AppliedStep DEF Serve
<1>5. CASE Fail(i, t)
  BY <1>1, <1>2, <1>3, <1>5, LostStep, AppliedStep DEF Fail
<1> QED
  BY <1>4, <1>5

\* The toast gets what it needs to undo, and the page one bulk action less.
LEMMA Succeeding == ASSUME IInv, NEW i \in 1..Len(ops), Succeed(i) PROVE IInv'
<1>1. PICK op : op = ops[i]
  OBVIOUS
<1>2. /\ op.out = "running" /\ ops' = Without(ops, i)
      /\ busy' = (busy /\ op.by # "bulk")
      /\ selected' \in {selected, {}}
      /\ reloads' = Append(reloads, None) \/ UNCHANGED reloads
      /\ toast' = toast \/ (toast' = Undoable(op) /\ op.by \in {"bulk", "row"}
                            /\ (op.by = "row" => op.kind = "delete"))
      /\ UNCHANGED <<place, rows, srv, mounted>>
  BY <1>1 DEF Succeed, world
<1>3. OpFits(op) /\ ~op.told
  BY <1>1, <1>2 DEF IInv, OpsInv, OpFits, IsOp
<1>4. /\ OpsInv'
      /\ ~LiveOp(op) => /\ NoLive(ops) => NoLive(ops')
                        /\ OneLive(ops) => OneLive(ops')
      /\ LiveOp(op) => /\ ~NoLive(ops)
                       /\ OneLive(ops) => NoLive(ops')
  BY <1>1, <1>2, OpGone DEF IInv
<1>5. BusyInv'
  <2>1. busy \in BOOLEAN /\ UNCHANGED <<view, mounted>>
    BY <1>2 DEF IInv, BusyInv, place
  <2>2. CASE op.by = "bulk"
    <3>1. LiveOp(op) /\ busy' = FALSE
      BY <1>2, <1>3, <2>2 DEF LiveOp
    <3> QED
      BY <1>4, <2>1, <3>1 DEF IInv, BusyInv
  <2>3. CASE op.by # "bulk"
    <3>1. ~LiveOp(op) /\ busy' = busy
      BY <1>2, <2>1, <2>3 DEF LiveOp
    <3> QED
      BY <1>4, <2>1, <3>1 DEF IInv, BusyInv
  <2> QED
    BY <2>2, <2>3
<1>6. PageInv'
  <2>1. IsSeq(reloads) /\ Shown(rows) /\ selected \subseteq DOMAIN rows
    BY DEF IInv, PageInv, SelectionShown
  <2>2. /\ IsSeq(reloads')
        /\ \A j \in 1..Len(reloads') :
              reloads'[j] = None \/ (j \in 1..Len(reloads) /\ reloads'[j] = reloads[j])
    <3>1. CASE UNCHANGED reloads
      BY <2>1, <3>1
    <3>2. CASE reloads' = Append(reloads, None)
      <4>1. /\ IsSeq(Append(reloads, None)) /\ Len(reloads) \in Nat
            /\ Len(Append(reloads, None)) = Len(reloads) + 1
            /\ Append(reloads, None)[Len(reloads) + 1] = None
            /\ \A j \in 1..Len(reloads) : Append(reloads, None)[j] = reloads[j]
        BY <2>1, AppendIs
      <4> QED
        BY <3>2, <4>1
    <3> QED
      BY <1>2, <3>1, <3>2
  <2> QED
    BY <1>2, <2>1, <2>2, PlaceStays DEF IInv, PageInv, SelectionShown
<1>7. ToastInv'
  <2>1. CASE toast' = toast
    BY <1>2, <2>1, ToastStays DEF IInv
  <2>2. CASE toast' = Undoable(op) /\ op.by \in {"bulk", "row"}
             /\ (op.by = "row" => op.kind = "delete")
    <3>1. PICK x : x = Undoable(op)
      OBVIOUS
    <3>2. /\ x.kind = op.kind /\ x.seen = op.seen /\ x.was = op.was /\ x.left = op.left
          /\ x.undo = IF op.kind = "delete" THEN op.was ELSE op.undo
      BY <3>1 DEF Undoable
    <3>3. op.kind = "delete" => Taken(x)
      BY <1>3, <2>2, <3>2 DEF OpFits, DeleteFits, Taken
    <3>4. op.kind # "delete" => \A t \in DOMAIN x.undo : Undoes(x, t)
      BY <1>3, <2>2, <3>2 DEF OpFits, BulkFits, Undoes, Undone
    <3>5. ToastFits(x)
      BY <3>2, <3>3, <3>4 DEF ToastFits
    <3>6. ToastFits(x)'
      BY <1>2, <3>5, PlaceStays
    <3> QED
      BY <2>2, <3>1, <3>6 DEF ToastInv
  <2> QED
    BY <1>2, <2>1, <2>2
<1> QED
  BY <1>2, <1>4, <1>5, <1>6, <1>7, PlaceStays, ServerStays DEF IInv

LEMMA Telling == ASSUME IInv, NEW i \in 1..Len(ops), Tell(i) PROVE IInv'
<1>1. PICK op : op = ops[i]
  OBVIOUS
<1>2. PICK n : n = Unheard(op)
  OBVIOUS
<1>3. /\ op.out # "running" /\ ~op.told /\ ops' = [ops EXCEPT ![i] = n]
      /\ busy' = (busy /\ op.by # "bulk")
      /\ UNCHANGED <<place, rows, selected, srv, reloads, toast, mounted>>
  BY <1>1, <1>2 DEF Tell, page, world
<1>4. IsOp(op)
  BY <1>1 DEF IInv, OpsInv, OpFits
<1>5. /\ n.by = op.by /\ n.reqs = op.reqs /\ n.undo = op.undo /\ n.out = op.out
      /\ n.told = TRUE /\ n.was = <<>>
      /\ n = [by |-> n.by, kind |-> n.kind, reqs |-> n.reqs, undo |-> n.undo,
              seen |-> n.seen, was |-> n.was, left |-> n.left,
              out |-> n.out, told |-> n.told]
  BY <1>2, <1>4 DEF Unheard, IsOp
<1>6. OpFits(n)
  <2>1. DOMAIN n.was = {}
    BY <1>5
  <2>2. \A t \in DOMAIN n.reqs : IsReq(n, t)
    BY <1>4, <1>5 DEF IsOp, IsReq
  <2>3. IsOp(n)
    BY <1>3, <1>5, <2>1, <2>2 DEF IsOp
  <2> QED
    BY <1>5, <2>3 DEF OpFits
<1>7. /\ OpsInv'
      /\ LiveOp(n) = LiveOp(op) => /\ NoLive(ops) => NoLive(ops')
                                   /\ OneLive(ops) => OneLive(ops')
      /\ ~LiveOp(n) /\ LiveOp(op) => /\ ~NoLive(ops)
                                     /\ OneLive(ops) => NoLive(ops')
  BY <1>1, <1>3, <1>6, OpChanged DEF IInv
<1>8. BusyInv'
  <2>1. busy \in BOOLEAN /\ UNCHANGED <<view, mounted>> /\ ~LiveOp(n)
    BY <1>3, <1>5 DEF IInv, BusyInv, place, LiveOp
  <2>2. CASE op.by = "bulk"
    <3>1. LiveOp(op) /\ busy' = FALSE
      BY <1>3, <2>2 DEF LiveOp
    <3> QED
      BY <1>7, <2>1, <3>1 DEF IInv, BusyInv
  <2>3. CASE op.by # "bulk"
    <3>1. LiveOp(op) = FALSE /\ LiveOp(n) = FALSE /\ busy' = busy
      BY <1>3, <1>5, <2>1, <2>3 DEF LiveOp
    <3> QED
      BY <1>7, <2>1, <3>1 DEF IInv, BusyInv
  <2> QED
    BY <2>2, <2>3
<1>9. selected' \subseteq DOMAIN rows
  BY <1>3 DEF IInv, PageInv, SelectionShown
<1>10. PageInv'
  BY <1>3, <1>9, RowsStay DEF IInv
<1> QED
  BY <1>3, <1>7, <1>8, <1>10, PlaceStays, ServerStays, ToastStays DEF IInv

LEMMA Forgetting ==
    ASSUME IInv, Dismiss \/ \E i \in 1..Len(ops) : Forgotten(i) PROVE IInv'
<1>1. /\ UNCHANGED <<place, rows, selected, srv, busy, reloads, mounted>>
      /\ toast' \in {toast, None}
  BY DEF Dismiss, Forgotten, page, world
<1>2. selected' \subseteq DOMAIN rows
  BY <1>1 DEF IInv, PageInv, SelectionShown
<1>3. PageInv'
  BY <1>1, <1>2, RowsStay DEF IInv
<1>4. OpsInv' /\ (NoLive(ops) => NoLive(ops')) /\ (OneLive(ops) => OneLive(ops'))
  <2>1. CASE Dismiss
    <3>1. UNCHANGED ops
      BY <2>1 DEF Dismiss
    <3> QED
      BY <1>1, <3>1, OpsStay DEF IInv
  <2>2. ASSUME NEW i \in 1..Len(ops), Forgotten(i)
        PROVE OpsInv' /\ (NoLive(ops) => NoLive(ops')) /\ (OneLive(ops) => OneLive(ops'))
    <3>1. ~LiveOp(ops[i]) /\ ops' = Without(ops, i)
      BY <2>2 DEF Forgotten, LiveOp
    <3> QED
      BY <1>1, <3>1, OpGone DEF IInv
  <2> QED
    BY <2>1, <2>2
<1>5. BusyInv'
  BY <1>1, <1>4 DEF IInv, BusyInv, place
<1> QED
  BY <1>1, <1>3, <1>4, <1>5, PlaceStays, ServerStays, ToastStays DEF IInv

\* Another client's write leaves good rows.
LEMMA Elsewheres == ASSUME IInv, NEW t \in Task, Elsewhere(t) PROVE IInv'
<1>1. UNCHANGED <<place, rows, selected, busy, ops, reloads, toast, mounted>> /\ Exists(t)
  BY DEF Elsewhere, page
<1>2. srv \in [Task -> Row \cup {None}] /\ \A x \in Task : srv[x] # None => Good(x, srv[x])
  BY DEF IInv, SrvInv, Exists
<1>3. SrvInv'
  <2>1. srv' \in [Task -> Row \cup {None}] /\ \A x \in Task : srv'[x] # None => Good(x, srv'[x])
    <3>1. PICK p : p = [status |-> "done"]
      OBVIOUS
    <3>2. IsPatch(p)
      BY <3>1 DEF IsPatch, Field, Status
    <3>3. CASE ~Refused(t, p) /\ srv' = [srv EXCEPT ![t] = Patched(srv[t], p)]
      <4>1. Good(t, Patched(srv[t], p))
        BY <1>1, <1>2, <3>2, <3>3, AcceptedIsGood DEF Exists
      <4> QED
        BY <1>2, <3>3, <4>1 DEF Good
    <3>4. CASE srv' = [x \in Task |-> IF x \in Family(t) THEN None ELSE srv[x]]
      BY <1>2, <3>4
    <3> QED
      BY <3>1, <3>3, <3>4 DEF Elsewhere
  <2> QED
    BY <1>1, <2>1, PlaceStays DEF SrvInv, Exists
<1>4. selected' \subseteq DOMAIN rows
  BY <1>1 DEF IInv, PageInv, SelectionShown
<1>5. PageInv'
  BY <1>1, <1>4, RowsStay DEF IInv
<1> QED
  BY <1>1, <1>3, <1>5, PlaceStays, OpsStay, ToastStays, BusyStays DEF IInv

\* Nor do the other instances and the team's members matter to the invariant.
LEMMA Outside ==
    ASSUME IInv,
           \/ ReadElsewhere
           \/ \E s \in Series : \E p \in others[s] : OtherDeleted(s, p)
           \/ \E m \in Member : MemberMoves(m)
    PROVE  IInv'
<1>1. UNCHANGED <<place, rows, selected, srv, busy, ops, reloads, toast, mounted>>
  BY DEF ReadElsewhere, OtherDeleted, MemberMoves, page
<1>2. selected' \subseteq DOMAIN rows
  BY <1>1 DEF IInv, PageInv, SelectionShown
<1> QED
  BY <1>1, <1>2, PlaceStays, ServerStays, RowsStay, OpsStay, ToastStays, BusyStays DEF IInv

-------------------------------------------------------------------------------
(* The invariant holds, and what follows.                                   *)

LEMMA Initially == ASSUME Init PROVE IInv
<1>1. /\ srv \in [Task -> Row] /\ \A t \in Task : Sound(srv[t])
      /\ parent \in [Task -> Task \cup {None}] /\ \A t \in Task : parent[t] # t
      /\ None \notin Row
  <2>1. PICK start \in Starts : srv = start.srv /\ parent = start.parent
    BY DEF Init
  <2>2. start \in Start /\ \A t \in Task : Sound(start.srv[t]) /\ start.parent[t] # t
    BY <2>1, BulkAssumption
  <2> QED
    BY <2>1, <2>2, BulkAssumption DEF Start
<1>2. Place
  BY <1>1 DEF Init, Place, View
<1>3. \A t \in Task : Good(t, srv[t]) /\ Listed(srv[t])
  BY <1>1 DEF Init, Good
<1>4. SrvInv
  BY <1>1, <1>3 DEF SrvInv
<1>5. \A s : s = <<>> => IsSeq(s) /\ Len(s) = 0
  BY DEF IsSeq
<1>6. PageInv
  BY <1>1, <1>3, <1>5 DEF Init, PageInv, SelectionShown, Shown, IsRows
<1>7. OpsInv /\ NoLive(ops)
  BY <1>5 DEF Init, OpsInv, NoLive
<1> QED
  BY <1>2, <1>4, <1>6, <1>7 DEF Init, IInv, ToastInv, BusyInv

LEMMA Stepping == ASSUME IInv, [Next]_vars PROVE IInv'
<1>1. CASE UNCHANGED vars
  <2>1. /\ UNCHANGED <<place, rows, selected, srv, busy, ops, reloads, toast, mounted>>
    BY <1>1 DEF vars, page, world
  <2>2. selected' \subseteq DOMAIN rows
    BY <2>1 DEF IInv, PageInv, SelectionShown
  <2> QED
    BY <2>1, <2>2, PlaceStays, ServerStays, RowsStay, OpsStay, ToastStays, BusyStays DEF IInv
<1>2. CASE User
  BY <1>2, Selecting, Leaving, Reloading, Elsewheres, Outside, RowActs, BoardActs, QueueActs,
     AttentionActs, Deletes, Assigns, Undoing, Forgetting DEF User
<1>3. CASE Answers
  BY <1>3, Serving, Succeeding, Telling, Forgetting, Reloading DEF Answers
<1> QED
  BY <1>1, <1>2, <1>3 DEF Next

\* The rows, the operations and the toast of every reachable state fit each other.
THEOREM Invariance == Spec => []IInv
<1>1. Init => IInv
  BY Initially
<1>2. IInv /\ [Next]_vars => IInv'
  BY Stepping
<1> QED
  BY <1>1, <1>2, PTL DEF Spec

\* Whatever is selected is on the page (handlers look selected tasks up in rows).
THEOREM SelectedAreShown == Spec => []SelectionShown
<1>1. IInv => SelectionShown
  BY DEF IInv, PageInv
<1> QED
  BY <1>1, Invariance, PTL

\* busy is up exactly while one bulk action is unanswered.
THEOREM BusyWhileLive == Spec => []BusyIsLive
<1>1. ASSUME IInv PROVE BusyIsLive
  <2> DEFINE live == {i \in 1..Len(ops) : ops[i].by = "bulk" /\ ~ops[i].told}
  <2>1. live = {i \in 1..Len(ops) : LiveOp(ops[i])}
    BY DEF LiveOp
  <2>2. NoLive(ops) => live = {}
    BY <2>1 DEF NoLive
  <2>3. OneLive(ops) => \E i : live = {i}
    BY <2>1 DEF OneLive
  <2>4. Cardinality({}) = 0 /\ \A i : Cardinality({i}) = 1
    BY FS_EmptySet, FS_Singleton
  <2> HIDE DEF live
  <2>5. mounted /\ view # "team" => Cardinality(live) = IF busy THEN 1 ELSE 0
    BY <1>1, <2>2, <2>3, <2>4 DEF IInv, BusyInv
  <2> QED
    BY <2>5 DEF BusyIsLive, live
<1> QED
  BY <1>1, Invariance, PTL

\* A request that is served in a step, and nothing lost, is served by Serve, or dropped
\* with another that is refused.
LEMMA ServedIsServed ==
    ASSUME IInv, Next, NEW i \in 1..Len(ops), NEW t \in DOMAIN ops[i].reqs, ServedNow(i, t)
    PROVE  \E x \in DOMAIN ops[i].reqs :
              /\ Serve(i, x) /\ x \notin DOMAIN ops'[i].reqs
              /\ x = t \/ (Rejects(i, x) /\ t \in Halted(i, x))
<1>1. IsSeq(ops) /\ Len(ops) \in Nat
  <2>1. IsSeq(ops)
    BY DEF IInv, OpsInv
  <2> QED
    BY <2>1, AppendIs
<1>2. Len(ops') = Len(ops) /\ ops' # ops
  BY DEF ServedNow
<1>3. ASSUME NEW op, ops' = Append(ops, op) PROVE FALSE
  BY <1>1, <1>2, <1>3, AppendIs
<1>4. ASSUME NEW k \in 1..Len(ops), ops' = Without(ops, k) PROVE FALSE
  BY <1>1, <1>2, <1>4, WithoutIs
<1>5. ~User
  <2>1. SUFFICES ASSUME User PROVE (\E op : ops' = Append(ops, op)) \/ UNCHANGED ops
    BY <1>2, <1>3
  <2> QED
    BY <2>1 DEF User, Toggle, Elsewhere, CycleStatus, MarkDone, RescheduleToday, HandleDelete,
       SetRowStatus, DeleteOne, SetStatus, RowOp, ToggleSection, ToggleWeek, ToggleAll, Clear,
       Select, Leave, Refresh, Undo, Dismiss, BulkReassign, Assign, AssignTasks, BulkUnassign,
       BulkSetDue, BulkMarkDone, BulkDelete, BacklogDelete, BulkMove, BulkStatus, RunReschedule,
       RunScheduleFor, RunMarkDone, RunDelete, RunMoveToBacklog, Deletion, Bulk,
       ReadElsewhere, OtherDeleted, MemberMoves
<1>6. ASSUME NEW k \in 1..Len(ops), NEW op, ops' = [ops EXCEPT ![k] = op]
      PROVE  k = i /\ ops'[i] = op
  <2>1. /\ [ops EXCEPT ![k] = op][k] = op
        /\ \A j \in 1..Len(ops) : j # k => [ops EXCEPT ![k] = op][j] = ops[j]
    BY <1>1, ExceptIs
  <2> QED
    BY <1>6, <2>1 DEF ServedNow
<1>7. ASSUME NEW k \in 1..Len(ops), Tell(k) PROVE FALSE
  BY <1>6, <1>7 DEF Tell, ServedNow
<1>8. ASSUME NEW k \in 1..Len(ops), NEW u \in DOMAIN ops[k].reqs, Serve(k, u) \/ Fail(k, u)
      PROVE  /\ k = i /\ Serve(i, u) /\ u \notin DOMAIN ops'[i].reqs
             /\ u = t \/ (Rejects(i, u) /\ t \in Halted(i, u))
  <2>0. IsOp(ops[k])
    BY DEF IInv, OpsInv, OpFits
  <2>1. ASSUME NEW op, NEW ids, NEW out, op.reqs = ops[k].reqs, IsOp(op),
               ops' = [ops EXCEPT ![k] = Answered(op, ids, out)]
        PROVE  k = i /\ t \in ids /\ DOMAIN ops'[i].reqs \cap ids = {} /\ out # "failed"
    <3>1. k = i /\ ops'[i] = Answered(op, ids, out)
      BY <1>6, <2>1
    <3>2. ops'[i].out = out /\ DOMAIN ops'[i].reqs = DOMAIN ops[i].reqs \ ids
      BY <2>1, <3>1, AnsweredIs
    <3> QED
      BY <3>1, <3>2 DEF ServedNow
  <2>2. ASSUME NEW out, Lost(k, u, out)
        PROVE  /\ k = i /\ t \in Halted(i, u) /\ u \in Halted(i, u)
               /\ DOMAIN ops'[i].reqs \cap Halted(i, u) = {} /\ out # "failed"
    <3>1. k = i /\ t \in Halted(k, u)
          /\ DOMAIN ops'[i].reqs \cap Halted(k, u) = {} /\ out # "failed"
      BY <2>0, <2>1, <2>2 DEF Lost
    <3>2. u \in Halted(k, u)
      BY DEF Halted
    <3> QED
      BY <3>1, <3>2
  <2>3. ASSUME NEW out, Applied(k, u, out)
        PROVE  k = i /\ u = t /\ u \notin DOMAIN ops'[i].reqs /\ out # "failed"
    <3>1. PICK op : op = Noted(ops[k], Effect(k, u))
      OBVIOUS
    <3>2. IsOp(op) /\ op.reqs = ops[k].reqs
      <4>1. CASE ops[k].told
        BY <2>0, <3>1, <4>1 DEF Noted
      <4>2. CASE ~ops[k].told
        <5>1. /\ op.undo = ops[k].undo /\ op.reqs = ops[k].reqs /\ op.told = ops[k].told
              /\ op = [by |-> op.by, kind |-> op.kind, reqs |-> op.reqs, undo |-> op.undo,
                       seen |-> op.seen, was |-> op.was, left |-> op.left,
                       out |-> op.out, told |-> op.told]
          BY <2>0, <3>1, <4>2, NotedIs
        <5>2. \A x \in DOMAIN op.reqs : IsReq(op, x)
          BY <2>0, <5>1 DEF IsOp, IsReq
        <5> QED
          BY <2>0, <4>2, <5>1, <5>2 DEF IsOp
      <4> QED
        BY <4>1, <4>2
    <3>3. ops' = [ops EXCEPT ![k] = Answered(op, {u}, out)]
      BY <2>3, <3>1 DEF Applied
    <3>4. k = i /\ t \in {u} /\ DOMAIN ops'[i].reqs \cap {u} = {} /\ out # "failed"
      BY <2>1, <3>2, <3>3
    <3> QED
      BY <3>4
  <2>4. CASE Serve(k, u)
    <3>1. CASE Rejects(k, u)
      <4>1. Lost(k, u, Worse(k, "refused"))
        BY <2>4, <3>1 DEF Serve
      <4> QED
        BY <2>2, <2>4, <3>1, <4>1
    <3>2. CASE ~Rejects(k, u)
      <4>1. Applied(k, u, ops[k].out)
        BY <2>4, <3>2 DEF Serve
      <4> QED
        BY <2>3, <2>4, <4>1
    <3> QED
      BY <3>1, <3>2
  <2>5. CASE Fail(k, u)
    <3>1. Worse(k, "failed") = "failed"
      BY <2>5 DEF Fail, Worse
    <3>2. Lost(k, u, "failed") \/ Applied(k, u, "failed")
      BY <2>5, <3>1 DEF Fail
    <3> QED
      BY <2>2, <2>3, <3>2
  <2> QED
    BY <1>8, <2>4, <2>5
<1>9. ASSUME NEW j \in 1..Len(reloads), ReloadServe(j) \/ ReloadAnswer(j) \/ ReloadFail(j)
      PROVE  FALSE
  BY <1>2, <1>9 DEF ReloadServe, ReloadAnswer, ReloadFail
<1>10. ASSUME NEW k \in 1..Len(ops), Succeed(k) \/ Forgotten(k) PROVE FALSE
  BY <1>4, <1>10 DEF Succeed, Forgotten
<1> QED
  BY <1>5, <1>7, <1>8, <1>9, <1>10 DEF Next, Answers

\* Of a delete that nobody touched since, what is not ousted is inserted.
LEMMA RevivedIs ==
    ASSUME NEW back, NEW x \in DOMAIN back \ Ousted(back), ~Exists(x)
    PROVE  x \in Revived(back)
<1>1. /\ ~SlotHeld(x, back[x].period)
      /\ \A y \in DOMAIN back \ {x} : ~(/\ series[x] # None /\ series[y] = series[x]
                                        /\ back[y].period = back[x].period)
  BY DEF Ousted
<1> DEFINE rivals == {y \in DOMAIN back :
                        /\ ~Exists(y)
                        /\ y = x \/ (/\ series[x] # None /\ series[y] = series[x]
                                     /\ back[y].period = back[x].period)}
<1>2. rivals = {x}
  BY <1>1
<1>3. x = CHOOSE y \in rivals : TRUE
  <2> HIDE DEF rivals
  <2> QED
    BY <1>2
<1> QED
  BY <1>1, <1>3 DEF Revived

LEMMA RestoredThen ==
    ASSUME IInv, Next, NEW i \in 1..Len(ops), NEW t \in DOMAIN ops[i].reqs
    PROVE  Restored(i, t)
<1> DEFINE did == IF ops[i].kind = "delete" THEN DOMAIN ops[i].was ELSE {t}
           ousted == Ousted(ops[i].was)
           stay == IF ops[i].kind # "delete"
                   THEN {x \in did : Blocked(x, ops[i].reqs[t].set)}
                   ELSE IF \E x \in did : parent[x] \in ousted THEN did ELSE ousted
<1>0. SUFFICES ASSUME ops[i].by = "undo", ServedNow(i, t), WeekIsKept(i),
                      \A x \in did : /\ x \in DOMAIN ops[i].was
                                     /\ srv[x] = ops[i].left[x]
                                     /\ x \in DOMAIN ops[i].seen => ops[i].seen[x] = ops[i].was[x]
                                     /\ parent[x] \in did \cup {None}
                                     /\ Children(x) \subseteq did,
                      NEW y \in did \ stay
               PROVE  srv'[y] = ops[i].was[y]
  BY DEF Restored
<1>1. PICK op : op = ops[i]
  OBVIOUS
<1>2. op.out = "running" /\ OpFits(op) /\ ~op.told /\ UndoFits(op)
  BY <1>0, <1>1 DEF ServedNow, IInv, OpsInv, OpFits, IsOp
<1>3. Serve(i, t)
  <2>1. ASSUME NEW x \in DOMAIN op.reqs PROVE op.reqs[x].do # "today"
    <3>1. CASE op.kind = "delete"
      BY <1>2, <3>1 DEF UndoFits
    <3>2. CASE op.kind # "delete"
      <4>1. op.reqs[x] = Patch(op.undo[x])
        BY <1>2, <3>2 DEF UndoFits
      <4>2. op.reqs[x].do = "patch"
        BY ONLY <4>1 DEF Patch
      <4> QED
        BY <4>2
    <3> QED
      BY <3>1, <3>2
  <2>2. \A x \in DOMAIN op.reqs : Halted(i, x) = {x}
    BY <1>1, <2>1 DEF Halted
  <2> QED
    BY <1>0, <1>1, <2>2, ServedIsServed
<1>4. ~Rejects(i, t) => srv' = Over(Effect(i, t), srv)
  BY <1>3 DEF Serve, Applied
<1>5. CASE op.kind = "delete"
  <2>1. op.reqs[t].do = "restore" /\ op.undo = op.was /\ Taken(op) /\ did = DOMAIN op.was
    BY <1>1, <1>2, <1>5 DEF UndoFits
  <2>2. \A x \in did : ~Exists(x)
    BY <1>0, <1>1, <2>1 DEF Taken, Exists
  <2>3. y \in did \ Ousted(op.was) /\ \A x \in did : parent[x] \notin Ousted(op.was)
    BY <1>0, <1>1, <1>5
  <2>4. \A x \in did \ Ousted(op.was) : x \in Revived(op.undo)
    BY <2>1, <2>2, RevivedIs
  <2>5. \A x \in did : parent[x] = None \/ parent[x] \in Revived(op.undo) \cap DOMAIN op.undo
    BY <1>0, <2>1, <2>3, <2>4
  <2>6. ~Rejects(i, t)
    BY <1>1, <2>1, <2>5 DEF Rejects
  <2>7. Effect(i, t) = [x \in Revived(op.undo) |-> op.undo[x]]
    BY <1>1, <2>1 DEF Effect
  <2>8. y \in DOMAIN Effect(i, t) /\ Effect(i, t)[y] = op.was[y]
    BY <2>1, <2>3, <2>4, <2>7
  <2> QED
    BY <1>1, <1>4, <2>6, <2>8 DEF Over
<1>6. CASE op.kind # "delete"
  <2>1. op.reqs[t] = Patch(op.undo[t]) /\ Undoes(op, t) /\ did = {t}
    BY <1>1, <1>2, <1>6 DEF UndoFits
  <2>2. /\ t \in Task /\ t \in DOMAIN op.was /\ srv[t] = op.left[t]
        /\ op.was[t] = op.seen[t] /\ IsPatch(op.undo[t])
    BY <1>0, <1>1, <2>1 DEF Undoes
  <2>3. Exists(t) /\ Back(op.kind, t, op.was[t], srv[t], op.undo[t])
    BY <2>1, <2>2 DEF Undoes, Undone, Exists
  <2>4. ~RefusedAlone(t, srv[t], op.undo[t]) /\ Patched(srv[t], op.undo[t]) = op.was[t]
    BY <1>0, <1>1, <2>2, <2>3 DEF Back, WeekIsKept
  <2>5. parent[t] = None /\ Children(t) = {}
    <3>1. \A x \in Task : parent[x] # x
      BY DEF IInv, Place
    <3>2. parent[t] \in {t, None} /\ Children(t) \subseteq {t}
      BY <1>0, <2>1
    <3> QED
      BY <2>2, <3>1, <3>2 DEF Children
  <2>6. op.reqs[t].do = "patch" /\ op.reqs[t].set = op.undo[t]
    BY <2>1 DEF Patch
  <2>7. ~Refused(t, op.undo[t])
    <3>1. y = t /\ ~Blocked(t, op.undo[t])
      BY <1>0, <1>1, <1>6, <2>6
    <3> QED
      BY <2>2, <2>3, <2>4, <2>5, <3>1, AloneIs
  <2>8. ~Rejects(i, t)
    BY <1>1, <2>6, <2>7 DEF Rejects
  <2>9. Effect(i, t) = [x \in {t} |-> Patched(srv[x], op.undo[t])]
    BY <1>1, <2>6 DEF Effect
  <2>10. t \in DOMAIN Effect(i, t) /\ Effect(i, t)[t] = op.was[t]
    BY <2>4, <2>9
  <2> QED
    BY <1>0, <1>1, <1>4, <2>1, <2>8, <2>10 DEF Over
<1> QED
  BY <1>5, <1>6

\* The undo of a bulk action is accepted and gives every task back as it was; but for
\* a patch of a task whose assignee left the team or whose period another instance
\* fills, and for the instances of a delete whose period is filled by now.
THEOREM UndoGivesBack == Spec => UndoRestores
<1>1. IInv /\ [Next]_vars =>
        [\A i \in 1..Len(ops) : \A t \in DOMAIN ops[i].reqs : Restored(i, t)]_vars
  BY RestoredThen
<1> QED
  BY <1>1, Invariance, PTL DEF Spec, UndoRestores

LEMMA AcceptedThen ==
    ASSUME IInv, Next, NEW i \in 1..Len(ops), NEW t \in DOMAIN ops[i].reqs
    PROVE  Accepted(i, t)
<1> DEFINE Stopped(x) == LET q == ops[i].reqs[x]
                         IN  \/ q.do = "patch" /\ Blocked(x, q.set)
                             \/ q.do = "today" /\ SlotHeld(x, 0)
<1>0. SUFFICES ASSUME ops[i].by = "bulk", ServedNow(i, t),
                      srv[t] = ops[i].seen[t], parent[t] = None, Children(t) = {},
                      \A x \in DOMAIN ops[i].reqs \ DOMAIN ops'[i].reqs : ~Stopped(x)
               PROVE  ops'[i].out = "running"
  BY DEF Accepted
<1>1. PICK op : op = ops[i]
  OBVIOUS
<1>2. op.out = "running" /\ OpFits(op) /\ IsOp(op) /\ ~op.told
  BY <1>0, <1>1 DEF ServedNow, IInv, OpsInv, OpFits, IsOp
<1>3. PICK x \in DOMAIN op.reqs : /\ Serve(i, x) /\ ~Stopped(x)
                                  /\ x = t \/ (Rejects(i, x) /\ t \in Halted(i, x))
  <2> HIDE DEF Stopped
  <2> QED
    BY <1>0, <1>1, ServedIsServed
<1>4. x = t
  <2>1. Rejects(i, x) => op.reqs[x].do # "today"
    BY <1>1, <1>3 DEF Rejects
  <2>2. op.reqs[x].do # "today" => Halted(i, x) = {x}
    BY <1>1 DEF Halted
  <2> QED
    BY <1>3, <2>1, <2>2
<1>5. Exists(t)
  <2>1. Good(t, srv[t])
    BY <1>0, <1>1, <1>2 DEF OpFits
  <2> QED
    BY <2>1, BulkAssumption DEF Exists, Good
<1>6. ~Rejects(i, t)
  <2>1. CASE op.kind = "delete"
    <3>1. op.reqs[t].do = "delete"
      BY <1>0, <1>1, <1>2, <2>1 DEF OpFits, DeleteFits
    <3> QED
      BY <1>1, <1>5, <3>1 DEF Rejects
  <2>2. CASE op.kind # "delete"
    <3>1. t \in Task /\ Offer(op.kind, t, srv[t], op.reqs[t], op.undo[t])
      BY <1>0, <1>1, <1>2, <2>2 DEF OpFits, BulkFits, Undoes
    <3>2. CASE op.reqs[t].do = "patch"
      <4>1. ~Refused(t, op.reqs[t].set)
        BY <1>0, <1>1, <1>3, <1>4, <1>5, <3>1, <3>2, AloneIs DEF Offer
      <4> QED
        BY <1>1, <3>2, <4>1 DEF Rejects
    <3>3. CASE op.reqs[t].do = "today"
      BY <1>1, <1>3, <1>4, <3>3 DEF Rejects
    <3> QED
      BY <3>1, <3>2, <3>3 DEF Offer
  <2> QED
    BY <2>1, <2>2
<1>7. PICK m : m = Answered(Noted(op, Effect(i, t)), {t}, "running")
  OBVIOUS
<1>8. ops' = [ops EXCEPT ![i] = m]
  BY <1>1, <1>2, <1>3, <1>4, <1>6, <1>7 DEF Serve, Applied
<1>9. m.out = "running"
  <2>1. PICK n : n = Noted(op, Effect(i, t))
    OBVIOUS
  <2>2. n = [by |-> n.by, kind |-> n.kind, reqs |-> n.reqs, undo |-> n.undo,
             seen |-> n.seen, was |-> n.was, left |-> n.left,
             out |-> n.out, told |-> n.told]
    BY <1>2, <2>1, NotedIs
  <2>3. m = [n EXCEPT !.reqs = [y \in DOMAIN @ \ {t} |-> @[y]], !.out = "running"]
    BY <1>7, <2>1 DEF Answered
  <2> QED
    BY <2>2, <2>3
<1>10. IsSeq(ops)
  BY <1>0 DEF IInv, OpsInv
<1>11. [ops EXCEPT ![i] = m][i] = m
  BY <1>0, <1>10, ExceptIs
<1> QED
  BY <1>8, <1>9, <1>11

\* A bulk request for a task without relatives that is as the page shows it is never
\* refused, but where the assignee left the team or another instance fills the period.
THEOREM OffersAreTaken == Spec => OffersAreAccepted
<1>1. IInv /\ [Next]_vars =>
        [\A i \in 1..Len(ops) : \A t \in DOMAIN ops[i].reqs : Accepted(i, t)]_vars
  BY AcceptedThen
<1> QED
  BY <1>1, Invariance, PTL DEF Spec, OffersAreAccepted

===============================================================================
