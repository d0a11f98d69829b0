----------------------------- MODULE AccountsProofs -----------------------------
(***************************************************************************)
(* Theorems about Accounts, for any members and any number of calls,         *)
(* sessions and passwords: sessions end with the password they were opened   *)
(* with, an edit reaches the member it was started from, a locked shell      *)
(* stays locked, and the password an admin is shown is the member's.         *)
(***************************************************************************)
EXTENDS Accounts, TLAPS

-------------------------------------------------------------------------------
(* The invariant.                                                            *)

CallType ==
    [kind : S!Kind, token : Nat, pw : Nat, stage : {"sent", "verified", "done"},
     answer : S!Answers, must : BOOLEAN, setCookie : Nat \cup {None},
     from : {"form", "screen", "gone"}]

\* A call names a session and a password that were made; a form's call under
\* way carries a password.
CallIn(c, t, n) ==
    /\ c \in CallType
    /\ c.token <= t /\ c.pw <= n /\ (c.setCookie # None => c.setCookie <= t)
    /\ c.kind = "login" /\ c.stage # "done" => c.pw # 0

CallInv == \A c \in calls : CallIn(c, tokens, Len(passwords))

\* An edit carries the profile of its member, a toggle a flag, and no login is
\* being enabled for Me, who has one.
Args == [profile : Member, email : BOOLEAN] \cup BOOLEAN \cup {None}
            \cup [Member -> {None} \cup [login : BOOLEAN, disabled : BOOLEAN, email : BOOLEAN]]

OpType ==
    [kind : M!OpKind, member : Member \cup {None}, arg : Args, stage : {"sent", "read", "done"},
     ok : BOOLEAN, password : Nat, alone : BOOLEAN]

OpOK(o) ==
    /\ o \in OpType
    /\ o.member = None => o.kind \in {"add", "board"}
    /\ o.stage = "read" => o.kind \in M!Credential
    /\ o.kind = "edit" =>
          /\ o.arg \in [profile : Member, email : BOOLEAN]
          /\ o.arg.profile = o.member
    /\ o.kind = "toggle" => o.arg \in BOOLEAN
    /\ o.kind = "enable" /\ o.stage = "read" => o.member # Me

OpInv == \A o \in ops : OpOK(o)

EditInv ==
    /\ editingId \in Member \cup {None}
    /\ editingId # None => draft = editingId

\* The account of Me always has a password.
AccountInv ==
    /\ account \in [Member -> Record \cup {None}]
    /\ account[Me] # None /\ account[Me].pw # 0
    /\ passwords \in Seq([of : Member, by : {"seed", "member", "admin"}])
    /\ tokens \in Nat

Session == [token : Nat, pw : Nat, crossed : BOOLEAN]

SessionIn(s, t, n) == s \in Session /\ s.token \in 1 .. t /\ s.pw \in 1 .. n

SessionInv == \A s \in sessions : SessionIn(s, tokens, Len(passwords))

ScreenInv ==
    /\ cookie \in 0 .. tokens
    /\ state \in {"loading", "anonymous", "must-change", "authenticated"}
    /\ IF state \in {"must-change", "authenticated"}
       THEN user = S!User(state = "must-change") ELSE user = None
    /\ panel => state = "authenticated"

ServerInv == AccountInv /\ SessionInv /\ SessionsEndWithTheirPassword /\ EditsReachTheirMember

Inv == ServerInv /\ CallInv /\ ScreenInv /\ OpInv /\ EditInv

-------------------------------------------------------------------------------
(* Calls.                                                                    *)

LEMMA CallInGrows ==
    ASSUME NEW c, NEW t \in Nat, NEW n \in Nat, NEW u \in Nat, NEW m \in Nat,
           CallIn(c, t, n), t <= u, n <= m
    PROVE  CallIn(c, u, m)
<1>1. c.token \in Nat /\ c.pw \in Nat /\ c.setCookie \in Nat \cup {None}
  BY DEF CallIn, CallType
<1>2. QED
  BY <1>1 DEF CallIn

\* Forms and screens that go leave the calls they sent as they are.
LEMMA GoneCalls ==
    ASSUME NEW cs, NEW t, NEW n, \A c \in cs : CallIn(c, t, n)
    PROVE  /\ \A c \in S!Gone(cs) : CallIn(c, t, n)
           /\ \A c \in S!FormGone(cs) : CallIn(c, t, n)
<1>1. ASSUME NEW c \in cs, NEW f \in {"form", "screen", "gone"}
      PROVE  CallIn([c EXCEPT !.from = f], t, n)
  BY DEF CallIn, CallType
<1>2. \A c \in cs : c.from \in {"form", "screen", "gone"}
  BY DEF CallIn, CallType
<1>3. \A c \in S!Gone(cs) : CallIn(c, t, n)
  BY <1>1 DEF S!Gone
<1>4. \A c \in S!FormGone(cs) : CallIn(c, t, n)
  BY <1>1, <1>2 DEF S!FormGone
<1>5. QED
  BY <1>3, <1>4

\* A call just sent.
LEMMA NewCall ==
    ASSUME Inv, NEW k \in S!Kind, NEW pw \in Nat, pw <= Len(passwords),
           k = "login" => pw # 0
    PROVE  CallIn(S!Call(k, pw), tokens, Len(passwords))
<1>1. cookie \in Nat /\ cookie <= tokens /\ tokens \in Nat
  BY DEF Inv, ScreenInv, ServerInv, AccountInv
<1>2. QED
  BY <1>1 DEF S!Call, CallIn, CallType, S!Answers

\* A screen shown: what was mounted is gone.
LEMMA ShowKeeps ==
    ASSUME Inv, UNCHANGED server, cookie' \in 0 .. tokens,
           NEW s \in {"loading", "anonymous", "must-change", "authenticated"},
           NEW u, NEW cs, NEW late, S!Show(s, u, cs, late),
           IF s \in {"must-change", "authenticated"} THEN u = S!User(s = "must-change") ELSE u = None,
           \A c \in cs : CallIn(c, tokens, Len(passwords))
    PROVE  CallInv' /\ ScreenInv'
<1>1. tokens' = tokens /\ passwords' = passwords
  BY DEF server
<1>2. state' = s /\ user' = u /\ (calls' = cs \/ calls' = S!Gone(cs))
  BY DEF S!Show
<1>3. CallInv'
  BY <1>1, <1>2, GoneCalls DEF CallInv
<1>4. panel' => state' = "authenticated"
  BY <1>2 DEF S!Show, Inv, ScreenInv
<1>5. QED
  BY <1>1, <1>2, <1>3, <1>4 DEF ScreenInv

LEMMA SignedOutKeeps ==
    ASSUME Inv, UNCHANGED server, cookie' \in 0 .. tokens, NEW cs, S!SignedOut(cs),
           \A c \in cs : CallIn(c, tokens, Len(passwords))
    PROVE  CallInv' /\ ScreenInv'
  BY ShowKeeps DEF S!SignedOut

\* What the member does in the tab.
LEMMA ActKeeps ==
    ASSUME Inv, S!Act, UNCHANGED server
    PROVE  CallInv' /\ ScreenInv'
<1>1. /\ tokens' = tokens /\ passwords' = passwords /\ tokens \in Nat /\ Len(passwords) \in Nat
      /\ cookie \in 0 .. tokens
      /\ \A c \in calls : CallIn(c, tokens, Len(passwords))
  BY DEF server, Inv, ScreenInv, CallInv, ServerInv, AccountInv
<1>2. ASSUME NEW k \in S!Kind, NEW pw \in Nat, pw <= Len(passwords), k = "login" => pw # 0,
             calls' \subseteq calls \cup {S!Call(k, pw)}
      PROVE  CallInv'
  BY <1>1, <1>2, NewCall DEF CallInv
<1>3. CASE S!Login
  <2>1. PICK pw \in 1 .. Len(passwords) : S!Send(S!Call("login", pw))
    BY <1>3 DEF S!Login
  <2>2. calls' = calls \cup {S!Call("login", pw)} /\ pw \in Nat /\ pw <= Len(passwords) /\ pw # 0
    BY <1>1, <2>1 DEF S!Send
  <2>3. CallInv'
    BY <1>2, <2>2 DEF S!Kind
  <2>4. QED
    BY <1>1, <1>3, <2>3 DEF S!Login, Inv, ScreenInv
<1>4. CASE S!ChangePassword
  <2>1. PICK pw \in 1 .. Len(passwords), k \in {"panel", "forced"} : S!Send(S!Call(k, pw))
    BY <1>4 DEF S!ChangePassword
  <2>2. calls' = calls \cup {S!Call(k, pw)} /\ pw \in Nat /\ pw <= Len(passwords) /\ pw # 0
    BY <1>1, <2>1 DEF S!Send
  <2>3. CallInv'
    BY <1>2, <2>2 DEF S!Kind
  <2>4. QED
    BY <1>1, <1>4, <2>3 DEF S!ChangePassword, Inv, ScreenInv
<1>5. CASE S!Data
  <2>1. calls' = calls \cup {S!Call("data", 0)}
    BY <1>5 DEF S!Data, S!Send
  <2>2. CallInv'
    BY <1>1, <1>2, <2>1 DEF S!Kind
  <2>3. QED
    BY <1>1, <1>5, <2>2 DEF S!Data, Inv, ScreenInv
<1>6. CASE S!Logout
  <2>1. \A c \in calls \cup {S!Call("logout", 0)} : CallIn(c, tokens, Len(passwords))
    BY <1>1, NewCall DEF S!Kind
  <2>2. QED
    BY <1>1, <1>6, <2>1, SignedOutKeeps DEF S!Logout
<1>7. CASE S!OpenPanel
  BY <1>1, <1>7 DEF S!OpenPanel, Inv, ScreenInv, CallInv
<1>8. CASE S!ClosePanel
  <2>1. calls' = S!FormGone(calls)
    BY <1>8 DEF S!ClosePanel
  <2>2. CallInv'
    BY <1>1, <2>1, GoneCalls DEF CallInv
  <2>3. QED
    BY <1>1, <1>8, <2>2 DEF S!ClosePanel, Inv, ScreenInv
<1>9. CASE S!Reload
  <2>1. calls' = {S!Call("me", 0)}
    BY <1>9 DEF S!Reload
  <2>2. CallInv'
    BY <1>1, <1>2, <2>1 DEF S!Kind
  <2>3. QED
    BY <1>1, <1>9, <2>2 DEF S!Reload, Inv, ScreenInv
<1>10. QED
  BY <1>3, <1>4, <1>5, <1>6, <1>7, <1>8, <1>9 DEF S!Act

\* What the tab does with an answer, or with none.
LEMMA DeliverKeeps ==
    ASSUME Inv, UNCHANGED server, NEW c \in calls, S!Deliver(c) \/ S!Fail(c)
    PROVE  CallInv' /\ ScreenInv'
<1>1. /\ tokens' = tokens /\ passwords' = passwords /\ tokens \in Nat
      /\ cookie \in 0 .. tokens
      /\ \A d \in calls : CallIn(d, tokens, Len(passwords))
  BY DEF server, Inv, ScreenInv, CallInv, ServerInv, AccountInv
<1>2. c.setCookie \in Nat \cup {None} /\ (c.setCookie # None => c.setCookie <= tokens)
      /\ c.must \in BOOLEAN
  BY <1>1 DEF CallIn, CallType
<1>3. cookie' \in 0 .. tokens
  BY <1>1, <1>2 DEF S!Deliver, S!Fail, S!Cookie
<1>4. \A d \in S!Landed(c) : CallIn(d, tokens, Len(passwords))
  BY <1>1 DEF S!Landed
<1>5. CASE S!SignedOut(S!Landed(c))
  BY <1>3, <1>4, <1>5, SignedOutKeeps
<1>6. CASE S!Authenticated(c)
  <2>1. S!Show(S!Screen(c.must), S!User(c.must), S!Landed(c), c.from = "gone")
    BY <1>6 DEF S!Authenticated
  <2>2. S!Screen(c.must) \in {"must-change", "authenticated"}
    BY DEF S!Screen
  <2>3. S!User(c.must) = S!User(S!Screen(c.must) = "must-change")
    BY <1>2 DEF S!Screen
  <2>4. QED
    BY <1>3, <1>4, <2>1, <2>2, <2>3, ShowKeeps
<1>7. CASE S!PasswordChanged(c)
  <2>1. S!Show("authenticated", S!User(FALSE), S!Landed(c), c.from = "gone")
    BY <1>7 DEF S!PasswordChanged
  <2>2. S!User(FALSE) = S!User("authenticated" = "must-change")
    OBVIOUS
  <2>3. QED
    BY <1>3, <1>4, <2>1, <2>2, ShowKeeps
<1>8. CASE S!PanelChanged(c)
  <2>1. /\ state' = state /\ user' = user /\ (panel' = panel \/ panel' = FALSE)
        /\ calls' = S!Landed(c) \/ calls' = S!FormGone(S!Landed(c))
    BY <1>8 DEF S!PanelChanged
  <2>2. CallInv'
    BY <1>1, <1>4, <2>1, GoneCalls DEF CallInv
  <2>3. QED
    BY <1>1, <1>3, <2>1, <2>2 DEF Inv, ScreenInv
<1>9. CASE calls' = S!Landed(c) /\ UNCHANGED <<state, user, panel>>
  BY <1>1, <1>3, <1>4, <1>9 DEF CallInv, Inv, ScreenInv
<1>10. QED
  BY <1>5, <1>6, <1>7, <1>8, <1>9
     DEF S!Deliver, S!Fail, S!Unauthorized, S!Refused, S!Shown

-------------------------------------------------------------------------------
(* The server.                                                               *)

\* The call a step of the server leaves.
LEMMA PutKeeps ==
    ASSUME Inv, NEW c \in calls, NEW d, S!Put(c, d), CallIn(d, tokens', Len(passwords')),
           tokens' \in Nat, tokens <= tokens',
           Len(passwords') \in Nat, Len(passwords) <= Len(passwords')
    PROVE  CallInv'
<1>1. tokens \in Nat /\ Len(passwords) \in Nat
  BY DEF Inv, ServerInv, AccountInv
<1>2. \A e \in calls : CallIn(e, tokens', Len(passwords'))
  BY <1>1, CallInGrows DEF Inv, CallInv
<1>3. QED
  BY <1>2 DEF S!Put, CallInv

LEMMA AnsweredIn ==
    ASSUME Inv, NEW c \in calls, NEW a \in S!Answers, NEW v \in Nat \cup {None},
           NEW t \in Nat, NEW n \in Nat, v # None => v <= t, NEW b \in BOOLEAN
    PROVE  /\ CallIn(S!Answered(c, a, v), t, n)
           /\ CallIn([S!Answered(c, a, v) EXCEPT !.must = b], t, n)
<1>1. c \in CallType
  BY DEF Inv, CallInv, CallIn
<1>2. DEFINE d == S!Answered(c, a, v)
<1>3. d \in CallType /\ d.stage = "done" /\ d.token = 0 /\ d.pw = 0 /\ d.setCookie = v
  BY <1>1 DEF S!Answered, S!NoCookie, CallType
<1>4. CallIn(d, t, n)
  BY <1>3 DEF CallIn
<1> HIDE DEF d
<1> DEFINE e == [d EXCEPT !.must = b]
<1>5. e \in CallType /\ e.stage = "done" /\ e.token = 0 /\ e.pw = 0 /\ e.setCookie = v
  BY <1>3 DEF CallType
<1>6. CallIn(e, t, n)
  BY <1>5 DEF CallIn
<1>7. QED
  BY <1>4, <1>6 DEF d

LEMMA SlideIn ==
    ASSUME Inv, NEW c \in calls
    PROVE  S!Slide(c) \in Nat \cup {None} /\ (S!Slide(c) # None => S!Slide(c) <= tokens)
<1>1. c.token \in Nat /\ c.token <= tokens /\ tokens \in Nat
  BY DEF Inv, CallInv, CallIn, CallType, ServerInv, AccountInv
<1>2. QED
  BY <1>1 DEF S!Slide, S!NoCookie

\* A step of the server on a call of the tab.
LEMMA ServerKeeps ==
    ASSUME Inv, NEW c \in calls, S!Server(c), UNCHANGED <<cookie, state, user, busy, panel, stray>>
    PROVE  ServerInv' /\ CallInv' /\ ScreenInv'
<1>1. /\ tokens \in Nat /\ Len(passwords) \in Nat /\ Me \in Member
      /\ account \in [Member -> Record \cup {None}] /\ account[Me] \in Record
      /\ account[Me].must \in BOOLEAN /\ account[Me].pw \in Nat /\ account[Me].disabled \in BOOLEAN
  BY AccountAssumption DEF Inv, ServerInv, AccountInv, Record
<1>2. c \in CallType /\ CallIn(c, tokens, Len(passwords))
  BY DEF Inv, CallInv, CallIn
<1>3. ASSUME tokens' \in Nat, tokens <= tokens' PROVE ScreenInv'
  BY <1>1, <1>3 DEF Inv, ScreenInv
<1>4. CASE S!Serve(c)
  <2>1. /\ account' = account /\ passwords' = passwords /\ tokens' = tokens /\ sessions' \subseteq sessions
    BY <1>4 DEF S!Serve
  <2>2. ServerInv'
    BY <2>1 DEF Inv, ServerInv, AccountInv, SessionInv, SessionsEndWithTheirPassword,
                S!SessionsEndWithTheirPassword, S!MayEnter, EditsReachTheirMember,
                M!EditsReachTheirMember, M!Exists
  <2>3. PICK a \in S!Answers, v \in Nat \cup {None}, b \in BOOLEAN :
           /\ v # None => v <= tokens
           /\ S!Put(c, [S!Answered(c, a, v) EXCEPT !.must = b])
    <3> DEFINE a == IF S!Loaded(c) THEN "ok" ELSE "401"
               v == IF c.kind = "logout" /\ S!Loaded(c) THEN S!NoCookie ELSE S!Slide(c)
               b == c.kind = "me" /\ account[Me].must
    <3>1. a \in S!Answers /\ b \in BOOLEAN
      BY DEF S!Answers
    <3>2. v \in Nat \cup {None} /\ (v # None => v <= tokens)
      BY <1>1, SlideIn DEF S!NoCookie
    <3>3. S!Put(c, [S!Answered(c, a, v) EXCEPT !.must = b])
      BY <1>4 DEF S!Serve
    <3> HIDE DEF a, v, b
    <3>4. QED
      BY <3>1, <3>2, <3>3
  <2>4. CallIn([S!Answered(c, a, v) EXCEPT !.must = b], tokens, Len(passwords))
    BY <1>1, <2>3, AnsweredIn
  <2>5. CallInv'
    BY <1>1, <2>1, <2>3, <2>4, PutKeeps
  <2>6. QED
    BY <1>1, <1>3, <2>1, <2>2, <2>5
<1>5. CASE S!Verify(c)
  <2>1. /\ account' = account /\ passwords' = passwords /\ tokens' = tokens /\ sessions' = sessions
    BY <1>5 DEF S!Verify, server, S!server
  <2>2. ServerInv'
    BY <2>1 DEF Inv, ServerInv, AccountInv, SessionInv, SessionsEndWithTheirPassword,
                S!SessionsEndWithTheirPassword, S!MayEnter, EditsReachTheirMember,
                M!EditsReachTheirMember, M!Exists
  <2> DEFINE d == [c EXCEPT !.stage = "verified", !.setCookie = S!Slide(c),
                            !.must = (c.kind = "login" /\ account[Me].must)]
  <2>3. S!Put(c, d) \/ S!Put(c, S!Answered(c, "refused", S!Slide(c)))
    BY <1>5 DEF S!Verify
  <2>4. CallIn(d, tokens, Len(passwords))
    <3>1. c.stage = "sent"
      BY <1>5 DEF S!Verify
    <3>2. d \in CallType /\ d.token = c.token /\ d.pw = c.pw /\ d.setCookie = S!Slide(c)
          /\ d.kind = c.kind /\ d.stage = "verified"
      BY <1>2, SlideIn DEF CallType
    <3>3. QED
      BY <1>2, <3>1, <3>2, SlideIn DEF CallIn
  <2>5. CallIn(S!Answered(c, "refused", S!Slide(c)), tokens, Len(passwords))
    BY <1>1, AnsweredIn, SlideIn DEF S!Answers
  <2> HIDE DEF d
  <2>6. CallInv'
    BY <1>1, <2>1, <2>3, <2>4, <2>5, PutKeeps
  <2>7. QED
    BY <1>1, <1>3, <2>1, <2>2, <2>6
<1>6. CASE S!CreateSession(c)
  <2> DEFINE s == [token |-> tokens', pw |-> c.pw,
                   crossed |-> c.pw # account[Me].pw \/ account[Me].disabled]
  <2>1. /\ account' = account /\ passwords' = passwords /\ tokens' = tokens + 1
        /\ sessions' = sessions \cup {s}
    BY <1>6 DEF S!CreateSession
  <2>2. c.pw \in 1 .. Len(passwords) /\ tokens' \in Nat /\ tokens <= tokens' /\ tokens' >= 1
    BY <1>1, <1>2, <1>6, <2>1 DEF S!CreateSession, CallIn, CallType
  <2>3. SessionIn(s, tokens', Len(passwords))
    BY <2>2 DEF SessionIn, Session
  <2>4. s.crossed \/ (s.pw = account[Me].pw /\ S!MayEnter)
    BY <1>1 DEF S!MayEnter, Inv, ServerInv, AccountInv
  <2> HIDE DEF s
  <2>5. SessionInv'
    BY <1>1, <2>1, <2>2, <2>3 DEF Inv, ServerInv, SessionInv, SessionIn, Session
  <2>6. SessionsEndWithTheirPassword'
    BY <2>1, <2>4 DEF Inv, ServerInv, SessionsEndWithTheirPassword,
                S!SessionsEndWithTheirPassword, S!MayEnter
  <2>7. ServerInv'
    BY <1>1, <2>1, <2>5, <2>6 DEF Inv, ServerInv, AccountInv, EditsReachTheirMember,
                M!EditsReachTheirMember, M!Exists
  <2>8. CallIn(S!Answered(c, "ok", tokens'), tokens', Len(passwords))
    <3>1. \A t \in Nat : CallIn(S!Answered(c, "ok", t), t, Len(passwords))
      <4>1. "ok" \in S!Answers
        BY DEF S!Answers
      <4>2. ASSUME NEW t \in Nat PROVE t \in Nat \cup {None} /\ (t # None => t <= t)
        OBVIOUS
      <4>3. QED
        BY <1>1, <4>1, <4>2, AnsweredIn
    <3>2. QED
      BY <2>2, <3>1
  <2>9. S!Put(c, S!Answered(c, "ok", tokens'))
    BY <1>6 DEF S!CreateSession
  <2>10. CallInv'
    BY <1>1, <2>1, <2>2, <2>8, <2>9, PutKeeps
  <2>11. QED
    BY <1>3, <2>2, <2>7, <2>10
<1>7. CASE S!WritePassword(c)
  <2> DEFINE made == Len(passwords')
             mine == {t \in sessions : t.token = c.token}
  <2>1. /\ passwords' = Append(passwords, [of |-> Me, by |-> "member"])
        /\ account' = [account EXCEPT ![Me].pw = made, ![Me].must = FALSE]
        /\ sessions' = {[s EXCEPT !.pw = made] : s \in mine}
        /\ tokens' = tokens
    BY <1>7 DEF S!WritePassword
  <2>2. /\ passwords' \in Seq([of : Member, by : {"seed", "member", "admin"}])
        /\ made = Len(passwords) + 1 /\ made \in Nat /\ made # 0
    BY <1>1, <2>1 DEF Inv, ServerInv, AccountInv
  <2> HIDE DEF made
  <2>3. /\ account'[Me] \in Record /\ account'[Me].pw = made
        /\ account'[Me].disabled = account[Me].disabled
        /\ account'[Me].profile = account[Me].profile
        /\ \A m \in Member \ {Me} : account'[m] = account[m]
        /\ account' \in [Member -> Record \cup {None}]
    BY <1>1, <2>1, <2>2 DEF Record
  <2>4. AccountInv'
    BY <1>1, <2>1, <2>2, <2>3, AccountAssumption DEF AccountInv
  <2>5. ASSUME NEW s \in sessions
        PROVE  LET r == [s EXCEPT !.pw = made]
               IN  /\ SessionIn(r, tokens, made) /\ r.pw = made
                   /\ r.crossed = s.crossed
    BY <1>1, <2>2 DEF Inv, ServerInv, SessionInv, SessionIn, Session
  <2>6. SessionInv'
    BY <2>1, <2>5 DEF SessionInv, made
  <2>7. \A s \in sessions' : s.pw = made /\ \E t \in sessions : s.crossed = t.crossed
    BY <2>1, <2>5
  <2>8. SessionsEndWithTheirPassword'
    BY <2>2, <2>3, <2>7 DEF Inv, ServerInv, SessionsEndWithTheirPassword,
                S!SessionsEndWithTheirPassword, S!MayEnter
  <2>9. EditsReachTheirMember'
    BY <1>1, <2>3, AccountAssumption
       DEF Inv, ServerInv, EditsReachTheirMember, M!EditsReachTheirMember, M!Exists
  <2>10. S!Put(c, S!Answered(c, "ok", c.setCookie))
    BY <1>7 DEF S!WritePassword
  <2>11. c.setCookie \in Nat \cup {None} /\ (c.setCookie # None => c.setCookie <= tokens)
    BY <1>2 DEF CallIn, CallType
  <2>12. CallIn(S!Answered(c, "ok", c.setCookie), tokens, made)
    BY <1>1, <2>2, <2>11, AnsweredIn DEF S!Answers
  <2>13. CallInv'
    BY <1>1, <2>1, <2>2, <2>10, <2>12, PutKeeps DEF made
  <2>14. QED
    BY <1>1, <1>3, <2>1, <2>4, <2>6, <2>8, <2>9, <2>13 DEF ServerInv
<1>8. QED
  BY <1>4, <1>5, <1>6, <1>7 DEF S!Server

-------------------------------------------------------------------------------
(* The members panel.                                                        *)

LEMMA NewOp ==
    ASSUME NEW k \in M!OpKind \ {"edit", "toggle"}, NEW m \in Member \cup {None},
           m = None => k \in {"add", "board"}
    PROVE  OpOK(M!Op(k, m, None))
  BY DEF M!Op, OpOK, OpType, Args

\* A password to be made, which may mark another as not made alone.
LEMMA SendCredentialKeeps ==
    ASSUME OpInv, NEW o, OpOK(o), M!SendCredential(o)
    PROVE  OpInv'
<1>1. ASSUME NEW p, OpOK(p), NEW b \in BOOLEAN PROVE OpOK([p EXCEPT !.alone = b])
  BY <1>1 DEF OpOK, OpType
<1>2. (M!Overlapping(o) = {}) \in BOOLEAN /\ M!Overlapping(o) \subseteq ops
  BY DEF M!Overlapping
<1>3. ops' = (ops \ M!Overlapping(o))
                \cup {[p EXCEPT !.alone = FALSE] : p \in M!Overlapping(o)}
                \cup {[o EXCEPT !.alone = M!Overlapping(o) = {}]}
  BY DEF M!SendCredential
<1>4. QED
  BY <1>1, <1>2, <1>3 DEF OpInv

LEMMA PanelActKeeps ==
    ASSUME Inv, M!Act
    PROVE  OpInv' /\ EditInv'
<1>1. OpInv /\ EditInv
  BY DEF Inv
<1>2. ASSUME ops' = ops, UNCHANGED <<editingId, draft>> PROVE OpInv' /\ EditInv'
  BY <1>1, <1>2 DEF OpInv, EditInv
<1>3. ASSUME NEW o, OpOK(o), M!Send(o), UNCHANGED <<editingId, draft>> PROVE OpInv' /\ EditInv'
  BY <1>1, <1>3 DEF M!Send, OpInv, EditInv
<1>4. CASE M!openMembers \/ M!requestCloseMembers \/ M!closeTimer \/ M!cancelEnableLogin \/ M!revealDone
  BY <1>2, <1>4 DEF M!openMembers, M!requestCloseMembers, M!closeTimer, M!cancelEnableLogin, M!revealDone
<1>5. ASSUME NEW m \in Member, M!startEdit(m) \/ M!startEnableLogin(m) PROVE OpInv' /\ EditInv'
  BY <1>1, <1>5 DEF M!startEdit, M!startEnableLogin, OpInv, EditInv
<1>6. CASE M!cancelEdit
  BY <1>1, <1>6 DEF M!cancelEdit, OpInv, EditInv
<1>7. ASSUME NEW m \in Member, M!removeMember(m) PROVE OpInv' /\ EditInv'
  BY <1>3, <1>7, NewOp, AccountAssumption DEF M!removeMember, M!OpKind
<1>8. ASSUME NEW m \in Member, M!confirmEnableLogin(m) \/ M!handleResetPassword(m)
      PROVE  OpInv' /\ EditInv'
  <2>1. PICK k \in {"enable", "reset"} : M!SendCredential(M!Op(k, m, None))
    BY <1>8 DEF M!confirmEnableLogin, M!handleResetPassword
  <2>2. OpOK(M!Op(k, m, None))
    BY NewOp, AccountAssumption DEF M!OpKind, M!Credential
  <2>3. OpInv'
    BY <1>1, <2>1, <2>2, SendCredentialKeeps
  <2>4. QED
    BY <1>1, <1>8, <2>3 DEF M!confirmEnableLogin, M!handleResetPassword, EditInv
<1>9. ASSUME NEW m \in Member, M!handleToggleDisabled(m) PROVE OpInv' /\ EditInv'
  <2>1. OpOK(M!Op("toggle", m, ~roster[m].disabled))
    BY AccountAssumption DEF M!Op, OpOK, OpType, Args, M!OpKind
  <2>2. QED
    BY <1>3, <1>9, <2>1 DEF M!handleToggleDisabled
<1>10. CASE M!saveEdit
  <2>1. PICK e \in BOOLEAN : M!Send(M!Op("edit", editingId, [profile |-> draft, email |-> e]))
    BY <1>10, AccountAssumption DEF M!saveEdit
  <2>2. editingId \in Member /\ draft = editingId
    BY <1>1, <1>10 DEF M!saveEdit, EditInv
  <2>3. OpOK(M!Op("edit", editingId, [profile |-> draft, email |-> e]))
    BY <2>2, AccountAssumption DEF M!Op, OpOK, OpType, Args, M!OpKind
  <2>4. QED
    BY <1>3, <1>10, <2>1, <2>3 DEF M!saveEdit
<1>11. CASE M!submitAddMember
  BY <1>3, <1>11, NewOp DEF M!submitAddMember, M!OpKind
<1>12. QED
  BY <1>4, <1>5, <1>6, <1>7, <1>8, <1>9, <1>10, <1>11 DEF M!Act

\* An operation is done, or it is read and not one of those Me is kept from.
LEMMA OpSteps ==
    ASSUME NEW o, OpOK(o), NEW ok \in BOOLEAN, NEW n \in Nat
    PROVE  /\ OpOK(M!Done(o, ok, n))
           /\ o.kind \in M!Credential /\ (o.kind = "enable" => o.member # Me)
                 => OpOK([o EXCEPT !.stage = "read"])
           /\ o.kind = "board" => \A b \in Args : OpOK([M!Done(o, ok, n) EXCEPT !.arg = b])
<1>1. M!Done(o, ok, n) \in OpType /\ M!Done(o, ok, n).kind = o.kind
      /\ M!Done(o, ok, n).arg = o.arg /\ M!Done(o, ok, n).member = o.member
      /\ M!Done(o, ok, n).stage = "done"
  BY DEF M!Done, OpOK, OpType
<1>2. OpOK(M!Done(o, ok, n))
  BY <1>1 DEF OpOK
<1>3. ASSUME o.kind \in M!Credential, o.kind = "enable" => o.member # Me
      PROVE  OpOK([o EXCEPT !.stage = "read"])
  BY <1>3 DEF OpOK, OpType
<1>4. ASSUME o.kind = "board", NEW b \in Args PROVE OpOK([M!Done(o, ok, n) EXCEPT !.arg = b])
  <2> DEFINE d == M!Done(o, ok, n)
  <2>1. d \in OpType /\ d.kind = "board" /\ d.stage = "done"
    BY <1>1, <1>4
  <2> HIDE DEF d
  <2>2. OpOK([d EXCEPT !.arg = b])
    BY <2>1 DEF OpOK, OpType
  <2>3. QED
    BY <2>2 DEF d
<1>5. QED
  BY <1>2, <1>3, <1>4

LEMMA PanelDeliverKeeps ==
    ASSUME Inv, NEW o \in ops, M!Deliver(o) \/ M!Fail(o)
    PROVE  OpInv' /\ EditInv'
<1>1. OpInv /\ EditInv /\ draft' = draft /\ (editingId' = editingId \/ editingId' = None)
  BY DEF Inv, M!Deliver, M!Fail, M!Reveal, M!Saved, M!Loaded, M!Failed
<1>2. ops' \subseteq ops \cup {M!Op("board", None, None)}
  BY DEF M!Deliver, M!Fail, M!Reveal, M!Saved, M!Loaded, M!Failed, M!Landed, M!AndReload
<1>3. OpOK(M!Op("board", None, None))
  BY NewOp DEF M!OpKind
<1>4. QED
  BY <1>1, <1>2, <1>3 DEF OpInv, EditInv

\* A step of the server on a call of the panel.
LEMMA PanelServerKeeps ==
    ASSUME Inv, NEW o \in ops, M!Server(o), UNCHANGED <<tokens, tab>>
    PROVE  ServerInv' /\ CallInv' /\ OpInv'
<1>1. /\ tokens' = tokens /\ calls' = calls /\ tokens \in Nat /\ Len(passwords) \in Nat
      /\ Me \in Member /\ account \in [Member -> Record \cup {None}] /\ account[Me] \in Record
      /\ account[Me].pw # 0 /\ OpInv /\ OpOK(o) /\ ServerInv /\ CallInv
  BY AccountAssumption DEF Inv, ServerInv, AccountInv, tab, OpInv
<1>2. o.kind \in M!OpKind /\ o.member \in Member \cup {None} /\ o.password \in Nat
  BY <1>1 DEF OpOK, OpType
<1>3. ASSUME NEW p, OpOK(p), M!Put(o, p) PROVE OpInv'
  BY <1>1, <1>3 DEF M!Put, OpInv
<1>4. ASSUME UNCHANGED <<account, sessions, passwords>> PROVE ServerInv' /\ CallInv'
  BY <1>1, <1>4 DEF ServerInv, AccountInv, SessionInv, SessionsEndWithTheirPassword,
        S!SessionsEndWithTheirPassword, S!MayEnter, EditsReachTheirMember,
        M!EditsReachTheirMember, M!Exists, CallInv
<1>5. ASSUME M!Refuse(o) PROVE ServerInv' /\ CallInv' /\ OpInv'
  <2>1. OpOK(M!Done(o, FALSE, 0))
    BY <1>1, OpSteps
  <2>2. QED
    BY <1>3, <1>4, <1>5, <2>1 DEF M!Refuse
<1>6. CASE M!ReadMember(o)
  <2>1. CASE M!Refuse(o)
    BY <1>5, <2>1
  <2>2. CASE ~M!Refuse(o)
    <3>1. /\ o.kind \in M!Credential
          /\ M!Put(o, [o EXCEPT !.stage = "read"]) /\ UNCHANGED <<account, sessions, passwords>>
          /\ o.kind = "enable" => account[o.member].pw = 0
      BY <1>6, <2>2 DEF M!ReadMember
    <3>2. OpOK([o EXCEPT !.stage = "read"])
      BY <1>1, <3>1, OpSteps
    <3>3. QED
      BY <1>3, <1>4, <3>1, <3>2
  <2>3. QED
    BY <2>1, <2>2
<1>7. CASE M!IssuePassword(o)
  <2> DEFINE made == Len(passwords')
             m == o.member
  <2>1. /\ o.stage = "read" /\ passwords' = Append(passwords, [of |-> m, by |-> "admin"])
        /\ account' = IF ~M!Exists(m) THEN account
                      ELSE [account EXCEPT ![m].pw = made, ![m].must = TRUE,
                                           ![m].disabled = @ /\ o.kind = "reset"]
        /\ o.kind = "reset" => M!EndSessions(m)
        /\ o.kind # "reset" => sessions' = sessions
        /\ M!Put(o, M!Done(o, TRUE, made))
    BY <1>7 DEF M!IssuePassword
  <2>2. m \in Member /\ o.kind \in {"enable", "reset"}
    BY <1>1, <1>2, <2>1 DEF OpOK, M!Credential
  <2>3. /\ passwords' \in Seq([of : Member, by : {"seed", "member", "admin"}])
        /\ made = Len(passwords) + 1 /\ made \in Nat /\ made # 0 /\ Len(passwords) <= made
    BY <1>1, <2>1, <2>2 DEF ServerInv, AccountInv
  <2> HIDE DEF made
  <2>4. ASSUME ~M!Exists(m) PROVE ServerInv'
    <3>1. m # Me
      BY <1>1, <2>4, AccountAssumption DEF M!Exists
    <3>2. account' = account /\ sessions' = sessions
      BY <2>1, <2>4, <3>1 DEF M!EndSessions
    <3>3. AccountInv'
      BY <1>1, <2>3, <3>2 DEF ServerInv, AccountInv
    <3>4. SessionInv'
      BY <1>1, <2>3, <3>2 DEF ServerInv, SessionInv, SessionIn, Session, made
    <3>5. QED
      BY <1>1, <3>2, <3>3, <3>4
         DEF ServerInv, SessionsEndWithTheirPassword, S!SessionsEndWithTheirPassword,
             S!MayEnter, EditsReachTheirMember, M!EditsReachTheirMember, M!Exists
  <2>5. ASSUME M!Exists(m) PROVE ServerInv'
    <3> DEFINE r == account'[m]
    <3>1. /\ account[m] \in Record /\ account' \in [Member -> Record \cup {None}]
          /\ r \in Record /\ r.pw = made /\ r.profile = account[m].profile
          /\ r.disabled => account[m].disabled
          /\ \A n \in Member \ {m} : account'[n] = account[n]
      BY <1>1, <2>1, <2>2, <2>3, <2>5 DEF M!Exists, Record
    <3>2. AccountInv'
      BY <1>1, <2>3, <3>1, AccountAssumption DEF AccountInv
    <3>3. EditsReachTheirMember'
      BY <1>1, <3>1, AccountAssumption
         DEF ServerInv, EditsReachTheirMember, M!EditsReachTheirMember, M!Exists
    <3>4. sessions' = sessions \/ sessions' = {}
      BY <2>1, <2>2 DEF M!EndSessions
    <3>5. SessionInv'
      BY <1>1, <2>3, <3>4 DEF ServerInv, SessionInv, SessionIn, Session, made
    <3>6. SessionsEndWithTheirPassword'
      <4>1. CASE m = Me
        <5>1. sessions' = {}
          BY <1>1, <2>1, <2>2, <4>1 DEF OpOK, M!EndSessions
        <5>2. QED
          BY <5>1 DEF SessionsEndWithTheirPassword, S!SessionsEndWithTheirPassword
      <4>2. CASE m # Me
        <5>1. account'[Me] = account[Me]
          BY <1>1, <3>1, <4>2
        <5>2. QED
          BY <1>1, <3>4, <5>1 DEF ServerInv, SessionsEndWithTheirPassword,
             S!SessionsEndWithTheirPassword, S!MayEnter
      <4>3. QED
        BY <4>1, <4>2
    <3>7. QED
      BY <3>2, <3>3, <3>5, <3>6 DEF ServerInv
  <2>6. CallInv'
    BY <1>1, <2>3, CallInGrows DEF CallInv, made
  <2>7. OpInv'
    <3>1. OpOK(M!Done(o, TRUE, made))
      BY <1>1, <2>3, OpSteps
    <3>2. QED
      BY <1>3, <2>1, <3>1
  <2>8. QED
    BY <2>4, <2>5, <2>6, <2>7
<1>8. CASE M!PatchMember(o)
  <2>1. CASE M!Refuse(o)
    BY <1>5, <2>1
  <2>2. CASE ~M!Refuse(o)
    <3> DEFINE m == o.member
    <3>1. m \in Member /\ M!Exists(m) /\ account[m] \in Record /\ passwords' = passwords
          /\ M!Put(o, M!Done(o, TRUE, 0)) /\ o.kind \in {"edit", "toggle"}
      BY <1>1, <1>2, <1>8, <2>2 DEF M!PatchMember, OpOK, M!Exists
    <3>2. OpInv'
      <4>1. OpOK(M!Done(o, TRUE, 0))
        BY <1>1, OpSteps
      <4>2. QED
        BY <1>3, <3>1, <4>1
    <3>3. CallInv'
      BY <1>1, <3>1 DEF CallInv
    <3>4. CASE o.kind = "edit"
      <4>1. /\ o.arg.profile = m /\ o.arg.email \in BOOLEAN /\ sessions' = sessions
            /\ account' = [account EXCEPT ![m].profile = o.arg.profile, ![m].email = o.arg.email]
        BY <1>1, <1>8, <2>2, <3>4 DEF M!PatchMember, OpOK
      <4>2. /\ account' \in [Member -> Record \cup {None}]
            /\ account'[m] \in Record /\ account'[m].profile = m
            /\ account'[m].pw = account[m].pw /\ account'[m].disabled = account[m].disabled
            /\ \A n \in Member \ {m} : account'[n] = account[n]
        BY <1>1, <3>1, <4>1 DEF Record
      <4>3. AccountInv' /\ EditsReachTheirMember'
        BY <1>1, <3>1, <4>2, AccountAssumption
           DEF ServerInv, AccountInv, EditsReachTheirMember, M!EditsReachTheirMember, M!Exists
      <4>4. SessionInv'
        BY <1>1, <3>1, <4>1 DEF ServerInv, SessionInv
      <4>5. account'[Me].pw = account[Me].pw /\ account'[Me].disabled = account[Me].disabled
        BY <1>1, <4>2
      <4>6. SessionsEndWithTheirPassword'
        BY <1>1, <4>1, <4>5 DEF ServerInv, SessionsEndWithTheirPassword,
           S!SessionsEndWithTheirPassword, S!MayEnter
      <4>7. QED
        BY <3>2, <3>3, <4>3, <4>4, <4>6 DEF ServerInv
    <3>5. CASE o.kind = "toggle"
      <4>1. /\ o.arg \in BOOLEAN /\ account' = [account EXCEPT ![m].disabled = o.arg]
            /\ IF o.arg /\ ~account[m].disabled THEN M!EndSessions(m) ELSE sessions' = sessions
        BY <1>1, <1>8, <2>2, <3>5 DEF M!PatchMember, OpOK
      <4>2. /\ account' \in [Member -> Record \cup {None}]
            /\ account'[m] \in Record /\ account'[m].profile = account[m].profile
            /\ account'[m].pw = account[m].pw /\ account'[m].disabled = o.arg
            /\ \A n \in Member \ {m} : account'[n] = account[n]
        BY <1>1, <3>1, <4>1 DEF Record
      <4>3. AccountInv' /\ EditsReachTheirMember'
        BY <1>1, <3>1, <4>2, AccountAssumption
           DEF ServerInv, AccountInv, EditsReachTheirMember, M!EditsReachTheirMember, M!Exists
      <4>4. sessions' \subseteq sessions
        BY <4>1 DEF M!EndSessions
      <4>5. SessionInv'
        BY <1>1, <3>1, <4>4 DEF ServerInv, SessionInv
      <4>6. SessionsEndWithTheirPassword'
        <5>1. CASE m = Me /\ o.arg /\ ~account[m].disabled
          BY <4>1, <5>1 DEF M!EndSessions, SessionsEndWithTheirPassword, S!SessionsEndWithTheirPassword
        <5>2. CASE m = Me /\ ~(o.arg /\ ~account[m].disabled)
          BY <1>1, <4>2, <4>4, <5>2 DEF ServerInv, SessionsEndWithTheirPassword,
             S!SessionsEndWithTheirPassword, S!MayEnter
        <5>3. CASE m # Me
          BY <1>1, <4>2, <4>4, <5>3 DEF ServerInv, SessionsEndWithTheirPassword,
             S!SessionsEndWithTheirPassword, S!MayEnter
        <5>4. QED
          BY <5>1, <5>2, <5>3
      <4>7. QED
        BY <3>2, <3>3, <4>3, <4>5, <4>6 DEF ServerInv
    <3>6. QED
      BY <3>1, <3>4, <3>5
  <2>3. QED
    BY <2>1, <2>2
<1>9. CASE M!DeleteMember(o)
  <2>1. CASE M!Refuse(o)
    BY <1>5, <2>1
  <2>2. CASE ~M!Refuse(o)
    <3> DEFINE m == o.member
    <3>1. /\ m \in Member /\ account[m].pw = 0 /\ M!Put(o, M!Done(o, TRUE, 0))
          /\ account' = [account EXCEPT ![m] = None] /\ sessions' = sessions /\ passwords' = passwords
      BY <1>1, <1>2, <1>9, <2>2 DEF M!DeleteMember, OpOK
    <3>2. /\ account' \in [Member -> Record \cup {None}] /\ account'[m] = None /\ m # Me
          /\ account'[Me] = account[Me] /\ \A n \in Member \ {m} : account'[n] = account[n]
      BY <1>1, <3>1
    <3>3. ServerInv'
      BY <1>1, <3>1, <3>2
         DEF ServerInv, AccountInv, SessionInv, EditsReachTheirMember, M!EditsReachTheirMember,
             M!Exists, SessionsEndWithTheirPassword, S!SessionsEndWithTheirPassword, S!MayEnter
    <3>4. OpOK(M!Done(o, TRUE, 0))
      BY <1>1, OpSteps
    <3>5. QED
      BY <1>1, <1>3, <3>1, <3>3, <3>4 DEF CallInv
  <2>3. QED
    BY <2>1, <2>2
<1>10. CASE M!CreateMember(o)
  <2>1. OpOK(M!Done(o, TRUE, 0))
    BY <1>1, OpSteps
  <2>2. QED
    BY <1>3, <1>4, <1>10, <2>1 DEF M!CreateMember
<1>11. CASE M!ReadBoard(o)
  <2>1. M!Board \in Args
    <3>1. ASSUME NEW m \in Member
          PROVE  M!Entry(m) \in {None} \cup [login : BOOLEAN, disabled : BOOLEAN, email : BOOLEAN]
      BY <1>1 DEF M!Entry, Record
    <3>2. M!Board \in [Member -> {None} \cup [login : BOOLEAN, disabled : BOOLEAN, email : BOOLEAN]]
      BY <3>1 DEF M!Board
    <3>3. QED
      BY <3>2 DEF Args
  <2>2. OpOK([M!Done(o, TRUE, 0) EXCEPT !.arg = M!Board])
    BY <1>1, <1>11, <2>1, OpSteps DEF M!ReadBoard
  <2>3. QED
    BY <1>3, <1>4, <1>11, <2>2 DEF M!ReadBoard
<1>12. QED
  BY <1>6, <1>7, <1>8, <1>9, <1>10, <1>11 DEF M!Server

-------------------------------------------------------------------------------
(* The theorems.                                                             *)

LEMMA Initially == Init => Inv
<1> SUFFICES ASSUME Init PROVE Inv
  OBVIOUS
<1>1. PICK must \in BOOLEAN : account = [m \in Member |-> Login(m, m = Me /\ must)]
  BY DEF Init
<1>2. /\ passwords = <<[of |-> Me, by |-> "seed"]>> /\ tokens = 1
      /\ sessions \in {{}, {[token |-> 1, pw |-> 1, crossed |-> FALSE]}}
  BY DEF Init
<1>3. Len(passwords) = 1 /\ passwords \in Seq([of : Member, by : {"seed", "member", "admin"}])
  BY <1>2, AccountAssumption
<1>4. \A m \in Member : account[m] \in Record /\ account[m].profile = m
  BY <1>1 DEF Login, Record
<1>5. account[Me].pw = 1 /\ ~account[Me].disabled
  BY <1>1, AccountAssumption DEF Login
<1>6. AccountInv
  BY <1>1, <1>2, <1>3, <1>4, <1>5, AccountAssumption DEF AccountInv
<1>7. SessionInv /\ SessionsEndWithTheirPassword
  <2>1. \A s \in sessions : s = [token |-> 1, pw |-> 1, crossed |-> FALSE]
    BY <1>2
  <2>2. \A s \in sessions : SessionIn(s, tokens, Len(passwords))
    <3>1. [token |-> 1, pw |-> 1, crossed |-> FALSE] \in Session
      BY DEF Session
    <3>2. SessionIn([token |-> 1, pw |-> 1, crossed |-> FALSE], tokens, Len(passwords))
      BY <1>2, <1>3, <3>1 DEF SessionIn
    <3>3. QED
      BY <2>1, <3>2
  <2>3. SessionsEndWithTheirPassword
    BY <1>5, <2>1 DEF SessionsEndWithTheirPassword, S!SessionsEndWithTheirPassword, S!MayEnter
  <2>4. QED
    BY <2>2, <2>3 DEF SessionInv
<1>8. EditsReachTheirMember
  BY <1>4 DEF EditsReachTheirMember, M!EditsReachTheirMember
<1>9. /\ cookie \in {0, 1} /\ state = "loading" /\ user = None /\ panel = FALSE
      /\ calls = {S!Call("me", 0)}
  BY DEF Init, S!Init, S!NoCookie
<1>10. CallIn(S!Call("me", 0), tokens, Len(passwords))
  BY <1>2, <1>3, <1>9 DEF S!Call, CallIn, CallType, S!Kind, S!Answers, S!Form
<1>11. CallInv /\ ScreenInv
  BY <1>2, <1>9, <1>10 DEF CallInv, ScreenInv
<1>12. OpInv /\ EditInv
  BY DEF Init, M!Init, OpInv, EditInv
<1>13. QED
  BY <1>6, <1>7, <1>8, <1>11, <1>12 DEF Inv, ServerInv

LEMMA InvNext == Inv /\ [Next]_vars => Inv'
<1> SUFFICES ASSUME Inv, [Next]_vars PROVE Inv'
  OBVIOUS
<1>1. ASSUME UNCHANGED server PROVE ServerInv'
  BY <1>1 DEF server, Inv, ServerInv, AccountInv, SessionInv, SessionsEndWithTheirPassword,
     S!SessionsEndWithTheirPassword, S!MayEnter, EditsReachTheirMember,
     M!EditsReachTheirMember, M!Exists
<1>2. ASSUME UNCHANGED members PROVE OpInv' /\ EditInv'
  BY <1>2 DEF members, Inv, OpInv, EditInv
<1>3. ASSUME UNCHANGED <<tokens, tab>> PROVE ScreenInv'
  BY <1>3 DEF tab, Inv, ScreenInv
<1>4. CASE SignInStep
  <2>1. CASE S!Act /\ UNCHANGED server
    BY <1>1, <1>2, <1>4, <2>1, ActKeeps DEF SignInStep, Inv
  <2>2. ASSUME NEW c \in calls, S!Server(c), UNCHANGED <<cookie, state, user, busy, panel, stray>>
        PROVE  Inv'
    BY <1>2, <1>4, <2>2, ServerKeeps DEF SignInStep, Inv
  <2>3. ASSUME NEW c \in calls, S!Deliver(c) \/ S!Fail(c), UNCHANGED server PROVE Inv'
    BY <1>1, <1>2, <1>4, <2>3, DeliverKeeps DEF SignInStep, Inv
  <2>4. ASSUME NEW s \in sessions, S!Expire(s), UNCHANGED tab PROVE Inv'
    <3>1. sessions' \subseteq sessions /\ UNCHANGED <<account, passwords, tokens>>
      BY <2>4 DEF S!Expire
    <3>2. ServerInv'
      BY <3>1 DEF Inv, ServerInv, AccountInv, SessionInv, SessionsEndWithTheirPassword,
         S!SessionsEndWithTheirPassword, S!MayEnter, EditsReachTheirMember,
         M!EditsReachTheirMember, M!Exists
    <3>3. CallInv'
      BY <2>4, <3>1 DEF tab, Inv, CallInv
    <3>4. QED
      BY <1>2, <1>3, <1>4, <2>4, <3>1, <3>2, <3>3 DEF SignInStep, Inv
  <2>5. QED
    BY <1>4, <2>1, <2>2, <2>3, <2>4 DEF SignInStep, S!Next, S!Progress, S!server, server, S!tab, tab
<1>5. CASE MembersStep
  <2>1. UNCHANGED <<tokens, tab>>
    BY <1>5 DEF MembersStep
  <2>2. ASSUME UNCHANGED <<account, sessions, passwords>> PROVE ServerInv' /\ CallInv'
    BY <1>1, <2>1, <2>2 DEF server, tab, Inv, CallInv
  <2>3. CASE M!Act /\ UNCHANGED <<account, sessions, passwords>>
    BY <1>3, <2>1, <2>2, <2>3, PanelActKeeps DEF Inv
  <2>4. ASSUME NEW o \in ops, M!Server(o),
               UNCHANGED <<roster, membersOpen, membersClosing, editingId, draft,
                           enablingId, credReveal, memberBusy>>
        PROVE  Inv'
    <3>1. EditInv'
      BY <2>4 DEF Inv, EditInv
    <3>2. QED
      BY <1>3, <2>1, <2>4, <3>1, PanelServerKeeps DEF Inv
  <2>5. ASSUME NEW o \in ops, M!Deliver(o) \/ M!Fail(o) PROVE Inv'
    <3>1. UNCHANGED <<account, sessions, passwords>>
      BY <2>5 DEF M!Deliver, M!Fail
    <3>2. QED
      BY <1>3, <2>1, <2>2, <2>5, <3>1, PanelDeliverKeeps DEF Inv
  <2>6. QED
    BY <1>5, <2>3, <2>4, <2>5 DEF MembersStep, M!Next, M!Progress
<1>6. CASE UNCHANGED vars
  <2>1. UNCHANGED server /\ UNCHANGED tab /\ UNCHANGED members
    BY <1>6 DEF vars
  <2>2. CallInv' /\ ScreenInv'
    BY <2>1 DEF server, tab, Inv, CallInv, ScreenInv
  <2>3. QED
    BY <1>1, <1>2, <2>1, <2>2 DEF Inv
<1>7. QED
  BY <1>4, <1>5, <1>6 DEF Next

\* A live session was opened with the password the account has now, of an
\* account that may sign in, however sign-ins, password changes, resets and
\* disablings overlap (sessions.go, auth.go, members.go).
THEOREM SessionsEnd == Spec => []SessionsEndWithTheirPassword
<1>1. Inv => SessionsEndWithTheirPassword
  BY DEF Inv, ServerInv
<1>2. QED
  BY <1>1, Initially, InvNext, PTL DEF Spec

\* An edit of the members panel reaches the member whose row it was started
\* from (TeamPage.tsx:627-668).
THEOREM EditsReach == Spec => []EditsReachTheirMember
<1>1. Inv => EditsReachTheirMember
  BY DEF Inv, ServerInv
<1>2. QED
  BY <1>1, Initially, InvNext, PTL DEF Spec

\* The cookie and the sessions name sessions and passwords that were made, and
\* the screen fits its user (AuthContext.tsx).
THEOREM TypeCorrect == Spec => []TypeOK
<1>1. Inv => TypeOK
  BY DEF Inv, ServerInv, SessionInv, SessionIn, CallInv, CallIn, CallType, ScreenInv,
         TypeOK, S!SignInTypeOK
<1>2. QED
  BY <1>1, Initially, InvNext, PTL DEF Spec

-------------------------------------------------------------------------------
(* The shell is locked.  A reset ends every session of Me, and a session is   *)
(* uncrossed only if it was opened with the password of today: so a token is  *)
(* Safe for good once it is, and what an answer that opens the shell carries  *)
(* was safe when it was made.                                                 *)

\* No live session with token t lets a shell act for a locked account.
Safe(t) == account[Me].must => \A s \in sessions : s.token = t => s.crossed

AnsweredOk(c) == c.stage = "done" /\ c.answer = "ok"

\* Answers that open the shell.
Unlocks(c) ==
    /\ AnsweredOk(c)
    /\ c.kind = "forced" \/ (c.kind \in {"me", "login"} /\ ~c.must)

\* Those, and a sign-in that will have such an answer.
Opens(c) == Unlocks(c) \/ (c.kind = "login" /\ c.stage = "verified" /\ ~c.must)

\* Which screen the sender of a call is mounted on.
MountInv ==
    /\ \A c \in calls : c.kind = "me" => state = "loading" /\ calls = {c}
    /\ state = "loading" => \A c \in calls : c.kind = "me"
    /\ \A c \in calls : c.from # "gone" =>
          /\ c.kind = "login" => state = "anonymous" /\ c.from = "form"
          /\ c.kind = "forced" => state = "must-change" /\ c.from = "form"
          /\ c.kind = "panel" => state = "authenticated"
    /\ \A c \in calls : c.from = "form" => busy /\ \A d \in calls : d.from = "form" => d = c

\* What an answer says of the account, while its password is the one it is
\* about, and the cookie of an answer that opens the shell.
AnswerOK(c) ==
    /\ c.kind = "login" /\ c.stage = "verified" /\ c.pw = account[Me].pw =>
          c.must = account[Me].must
    /\ c.kind \in {"forced", "panel"} /\ (c.stage = "verified" \/ AnsweredOk(c)) =>
          c.setCookie # None
    /\ Unlocks(c) \/ (c.kind = "panel" /\ AnsweredOk(c)) =>
          c.setCookie # None /\ Safe(c.setCookie)

\* Nobody gets into the shell of a locked account any more without seeing that
\* it is locked: no session will, and no sign-in under way is with its password.
NoEntry ==
    account[Me].must =>
       /\ \A s \in sessions : s.crossed
       /\ \A d \in calls : d.kind = "login" /\ d.stage # "done" => d.pw # account[Me].pw

FormInv == \A c \in calls : c.from # "gone" /\ Opens(c) => NoEntry

\* No call of an open shell writes a cookie that would break its lock.
CookiesSafe(c) ==
    /\ Safe(c.token)
    /\ c.setCookie # None /\ ~(c.kind = "login" /\ AnsweredOk(c)) => Safe(c.setCookie)

ShellInv ==
    state = "authenticated" /\ ~stray => Safe(cookie) /\ \A c \in calls : CookiesSafe(c)

LockInv == MountInv /\ (\A c \in calls : AnswerOK(c)) /\ FormInv /\ ShellInv

\* What a step of the server does to the sessions: some may end; or the
\* password is another, and the account is not locked or every session ended; or
\* one is opened.
Kept ==
    /\ account'[Me].pw = account[Me].pw /\ account'[Me].must = account[Me].must
    /\ sessions' \subseteq sessions

Renewed ==
    /\ account'[Me].pw = Len(passwords) + 1
    /\ account'[Me].must = FALSE \/ sessions' = {}

ServerMoves == Kept \/ Renewed \/ \E c \in calls : S!CreateSession(c)

LEMMA SafeKept ==
    ASSUME Inv, ServerMoves, NEW t \in 0 .. tokens, Safe(t)
    PROVE  Safe(t)'
<1>1. tokens \in Nat
  BY DEF Inv, ServerInv, AccountInv
<1>2. CASE Kept \/ Renewed
  BY <1>2 DEF Kept, Renewed, Safe
<1>3. ASSUME NEW c \in calls, S!CreateSession(c) PROVE Safe(t)'
  BY <1>1, <1>3 DEF S!CreateSession, Safe
<1>4. QED
  BY <1>2, <1>3 DEF ServerMoves

LEMMA AnswerKept ==
    ASSUME Inv, ServerMoves, NEW c \in calls, AnswerOK(c)
    PROVE  AnswerOK(c)'
<1>1. /\ c.pw \in Nat /\ c.pw <= Len(passwords) /\ Len(passwords) \in Nat /\ tokens \in Nat
      /\ c.setCookie # None => c.setCookie \in 0 .. tokens
  BY DEF Inv, CallInv, CallIn, CallType, ServerInv, AccountInv
<1>2. c.setCookie # None /\ Safe(c.setCookie) => Safe(c.setCookie)'
  BY <1>1, SafeKept
<1>3. c.pw = account'[Me].pw => c.pw = account[Me].pw /\ account'[Me].must = account[Me].must
  BY <1>1 DEF ServerMoves, Kept, Renewed, S!CreateSession
<1>4. QED
  BY <1>2, <1>3 DEF AnswerOK, Unlocks, AnsweredOk

\* A sign-in under way keeps out of the account that it is kept out of.
LEMMA NoEntryKept ==
    ASSUME Inv, ServerMoves, NoEntry,
           \A e \in calls' : e.kind = "login" /\ e.stage # "done" =>
              \E d \in calls : d.kind = "login" /\ d.stage # "done" /\ d.pw = e.pw
    PROVE  NoEntry'
<1>1. \A d \in calls : d.pw \in Nat /\ d.pw <= Len(passwords)
  BY DEF Inv, CallInv, CallIn, CallType
<1>2. Len(passwords) \in Nat
  BY DEF Inv, ServerInv, AccountInv
<1>3. CASE Kept
  BY <1>3 DEF Kept, NoEntry
<1>4. CASE Renewed
  BY <1>1, <1>2, <1>4 DEF Renewed, NoEntry
<1>5. ASSUME NEW c \in calls, S!CreateSession(c) PROVE NoEntry'
  <2>1. /\ account' = account /\ c.kind = "login" /\ c.stage # "done"
        /\ sessions' = sessions \cup {[token |-> tokens', pw |-> c.pw,
                          crossed |-> c.pw # account[Me].pw \/ account[Me].disabled]}
    BY <1>5 DEF S!CreateSession
  <2>2. SUFFICES ASSUME account[Me].must PROVE NoEntry'
    BY <2>1 DEF NoEntry
  <2>3. (\A s \in sessions : s.crossed) /\ c.pw # account[Me].pw
    BY <2>1, <2>2 DEF NoEntry
  <2>4. \A s \in sessions' : s.crossed
    <3> DEFINE b == c.pw # account[Me].pw \/ account[Me].disabled
               new == [token |-> tokens', pw |-> c.pw, crossed |-> b]
    <3>1. b = TRUE
      BY <2>3
    <3>2. new.crossed = b
      OBVIOUS
    <3>3. sessions' = sessions \cup {new}
      BY <2>1
    <3> HIDE DEF b, new
    <3>4. QED
      BY <2>3, <3>1, <3>2, <3>3
  <2>5. \A e \in calls' : e.kind = "login" /\ e.stage # "done" => e.pw # account[Me].pw
    BY <2>2 DEF NoEntry
  <2>6. QED
    BY <2>1, <2>4, <2>5 DEF NoEntry
<1>6. QED
  BY <1>3, <1>4, <1>5 DEF ServerMoves

\* The server and nobody else moves.
LEMMA RestLock ==
    ASSUME Inv, LockInv, Kept \/ Renewed, UNCHANGED <<tokens, tab>>
    PROVE  LockInv'
<1>1. ServerMoves /\ UNCHANGED <<cookie, state, user, busy, panel, calls, stray>>
  BY DEF ServerMoves, tab
<1>2. MountInv'
  BY <1>1 DEF LockInv, MountInv
<1>3. \A c \in calls' : AnswerOK(c)'
  BY <1>1, AnswerKept DEF LockInv
<1>4. NoEntry => NoEntry'
  BY <1>1, NoEntryKept
<1>5. FormInv'
  BY <1>1, <1>4 DEF LockInv, FormInv, Opens, Unlocks, AnsweredOk
<1>6. /\ cookie \in 0 .. tokens
      /\ \A c \in calls : /\ c.token \in 0 .. tokens
                          /\ c.setCookie # None => c.setCookie \in 0 .. tokens
  BY DEF Inv, ScreenInv, CallInv, CallIn, CallType, ServerInv, AccountInv
<1>7. ShellInv'
  BY <1>1, <1>6, SafeKept DEF LockInv, ShellInv, CookiesSafe, AnsweredOk
<1>8. QED
  BY <1>2, <1>3, <1>5, <1>7 DEF LockInv

\* Call c has become e on the server.
LEMMA PutLock ==
    ASSUME Inv, LockInv, ServerMoves, UNCHANGED <<cookie, state, user, busy, panel, stray>>,
           NEW c \in calls, NEW e, S!Put(c, e), c.stage # "done",
           e.kind = c.kind, e.from = c.from, e.token \in {0, c.token},
           e.stage # "done" => e.pw = c.pw,
           e.setCookie \in {None, 0, c.token, c.setCookie} \/ (e.kind = "login" /\ AnsweredOk(e)),
           AnswerOK(e)',
           Opens(e) => Opens(c) \/ account'[Me].must = FALSE
    PROVE  LockInv'
<1>1. calls' = (calls \ {c}) \cup {e}
  BY DEF S!Put
<1>2. MountInv'
  BY <1>1 DEF LockInv, MountInv
<1>3. \A d \in calls' : AnswerOK(d)'
  BY <1>1, AnswerKept DEF LockInv
<1>4. NoEntry => NoEntry'
  BY <1>1, NoEntryKept
<1>5. FormInv'
  <2> SUFFICES ASSUME NEW d \in calls', d.from # "gone", Opens(d) PROVE NoEntry'
    BY DEF FormInv, Opens, Unlocks, AnsweredOk
  <2>1. CASE d \in calls
    BY <1>4, <2>1 DEF LockInv, FormInv
  <2>2. CASE d = e /\ Opens(c)
    BY <1>4, <2>2 DEF LockInv, FormInv
  <2>3. CASE account'[Me].must = FALSE
    BY <2>3 DEF NoEntry
  <2>4. QED
    BY <1>1, <2>1, <2>2, <2>3
<1>6. /\ cookie \in 0 .. tokens /\ 0 \in 0 .. tokens
      /\ \A d \in calls : /\ d.token \in 0 .. tokens
                          /\ d.setCookie # None => d.setCookie \in 0 .. tokens
  BY DEF Inv, ScreenInv, CallInv, CallIn, CallType, ServerInv, AccountInv
<1>7. Safe(0)
  BY DEF Safe, Inv, ServerInv, SessionInv, SessionIn
<1>8. ShellInv'
  <2> SUFFICES ASSUME state = "authenticated", ~stray
               PROVE  Safe(cookie)' /\ \A d \in calls' : CookiesSafe(d)'
    BY DEF ShellInv
  <2>1. Safe(cookie) /\ \A d \in calls : CookiesSafe(d)
    BY DEF LockInv, ShellInv
  <2>2. \A t \in 0 .. tokens : Safe(t) => Safe(t)'
    BY SafeKept
  <2>3. \A d \in calls : CookiesSafe(d)'
    BY <1>6, <2>1, <2>2 DEF CookiesSafe, AnsweredOk
  <2>4. Safe(c.token) /\ (c.setCookie # None => Safe(c.setCookie))
    BY <2>1 DEF CookiesSafe, AnsweredOk
  <2>5. CookiesSafe(e)'
    BY <1>6, <1>7, <2>2, <2>4 DEF CookiesSafe, AnsweredOk
  <2>6. Safe(cookie)'
    BY <1>6, <2>1, <2>2
  <2>7. QED
    BY <1>1, <2>3, <2>5, <2>6
<1>9. QED
  BY <1>2, <1>3, <1>5, <1>8 DEF LockInv

\* A call served for a user writes its own cookie, and nobody's session has none.
LEMMA SlideWrites ==
    ASSUME Inv, NEW c \in calls
    PROVE  /\ S!Slide(c) \in {None, 0, c.token}
           /\ S!Loaded(c) => S!Slide(c) = c.token /\ c.token # None
<1>1. c.token \in Nat /\ \A s \in sessions : s.token # 0
  BY DEF Inv, CallInv, CallIn, CallType, ServerInv, SessionInv, SessionIn
<1>2. QED
  BY <1>1, AccountAssumption DEF S!Slide, S!Loaded, S!Live, S!NoCookie

\* A step of the server on a call of the tab.
LEMMA ServerLock ==
    ASSUME Inv, LockInv, NEW c \in calls, S!Server(c),
           UNCHANGED <<cookie, state, user, busy, panel, stray>>
    PROVE  LockInv'
<1>1. /\ account[Me].must \in BOOLEAN /\ tokens \in Nat /\ Len(passwords) \in Nat
      /\ account \in [Member -> Record \cup {None}] /\ account[Me] \in Record
  BY AccountAssumption DEF Inv, ServerInv, AccountInv, Record
<1>2. c \in CallType /\ AnswerOK(c)
  BY DEF Inv, CallInv, CallIn, LockInv
<1>3. ASSUME NEW a, NEW v
      PROVE  LET e == S!Answered(c, a, v)
             IN  /\ e.kind = c.kind /\ e.from = c.from /\ e.token = 0 /\ e.stage = "done"
                 /\ e.answer = a /\ e.setCookie = v /\ e.must = c.must
  BY <1>2 DEF S!Answered, S!NoCookie, CallType
<1>4. CASE S!Serve(c)
  <2> DEFINE a == IF S!Loaded(c) THEN "ok" ELSE "401"
             v == IF c.kind = "logout" /\ S!Loaded(c) THEN S!NoCookie ELSE S!Slide(c)
             b == c.kind = "me" /\ account[Me].must
  <2> PICK e : e = [S!Answered(c, a, v) EXCEPT !.must = b]
    OBVIOUS
  <2>1. /\ c.stage = "sent" /\ c.kind \in {"me", "data", "logout"} /\ S!Put(c, e)
        /\ UNCHANGED <<account, passwords, tokens>> /\ sessions' \subseteq sessions
    BY <1>4 DEF S!Serve
  <2>2. /\ e.kind = c.kind /\ e.from = c.from /\ e.token = 0 /\ e.stage = "done"
        /\ e.answer = a /\ e.setCookie = v /\ e.must = b
    BY <1>2 DEF S!Answered, S!NoCookie, CallType
  <2>3. v \in {None, 0, c.token}
    BY SlideWrites DEF S!NoCookie
  <2>4. b = FALSE /\ c.kind = "me" => account[Me].must = FALSE
    BY <1>1
  <2>5. a = "ok" /\ c.kind = "me" => v = c.token /\ v # None
    BY SlideWrites
  <2> HIDE DEF a, v, b
  <2>6. Unlocks(e) => c.kind = "me" /\ b = FALSE /\ a = "ok"
    BY <2>1, <2>2 DEF Unlocks, AnsweredOk, b
  <2>7. AnswerOK(e)'
    BY <2>1, <2>2, <2>4, <2>5, <2>6 DEF AnswerOK, Safe, Unlocks, AnsweredOk
  <2>8. Opens(e) => account'[Me].must = FALSE
    BY <2>1, <2>2, <2>4, <2>6 DEF Opens
  <2>9. ServerMoves
    BY <2>1 DEF ServerMoves, Kept
  <2>10. QED
    BY <2>1, <2>2, <2>3, <2>7, <2>8, <2>9, PutLock
<1>5. CASE S!Verify(c)
  <2>1. c.stage = "sent" /\ c.kind \in S!Form /\ UNCHANGED server
    BY <1>5 DEF S!Verify, server, S!server
  <2>2. ServerMoves
    BY <2>1 DEF ServerMoves, Kept, server
  <2>3. CASE S!Right(c)
    <3> DEFINE b == c.kind = "login" /\ account[Me].must
    <3> PICK e : e = [c EXCEPT !.stage = "verified", !.setCookie = S!Slide(c), !.must = b]
      OBVIOUS
    <3>1. S!Put(c, e)
      BY <1>5, <2>3 DEF S!Verify
    <3>2. /\ e.kind = c.kind /\ e.from = c.from /\ e.token = c.token /\ e.stage = "verified"
          /\ e.pw = c.pw /\ e.setCookie = S!Slide(c) /\ e.must = b
      BY <1>2 DEF CallType
    <3>3. c.kind # "login" => S!Slide(c) # None
      BY <2>3, SlideWrites DEF S!Right
    <3>4. c.kind = "login" => b = account[Me].must
      BY <1>1
    <3> HIDE DEF b
    <3>5. AnswerOK(e)'
      BY <2>1, <3>2, <3>3, <3>4 DEF AnswerOK, Unlocks, AnsweredOk, server
    <3>6. Opens(e) => account'[Me].must = FALSE
      BY <1>1, <2>1, <3>2, <3>4 DEF Opens, Unlocks, AnsweredOk, server
    <3>7. QED
      BY <2>1, <2>2, <3>1, <3>2, <3>5, <3>6, PutLock, SlideWrites
  <2>4. CASE ~S!Right(c)
    <3> PICK e : e = S!Answered(c, "refused", S!Slide(c))
      OBVIOUS
    <3>1. S!Put(c, e)
      BY <1>5, <2>4 DEF S!Verify
    <3>2. /\ e.kind = c.kind /\ e.from = c.from /\ e.token = 0 /\ e.stage = "done"
          /\ e.answer = "refused" /\ e.setCookie = S!Slide(c)
      BY <1>3
    <3>3. AnswerOK(e)' /\ ~Opens(e)
      BY <3>2 DEF AnswerOK, Opens, Unlocks, AnsweredOk
    <3>4. QED
      BY <2>1, <2>2, <3>1, <3>2, <3>3, PutLock, SlideWrites
  <2>5. QED
    BY <2>3, <2>4
<1>6. CASE S!CreateSession(c)
  <2> PICK made : made = tokens'
    OBVIOUS
  <2> PICK e : e = S!Answered(c, "ok", made)
    OBVIOUS
  <2>1. /\ c.stage = "verified" /\ c.kind = "login" /\ S!Put(c, e)
        /\ tokens' = tokens + 1 /\ UNCHANGED <<account, passwords>>
        /\ sessions' = sessions \cup {[token |-> tokens', pw |-> c.pw,
                          crossed |-> c.pw # account[Me].pw \/ account[Me].disabled]}
    BY <1>6 DEF S!CreateSession
  <2>2. /\ e.kind = c.kind /\ e.from = c.from /\ e.token = 0 /\ e.stage = "done"
        /\ e.answer = "ok" /\ e.setCookie = made /\ e.must = c.must
    BY <1>3
  <2>3. made # None
    BY <1>1, <2>1, AccountAssumption
  <2>4. \A s \in sessions : s.token # made
    BY <1>1, <2>1 DEF Inv, ServerInv, SessionInv, SessionIn
  <2>5. ASSUME ~c.must PROVE Safe(made)'
    <3> DEFINE b == c.pw # account[Me].pw \/ account[Me].disabled
               new == [token |-> made, pw |-> c.pw, crossed |-> b]
    <3>1. SUFFICES ASSUME account[Me].must PROVE \A s \in sessions' : s.token = made => s.crossed
      BY <2>1 DEF Safe
    <3>2. c.pw # account[Me].pw
      BY <1>2, <2>1, <2>5, <3>1 DEF AnswerOK
    <3>3. b = TRUE
      BY <3>2
    <3>4. new.crossed = b /\ sessions' = sessions \cup {new}
      BY <2>1
    <3> HIDE DEF b, new
    <3>5. QED
      BY <2>4, <3>3, <3>4
  <2>6. AnswerOK(e)'
    BY <2>1, <2>2, <2>3, <2>5 DEF AnswerOK, Unlocks, AnsweredOk
  <2>7. Opens(e) => Opens(c)
    BY <2>1, <2>2 DEF Opens, Unlocks, AnsweredOk
  <2>8. ServerMoves
    BY <1>6 DEF ServerMoves
  <2>9. AnsweredOk(e)
    BY <2>2 DEF AnsweredOk
  <2>10. QED
    BY <2>1, <2>2, <2>6, <2>7, <2>8, <2>9, PutLock
<1>7. CASE S!WritePassword(c)
  <2> PICK e : e = S!Answered(c, "ok", c.setCookie)
    OBVIOUS
  <2>1. /\ c.stage = "verified" /\ c.kind \in {"forced", "panel"} /\ S!Put(c, e)
        /\ passwords' = Append(passwords, [of |-> Me, by |-> "member"])
        /\ account' = [account EXCEPT ![Me].pw = Len(passwords'), ![Me].must = FALSE]
    BY <1>7 DEF S!WritePassword
  <2>2. /\ e.kind = c.kind /\ e.from = c.from /\ e.token = 0 /\ e.stage = "done"
        /\ e.answer = "ok" /\ e.setCookie = c.setCookie
    BY <1>3
  <2>3. Len(passwords') = Len(passwords) + 1
    BY <2>1 DEF Inv, ServerInv, AccountInv
  <2>4. account'[Me].must = FALSE /\ account'[Me].pw = Len(passwords) + 1
    BY <1>1, <2>1, <2>3, AccountAssumption DEF Record
  <2>5. AnswerOK(e)'
    BY <1>2, <2>1, <2>2, <2>4 DEF AnswerOK, Unlocks, AnsweredOk, Safe
  <2>6. ServerMoves
    BY <2>4 DEF ServerMoves, Renewed
  <2>7. QED
    BY <2>1, <2>2, <2>4, <2>5, <2>6, PutLock
<1>8. QED
  BY <1>4, <1>5, <1>6, <1>7 DEF S!Server

\* A step of the members panel, or of the server for it: a password it makes
\* for Me is a reset, which ends every session of Me.
LEMMA MembersLock ==
    ASSUME Inv, LockInv, MembersStep
    PROVE  LockInv'
<1>1. /\ Len(passwords) \in Nat /\ Me \in Member /\ UNCHANGED <<tokens, tab>>
      /\ account \in [Member -> Record \cup {None}] /\ account[Me] \in Record
      /\ account[Me].pw # 0 /\ account[Me] # None
  BY AccountAssumption DEF Inv, ServerInv, AccountInv, MembersStep
<1>2. SUFFICES Kept \/ Renewed
  BY <1>1, RestLock
<1>3. CASE UNCHANGED <<account, sessions, passwords>>
  BY <1>3 DEF Kept
<1>4. ASSUME NEW o \in ops, M!IssuePassword(o) PROVE Kept \/ Renewed
  <2>1. /\ o.stage = "read" /\ OpOK(o)
        /\ passwords' = Append(passwords, [of |-> o.member, by |-> "admin"])
        /\ account' = IF ~M!Exists(o.member) THEN account
                      ELSE [account EXCEPT ![o.member].pw = Len(passwords'),
                                           ![o.member].must = TRUE,
                                           ![o.member].disabled = @ /\ o.kind = "reset"]
        /\ IF o.kind = "reset" THEN M!EndSessions(o.member) ELSE UNCHANGED sessions
    BY <1>4 DEF M!IssuePassword, Inv, OpInv
  <2>2. Len(passwords') = Len(passwords) + 1
    BY <2>1 DEF Inv, ServerInv, AccountInv
  <2>3. o.member \in Member
    BY <2>1 DEF OpOK, OpType, M!Credential
  <2>4. CASE o.member = Me
    <3>1. o.kind = "reset" /\ sessions' = {}
      BY <2>1, <2>4 DEF OpOK, M!Credential, M!EndSessions
    <3>2. account'[Me].pw = Len(passwords) + 1
      BY <1>1, <2>1, <2>2, <2>4 DEF M!Exists, Record
    <3>3. QED
      BY <3>1, <3>2 DEF Renewed
  <2>5. CASE o.member # Me
    BY <1>1, <2>1, <2>3, <2>5 DEF M!EndSessions, Kept
  <2>6. QED
    BY <2>4, <2>5
<1>5. ASSUME NEW o \in ops, M!PatchMember(o), ~M!Refuse(o) PROVE Kept \/ Renewed
  <2>1. /\ account' = [account EXCEPT ![o.member].profile = o.arg.profile,
                                      ![o.member].email = o.arg.email]
           \/ account' = [account EXCEPT ![o.member].disabled = o.arg]
        /\ sessions' = sessions \/ M!EndSessions(o.member)
    BY <1>5 DEF M!PatchMember
  <2>2. account'[Me].pw = account[Me].pw /\ account'[Me].must = account[Me].must
    BY <1>1, <2>1 DEF Record
  <2>3. QED
    BY <2>1, <2>2 DEF Kept, M!EndSessions
<1>6. ASSUME NEW o \in ops, M!DeleteMember(o), ~M!Refuse(o) PROVE Kept \/ Renewed
  <2>1. account' = [account EXCEPT ![o.member] = None] /\ account[o.member].pw = 0
        /\ sessions' = sessions
    BY <1>6 DEF M!DeleteMember
  <2>2. account'[Me] = account[Me]
    BY <1>1, <2>1
  <2>3. QED
    BY <2>1, <2>2 DEF Kept
<1>7. QED
  BY <1>3, <1>4, <1>5, <1>6 DEF MembersStep, M!Next, M!Progress, M!Server, M!Deliver, M!Fail,
     M!ReadMember, M!Refuse, M!CreateMember, M!ReadBoard

\* Call d is e, mounted or not.
Like(d, e) ==
    /\ d.kind = e.kind /\ d.token = e.token /\ d.pw = e.pw /\ d.stage = e.stage
    /\ d.answer = e.answer /\ d.must = e.must /\ d.setCookie = e.setCookie
    /\ d.from # "gone" => e.from # "gone"

\* What the tab sends and drops leaves the answers as they were.
LEMMA CallsLock ==
    ASSUME Inv, LockInv, UNCHANGED server,
           \A d \in calls' : \/ \E e \in calls : Like(d, e)
                             \/ d.stage = "sent" /\ d.kind # "login"
    PROVE  (\A d \in calls' : AnswerOK(d)') /\ FormInv'
<1>1. /\ account' = account /\ sessions' = sessions
  BY DEF server
<1>2. ASSUME NEW d \in calls' PROVE AnswerOK(d)'
  <2>1. CASE d.stage = "sent"
    BY <2>1 DEF AnswerOK, Unlocks, AnsweredOk
  <2>2. ASSUME NEW e \in calls, Like(d, e) PROVE AnswerOK(d)'
    <3>1. AnswerOK(e)
      BY DEF LockInv
    <3>2. QED
      BY <1>1, <2>2, <3>1 DEF AnswerOK, Unlocks, AnsweredOk, Safe, Like
  <2>3. QED
    BY <2>1, <2>2
<1>3. NoEntry => NoEntry'
  BY <1>1 DEF NoEntry, Like
<1>4. ASSUME NEW d \in calls', d.from # "gone", Opens(d) PROVE NoEntry'
  <2>1. PICK e \in calls : Like(d, e)
    BY <1>4 DEF Opens, Unlocks, AnsweredOk
  <2>2. e.from # "gone" /\ Opens(e)
    BY <1>4, <2>1 DEF Opens, Unlocks, AnsweredOk, Like
  <2>3. QED
    BY <1>3, <2>2 DEF LockInv, FormInv
<1>5. FormInv'
  BY <1>4 DEF FormInv, Opens, Unlocks, AnsweredOk
<1>6. QED
  BY <1>2, <1>5

LEMMA GoneLike ==
    ASSUME Inv, NEW d \in CallType, NEW f \in {"screen", "gone"}
    PROVE  LET e == [d EXCEPT !.from = f]
           IN  e.from = f /\ (f = "gone" \/ d.from # "gone" => Like(e, d))
  BY DEF CallType, Like

\* A screen shown, on a call that opens the shell only if nobody gets into it.
LEMMA ShowLock ==
    ASSUME Inv, LockInv, UNCHANGED server,
           NEW s, NEW u, NEW cs, NEW late, S!Show(s, u, cs, late), s # "loading",
           \A d \in cs : d.kind # "me" /\ d \in CallType,
           \A d \in cs : d \in calls \/ (s # state /\ d.stage = "sent" /\ d.kind # "login"),
           s = "authenticated" /\ ~late => NoEntry
    PROVE  LockInv'
<1>1. state' = s /\ stray' = late /\ account' = account /\ sessions' = sessions
  BY DEF S!Show, server
<1>2. ShellInv'
  <2> SUFFICES ASSUME s = "authenticated", ~late
               PROVE  Safe(cookie)' /\ \A d \in calls' : CookiesSafe(d)'
    BY <1>1 DEF ShellInv
  <2>1. ASSUME NEW t PROVE Safe(t)'
    BY <1>1 DEF NoEntry, Safe
  <2>2. Safe(cookie)'
    BY <1>1 DEF NoEntry, Safe
  <2>3. QED
    BY <2>1, <2>2 DEF CookiesSafe
<1>3. CASE s = state
  <2>1. calls' = cs /\ cs \subseteq calls /\ UNCHANGED <<busy, panel>>
    BY <1>3 DEF S!Show
  <2>2. MountInv'
    BY <1>1, <1>3, <2>1 DEF LockInv, MountInv
  <2>3. \A d \in calls' : \E e \in calls : Like(d, e)
    BY <2>1 DEF Like
  <2>4. QED
    BY <1>2, <2>2, <2>3, CallsLock DEF LockInv
<1>4. CASE s # state
  <2>1. calls' = {[c EXCEPT !.from = "gone"] : c \in cs}
    BY <1>4 DEF S!Show, S!Gone
  <2>2. ASSUME NEW d \in cs
        PROVE  LET e == [d EXCEPT !.from = "gone"] IN e.from = "gone" /\ Like(e, d)
    BY GoneLike
  <2>3. \A d \in calls' : d.from = "gone" /\ \E e \in cs : Like(d, e)
    BY <2>1, <2>2
  <2>4. MountInv'
    BY <1>1, <2>3 DEF MountInv, Like
  <2>5. \A d \in calls' : \/ \E e \in calls : Like(d, e)
                          \/ d.stage = "sent" /\ d.kind # "login"
    BY <2>3 DEF Like
  <2>6. QED
    BY <1>2, <2>4, <2>5, CallsLock DEF LockInv
<1>5. QED
  BY <1>3, <1>4

\* The cookie of an answer, on the screen that stays.
Written(c) ==
    \/ cookie' = cookie
    \/ cookie' = c.setCookie /\ (state = "authenticated" /\ ~stray => Safe(c.setCookie))

\* An answer on a screen that stays.
LEMMA LandedLock ==
    ASSUME Inv, LockInv, UNCHANGED <<server, state, stray>>, NEW c \in calls,
           calls' = S!Landed(c), busy /\ c.from # "form" => busy', Written(c)
    PROVE  LockInv'
<1>1. calls' = calls \ {c} /\ account' = account /\ sessions' = sessions
  BY DEF S!Landed, server
<1>2. MountInv'
  <2>1. \A d \in calls' : d.from = "form" => busy /\ c.from # "form"
    BY <1>1 DEF LockInv, MountInv
  <2>2. \A d \in calls' : d.from = "form" => busy'
    BY <2>1
  <2>3. state' = state /\ \A d \in calls' : d.kind # "me"
    BY <1>1 DEF LockInv, MountInv
  <2>4. QED
    BY <1>1, <2>2, <2>3 DEF LockInv, MountInv
<1>3. \A d \in calls' : \E e \in calls : Like(d, e)
  BY <1>1 DEF Like
<1>4. (\A d \in calls' : AnswerOK(d)') /\ FormInv'
  BY <1>3, CallsLock DEF server
<1>5. ShellInv'
  <2> SUFFICES ASSUME state = "authenticated", ~stray
               PROVE  Safe(cookie)' /\ \A d \in calls' : CookiesSafe(d)'
    BY DEF ShellInv
  <2>1. Safe(cookie)'
    BY <1>1 DEF Written, Safe, LockInv, ShellInv
  <2>2. \A d \in calls' : CookiesSafe(d)'
    BY <1>1 DEF CookiesSafe, AnsweredOk, Safe, LockInv, ShellInv
  <2>3. QED
    BY <2>1, <2>2
<1>6. QED
  BY <1>2, <1>4, <1>5 DEF LockInv

\* The panel of the shell closes, and takes its form with it.
LEMMA ClosedLock ==
    ASSUME Inv, LockInv, UNCHANGED <<server, state, stray>>, state = "authenticated",
           NEW c, NEW cs, cs \subseteq calls, calls' = S!FormGone(cs), busy' = FALSE, Written(c)
    PROVE  LockInv'
<1> DEFINE gone(d) == [d EXCEPT !.from = IF @ = "form" THEN "screen" ELSE @]
<1>1. calls' = {gone(d) : d \in cs} /\ account' = account /\ sessions' = sessions
  BY DEF S!FormGone, server
<1>2. ASSUME NEW d \in cs PROVE gone(d).from # "form" /\ Like(gone(d), d)
  <2>1. d \in CallType
    BY DEF Inv, CallInv, CallIn
  <2>2. QED
    BY <2>1 DEF CallType, Like
<1> HIDE DEF gone
<1>3. \A d \in calls' : d.from # "form" /\ \E e \in calls : Like(d, e)
  BY <1>1, <1>2
<1>4. (\A d \in calls' : AnswerOK(d)') /\ FormInv'
  BY <1>3, CallsLock DEF server
<1>5. MountInv'
  <2>1. \A e \in calls : /\ e.kind # "me"
                         /\ e.from # "gone" => e.kind \notin {"login", "forced"}
    BY DEF LockInv, MountInv
  <2>2. \A d \in calls' : /\ d.kind # "me" /\ d.from # "form"
                          /\ d.from # "gone" => d.kind \notin {"login", "forced"}
    BY <1>3, <2>1 DEF Like
  <2>3. QED
    BY <2>2 DEF MountInv
<1>6. ShellInv'
  <2> SUFFICES ASSUME ~stray
               PROVE  Safe(cookie)' /\ \A d \in calls' : CookiesSafe(d)'
    BY DEF ShellInv
  <2>1. Safe(cookie)'
    BY <1>1 DEF Written, Safe, LockInv, ShellInv
  <2>2. \A d \in calls' : CookiesSafe(d)'
    BY <1>1, <1>3 DEF CookiesSafe, AnsweredOk, Safe, LockInv, ShellInv, Like
  <2>3. QED
    BY <2>1, <2>2
<1>7. QED
  BY <1>4, <1>5, <1>6 DEF LockInv

\* The server is idle, and the tab does something with an answer, or with none.
LEMMA DeliverLock ==
    ASSUME Inv, LockInv, UNCHANGED server, NEW c \in calls, S!Deliver(c) \/ S!Fail(c)
    PROVE  LockInv'
<1>1. c \in CallType /\ c.must \in BOOLEAN /\ \A d \in calls : d \in CallType
  BY DEF Inv, CallInv, CallIn, CallType
<1>2. \A d \in S!Landed(c) : d \in calls /\ d.kind # "me" /\ d \in CallType
  BY <1>1 DEF S!Landed, LockInv, MountInv
<1>3. CASE S!SignedOut(S!Landed(c))
  <2>1. S!Show("anonymous", None, S!Landed(c), FALSE)
    BY <1>3 DEF S!SignedOut
  <2>2. QED
    BY <1>2, <2>1, ShowLock
<1>4. CASE S!Authenticated(c) /\ c.stage = "done"
  <2>1. S!Show(S!Screen(c.must), S!User(c.must), S!Landed(c), c.from = "gone")
        /\ c.kind \in {"me", "login"} /\ c.answer = "ok"
    BY <1>4 DEF S!Authenticated
  <2>2. S!Screen(c.must) # "loading" /\ (S!Screen(c.must) = "authenticated" => ~c.must)
    BY DEF S!Screen
  <2>3. ~c.must /\ c.from # "gone" => NoEntry
    BY <1>4, <2>1 DEF LockInv, FormInv, Opens, Unlocks, AnsweredOk
  <2>4. S!Screen(c.must) = "authenticated" /\ ~(c.from = "gone") => NoEntry
    BY <2>2, <2>3
  <2>5. QED
    BY <1>2, <2>1, <2>2, <2>4, ShowLock
<1>5. CASE S!PasswordChanged(c) /\ c.stage = "done"
  <2>1. S!Show("authenticated", S!User(FALSE), S!Landed(c), c.from = "gone")
        /\ c.kind = "forced" /\ c.answer = "ok"
    BY <1>5 DEF S!PasswordChanged
  <2>2. ~(c.from = "gone") => NoEntry
    BY <1>5, <2>1 DEF LockInv, FormInv, Opens, Unlocks, AnsweredOk
  <2>3. QED
    BY <1>2, <2>1, <2>2, ShowLock
<1>6. CASE S!PanelChanged(c) /\ c.stage = "done" /\ S!Cookie(c)
  <2>1. c.kind = "panel" /\ c.answer = "ok" /\ UNCHANGED <<state, stray>>
    BY <1>6 DEF S!PanelChanged
  <2>2. Written(c)
    BY <1>6, <2>1 DEF S!Cookie, Written, LockInv, AnswerOK, AnsweredOk
  <2>3. CASE c.from = "gone"
    <3>1. calls' = S!Landed(c) /\ busy' = busy
      BY <1>6, <2>3 DEF S!PanelChanged
    <3>2. QED
      BY <2>1, <2>2, <3>1, LandedLock DEF server
  <2>4. CASE c.from # "gone"
    <3>1. calls' = S!FormGone(S!Landed(c)) /\ busy' = FALSE /\ S!Landed(c) \subseteq calls
      BY <1>6, <2>4 DEF S!PanelChanged, S!Landed
    <3>2. state = "authenticated"
      BY <2>1, <2>4 DEF LockInv, MountInv
    <3>3. QED
      BY <2>1, <2>2, <3>1, <3>2, ClosedLock DEF server
  <2>5. QED
    BY <2>3, <2>4
<1>7. CASE (S!Refused(c) \/ S!Shown(c)) /\ c.stage = "done" /\ S!Cookie(c)
  <2>1. /\ UNCHANGED <<state, stray>> /\ calls' = S!Landed(c)
        /\ ~(c.kind = "login" /\ AnsweredOk(c))
    BY <1>7 DEF S!Refused, S!Shown, AnsweredOk
  <2>2. Written(c)
    BY <1>7, <2>1 DEF S!Cookie, Written, LockInv, ShellInv, CookiesSafe
  <2>3. busy' = busy \/ busy' = (busy /\ c.from # "form")
    BY <1>7 DEF S!Refused, S!Shown
  <2>4. busy /\ c.from # "form" => busy'
    BY <2>3
  <2>5. QED
    BY <2>1, <2>2, <2>4, LandedLock DEF server
<1>8. CASE calls' = S!Landed(c) /\ busy' = (busy /\ c.from # "form")
             /\ UNCHANGED <<state, stray, cookie>>
  <2>1. Written(c)
    BY <1>8 DEF Written
  <2>2. busy /\ c.from # "form" => busy'
    BY <1>8
  <2>3. QED
    BY <1>8, <2>1, <2>2, LandedLock DEF server
<1>9. QED
  BY <1>3, <1>4, <1>5, <1>6, <1>7, <1>8 DEF S!Deliver, S!Fail, S!Unauthorized

\* What the member does in the tab.
LEMMA ActLock ==
    ASSUME Inv, LockInv, UNCHANGED server, S!Act
    PROVE  LockInv'
<1>1. account' = account /\ sessions' = sessions /\ \A d \in calls : d \in CallType
  BY DEF server, Inv, CallInv, CallIn
<1>2. ASSUME NEW k \in S!Kind, NEW pw
      PROVE  LET d == S!Call(k, pw)
             IN  /\ d.kind = k /\ d.token = cookie /\ d.pw = pw /\ d.stage = "sent"
                 /\ d.answer = "none" /\ d.setCookie = None
                 /\ d.from = IF k \in S!Form THEN "form" ELSE "screen"
  BY DEF S!Call
<1>3. ASSUME NEW e, calls' = calls \cup {e}, UNCHANGED <<cookie, state, stray>>,
             e.kind # "me", e.stage = "sent", e.token = cookie, e.setCookie = None,
             state # "loading",
             e.from # "gone" =>
                /\ e.kind = "login" => state = "anonymous" /\ e.from = "form"
                /\ e.kind = "forced" => state = "must-change" /\ e.from = "form"
                /\ e.kind = "panel" => state = "authenticated",
             IF e.from = "form" THEN ~busy /\ busy' = TRUE ELSE busy' = busy
      PROVE  MountInv' /\ ShellInv'
  <2>1. \A d \in calls : d.kind # "me" /\ (e.from = "form" => d.from # "form")
    BY <1>3 DEF LockInv, MountInv
  <2>2. MountInv'
    BY <1>3, <2>1 DEF LockInv, MountInv
  <2>3. ShellInv'
    BY <1>1, <1>3 DEF LockInv, ShellInv, CookiesSafe, Safe, AnsweredOk
  <2>4. QED
    BY <2>2, <2>3
<1>4. CASE S!Login
  <2>1. PICK pw : calls' = calls \cup {S!Call("login", pw)}
    BY <1>4 DEF S!Login, S!Send
  <2>2. state = "anonymous" /\ ~busy /\ busy' = TRUE /\ UNCHANGED <<cookie, state, stray>>
    BY <1>4 DEF S!Login
  <2> PICK e : e = S!Call("login", pw)
    OBVIOUS
  <2>3. e.kind = "login" /\ e.token = cookie /\ e.stage = "sent" /\ e.setCookie = None /\ e.from = "form"
    BY <1>2 DEF S!Kind, S!Form
  <2>4. MountInv' /\ ShellInv'
    BY <1>3, <2>1, <2>2, <2>3
  <2>5. \A d \in calls : d.from # "gone" => ~Opens(d)
    BY <2>2 DEF LockInv, MountInv, Opens, Unlocks
  <2>6. FormInv'
    BY <2>1, <2>3, <2>5 DEF FormInv, Opens, Unlocks, AnsweredOk
  <2>7. \A d \in calls' : AnswerOK(d)'
    BY <1>1, <2>1, <2>3 DEF LockInv, AnswerOK, Unlocks, AnsweredOk, Safe
  <2>8. QED
    BY <2>4, <2>6, <2>7 DEF LockInv
<1>5. ASSUME NEW e, calls' = calls \cup {e}, e.stage = "sent", e.kind # "login"
      PROVE  (\A d \in calls' : AnswerOK(d)') /\ FormInv'
  <2>1. \A d \in calls' : \/ \E f \in calls : Like(d, f)
                          \/ d.stage = "sent" /\ d.kind # "login"
    BY <1>5 DEF Like
  <2>2. QED
    BY <2>1, CallsLock
<1>6. CASE S!ChangePassword
  <2>1. PICK pw : calls' = calls \cup {S!Call(IF panel THEN "panel" ELSE "forced", pw)}
    BY <1>6 DEF S!ChangePassword, S!Send
  <2>2. /\ state = "must-change" \/ panel
        /\ ~busy /\ busy' = TRUE /\ UNCHANGED <<cookie, state, stray>>
        /\ panel => state = "authenticated"
    BY <1>6 DEF S!ChangePassword, Inv, ScreenInv
  <2> PICK e : e = S!Call(IF panel THEN "panel" ELSE "forced", pw)
    OBVIOUS
  <2>3. /\ e.kind = IF panel THEN "panel" ELSE "forced"
        /\ e.token = cookie /\ e.stage = "sent" /\ e.setCookie = None /\ e.from = "form"
    BY <1>2 DEF S!Kind, S!Form
  <2>4. MountInv' /\ ShellInv'
    BY <1>3, <2>1, <2>2, <2>3
  <2>5. QED
    BY <1>5, <2>1, <2>3, <2>4 DEF LockInv
<1>7. CASE S!Data
  <2>1. calls' = calls \cup {S!Call("data", 0)} /\ state = "authenticated"
        /\ UNCHANGED <<cookie, state, busy, stray>>
    BY <1>7 DEF S!Data, S!Send
  <2> PICK e : e = S!Call("data", 0)
    OBVIOUS
  <2>2. e.kind = "data" /\ e.token = cookie /\ e.stage = "sent" /\ e.setCookie = None /\ e.from = "screen"
    BY <1>2 DEF S!Kind, S!Form
  <2>3. MountInv' /\ ShellInv'
    BY <1>3, <2>1, <2>2
  <2>4. QED
    BY <1>5, <2>1, <2>2, <2>3 DEF LockInv
<1>8. CASE S!Logout
  <2> DEFINE cs == calls \cup {S!Call("logout", 0)}
  <2>1. /\ S!Show("anonymous", None, cs, FALSE)
        /\ state # "anonymous" /\ state # "loading"
    BY <1>8 DEF S!Logout, S!SignedOut
  <2>2. S!Call("logout", 0) \in CallType /\ S!Call("logout", 0).kind = "logout"
        /\ S!Call("logout", 0).stage = "sent"
    BY NewCall, <1>2 DEF S!Kind, CallIn, Inv, ServerInv, AccountInv
  <2>3. \A d \in cs : d.kind # "me" /\ d \in CallType
    BY <1>1, <2>1, <2>2 DEF LockInv, MountInv
  <2>4. \A d \in cs : d \in calls \/ ("anonymous" # state /\ d.stage = "sent" /\ d.kind # "login")
    BY <2>1, <2>2
  <2> HIDE DEF cs
  <2>5. QED
    BY <2>1, <2>3, <2>4, ShowLock
<1>9. CASE S!OpenPanel
  <2>1. UNCHANGED <<cookie, state, busy, calls, stray>>
    BY <1>9 DEF S!OpenPanel
  <2>2. (\A d \in calls' : AnswerOK(d)') /\ FormInv'
    BY <2>1, CallsLock DEF Like
  <2>3. QED
    BY <1>1, <2>1, <2>2 DEF LockInv, MountInv, ShellInv, CookiesSafe, Safe, AnsweredOk
<1>10. CASE S!ClosePanel
  <2>1. /\ calls' = S!FormGone(calls) /\ busy' = FALSE /\ UNCHANGED <<cookie, state, stray>>
        /\ state = "authenticated"
    BY <1>10 DEF S!ClosePanel, Inv, ScreenInv
  <2>2. \A c : Written(c)
    BY <2>1 DEF Written
  <2>3. QED
    BY <2>1, <2>2, ClosedLock DEF server
<1>11. CASE S!Reload
  <2>1. calls' = {S!Call("me", 0)} /\ state' = "loading"
    BY <1>11 DEF S!Reload
  <2> PICK e : e = S!Call("me", 0)
    OBVIOUS
  <2>2. e.kind = "me" /\ e.stage = "sent" /\ e.from = "screen"
    BY <1>2 DEF S!Kind, S!Form
  <2>3. (\A d \in calls' : AnswerOK(d)') /\ FormInv'
    BY <2>1, <2>2, CallsLock
  <2>4. MountInv' /\ ShellInv'
    BY <2>1, <2>2 DEF MountInv, ShellInv
  <2>5. QED
    BY <2>3, <2>4 DEF LockInv
<1>12. QED
  BY <1>4, <1>6, <1>7, <1>8, <1>9, <1>10, <1>11 DEF S!Act

LEMMA LockInitially == Init => LockInv
<1> SUFFICES ASSUME Init PROVE LockInv
  OBVIOUS
<1>1. /\ calls = {S!Call("me", 0)} /\ state = "loading"
  BY DEF Init, S!Init
<1>2. S!Call("me", 0).kind = "me" /\ S!Call("me", 0).stage = "sent" /\ S!Call("me", 0).from = "screen"
  BY DEF S!Call, S!Form
<1>3. QED
  BY <1>1, <1>2 DEF LockInv, MountInv, AnswerOK, FormInv, ShellInv, Opens, Unlocks, AnsweredOk

LEMMA LockNext == Inv /\ LockInv /\ [Next]_vars => LockInv'
<1> SUFFICES ASSUME Inv, LockInv, [Next]_vars PROVE LockInv'
  OBVIOUS
<1>1. CASE MembersStep
  BY <1>1, MembersLock
<1>2. ASSUME UNCHANGED tab, UNCHANGED <<account, tokens>>, sessions' \subseteq sessions PROVE LockInv'
  BY <1>2, RestLock DEF Kept
<1>3. CASE SignInStep
  <2>1. ASSUME NEW c \in calls, S!Server(c), UNCHANGED <<cookie, state, user, busy, panel, stray>>
        PROVE  LockInv'
    BY <2>1, ServerLock
  <2>2. ASSUME NEW c \in calls, S!Deliver(c) \/ S!Fail(c), UNCHANGED server PROVE LockInv'
    BY <2>2, DeliverLock
  <2>3. ASSUME NEW s \in sessions, S!Expire(s), UNCHANGED tab PROVE LockInv'
    BY <1>2, <2>3 DEF S!Expire
  <2>4. CASE S!Act /\ UNCHANGED server
    BY <2>4, ActLock
  <2>5. QED
    BY <1>3, <2>1, <2>2, <2>3, <2>4
       DEF SignInStep, S!Next, S!Progress, S!server, server, S!tab, tab
<1>4. CASE UNCHANGED vars
  BY <1>2, <1>4 DEF vars, server
<1>5. QED
  BY <1>1, <1>3, <1>4 DEF Next

\* However resets, password changes, sign-ins, reloads and late answers follow
\* each other, the shell is not open on a live session of an account that must
\* change its password, but for the two exceptions the model names: a sign-in
\* that crossed a reset, and the answer of a form that was left
\* (AuthContext.tsx, internal/service/auth.go).
THEOREM LockHolds == Spec => []ShellIsLocked
<1>1. LockInv => ShellIsLocked
  BY DEF LockInv, ShellInv, Safe, ShellIsLocked, S!ShellIsLocked
<1>2. Init => Inv /\ LockInv
  BY Initially, LockInitially
<1>3. (Inv /\ LockInv) /\ [Next]_vars => (Inv /\ LockInv)'
  BY InvNext, LockNext
<1>4. QED
  BY <1>1, <1>2, <1>3, PTL DEF Spec

-------------------------------------------------------------------------------
(* The revealed password.  While a password is made for a member and no other *)
(* is, nobody but the member changes the password, and the row that shows one *)
(* offers to make no other without taking it down.                           *)

Made(m, p) == p \in 1 .. Len(passwords) /\ passwords[p].of = m

\* The password p is the member's, or the one the member chose since is.
Stands(m, p) ==
    account[m] # None =>
       /\ account[m].pw \in 1 .. Len(passwords)
       /\ account[m].pw = p \/ passwords[account[m].pw].by = "member"

NobodyMakes(m) == \A q \in ops : q.kind \in M!Credential => q.member # m

MakesAlone(o) ==
    \A q \in ops : q.kind \in M!Credential /\ q.member = o.member => q = o

MadeFor(o) ==
    o.stage = "done" /\ o.ok =>
       /\ Made(o.member, o.password)
       /\ o.alone => Stands(o.member, o.password)

RevealInv ==
    /\ \A o \in ops : o.kind \in M!Credential =>
          MadeFor(o) /\ (o.alone => MakesAlone(o))
    /\ credReveal # None =>
          /\ credReveal.memberId \in Member
          /\ Made(credReveal.memberId, credReveal.password)
          /\ credReveal.alone =>
                /\ Stands(credReveal.memberId, credReveal.password)
                /\ NobodyMakes(credReveal.memberId)

\* Passwords are only added, and nobody but the member gives m another.
Longer ==
    /\ Len(passwords) \in Nat /\ Len(passwords') \in Nat /\ Len(passwords) <= Len(passwords')
    /\ \A n \in 1 .. Len(passwords) : passwords'[n] = passwords[n]

Keeps(m) ==
    \/ account'[m] = None
    \/ account[m] # None /\ account'[m].pw = account[m].pw
    \/ account'[m].pw \in 1 .. Len(passwords') /\ passwords'[account'[m].pw].by = "member"

LEMMA StandsKept ==
    ASSUME Longer, NEW m, NEW p
    PROVE  /\ Made(m, p) => Made(m, p)'
           /\ Keeps(m) /\ Stands(m, p) => Stands(m, p)'
<1>1. Made(m, p) => Made(m, p)'
  BY DEF Longer, Made
<1>2. ASSUME Keeps(m), Stands(m, p) PROVE Stands(m, p)'
  BY <1>2 DEF Longer, Keeps, Stands
<1>3. QED
  BY <1>1, <1>2

LEMMA SamePasswords ==
    ASSUME Inv, UNCHANGED <<account, passwords>>
    PROVE  Longer /\ \A m \in Member : Keeps(m)
  BY DEF Inv, ServerInv, AccountInv, Longer, Keeps

\* The panel makes no password that it did not make, and shows none anew.
LEMMA RevealRest ==
    ASSUME Inv, RevealInv, Longer, \A m \in Member : Keeps(m),
           \A q \in ops' : q.kind \in M!Credential => q \in ops,
           credReveal' = credReveal \/ credReveal' = None
    PROVE  RevealInv'
<1>1. ASSUME NEW o \in ops', o.kind \in M!Credential
      PROVE  MadeFor(o)' /\ (o.alone => MakesAlone(o)')
  <2>1. o \in ops /\ o.member \in Member /\ MadeFor(o) /\ (o.alone => MakesAlone(o))
    BY <1>1 DEF Inv, OpInv, OpOK, OpType, RevealInv, M!Credential
  <2>2. MadeFor(o)'
    BY <2>1, StandsKept DEF MadeFor
  <2>3. o.alone => MakesAlone(o)'
    BY <2>1 DEF MakesAlone
  <2>4. QED
    BY <2>2, <2>3
<1>2. ASSUME credReveal' # None
      PROVE  /\ credReveal'.memberId \in Member
             /\ Made(credReveal.memberId, credReveal.password)'
             /\ credReveal'.alone =>
                   /\ Stands(credReveal.memberId, credReveal.password)'
                   /\ NobodyMakes(credReveal.memberId)'
  <2> PICK m, p : m = credReveal.memberId /\ p = credReveal.password
    OBVIOUS
  <2>1. /\ credReveal' = credReveal /\ m \in Member /\ Made(m, p)
        /\ credReveal.alone => Stands(m, p) /\ NobodyMakes(m)
    BY <1>2 DEF RevealInv
  <2>2. Made(m, p)' /\ (Stands(m, p) => Stands(m, p)')
    BY <2>1, StandsKept
  <2>3. NobodyMakes(m) => NobodyMakes(m)'
    BY DEF NobodyMakes
  <2>4. credReveal'.memberId = m /\ credReveal'.password = p
    BY <2>1
  <2>5. QED
    BY <2>1, <2>2, <2>3, <2>4 DEF Made, Stands, NobodyMakes
<1>3. QED
  BY <1>1, <1>2 DEF RevealInv

\* A password is to be made for m: it is made alone if no other is, and the
\* row of m shows none meanwhile.
LEMMA RevealSend ==
    ASSUME Inv, RevealInv, UNCHANGED <<account, sessions, passwords>>, NEW m \in Member,
           NEW k \in M!Credential, M!SendCredential(M!Op(k, m, None)),
           credReveal' = None \/ (credReveal' = credReveal /\ ~M!isRevealing(m))
    PROVE  RevealInv'
<1>1. Longer /\ \A n \in Member : Keeps(n)
  BY SamePasswords
<1>2. \A q \in ops : q \in OpType
  BY DEF Inv, OpInv, OpOK
<1> DEFINE Ov == {q \in ops : q.kind \in M!Credential /\ q.member = m}
<1> PICK o : o = [M!Op(k, m, None) EXCEPT !.alone = Ov = {}]
  OBVIOUS
<1>3. o.kind = k /\ o.member = m /\ o.stage = "sent" /\ o.alone = (Ov = {})
  BY DEF M!Op
<1>4. ops' = (ops \ Ov) \cup {[q EXCEPT !.alone = FALSE] : q \in Ov} \cup {o}
  BY DEF M!SendCredential, M!Overlapping, M!Op
<1>5. \A q \in Ov : LET r == [q EXCEPT !.alone = FALSE]
                   IN  /\ r.kind = q.kind /\ r.member = m /\ r.stage = q.stage /\ r.ok = q.ok
                       /\ r.password = q.password /\ r.alone = FALSE
  BY <1>2 DEF OpType
<1> HIDE DEF Ov
<1>6. \A q \in ops' : q \in ops \/ q.member = m
  BY <1>3, <1>4, <1>5
<1>7. ASSUME NEW r \in ops', r.kind \in M!Credential
      PROVE  MadeFor(r)' /\ (r.alone => MakesAlone(r)')
  <2>1. CASE r \in ops \ Ov
    <3>1. r.member \in Member /\ r.member # m /\ MadeFor(r) /\ (r.alone => MakesAlone(r))
      BY <1>7, <2>1 DEF Inv, OpInv, OpOK, OpType, RevealInv, M!Credential, Ov
    <3>2. MadeFor(r)'
      BY <1>1, <3>1, StandsKept DEF MadeFor
    <3>3. \A q \in ops' : q.member = r.member => q \in ops
      BY <1>6, <3>1
    <3>4. r.alone => MakesAlone(r)'
      BY <3>1, <3>3 DEF MakesAlone
    <3>5. QED
      BY <3>2, <3>4
  <2>2. ASSUME NEW q \in Ov, r = [q EXCEPT !.alone = FALSE] PROVE MadeFor(r)' /\ ~r.alone
    <3>1. MadeFor(q) /\ q.member = m
      BY DEF RevealInv, Ov
    <3>2. /\ r.member = m /\ r.stage = q.stage /\ r.ok = q.ok
          /\ r.password = q.password /\ r.alone = FALSE
      BY <1>5, <2>2
    <3>3. MadeFor(r)'
      BY <1>1, <3>1, <3>2, StandsKept DEF MadeFor
    <3>4. QED
      BY <3>2, <3>3
  <2>3. CASE r = o
    <3>1. MadeFor(r)'
      BY <1>3, <2>3 DEF MadeFor
    <3>2. r.alone => Ov = {}
      BY <1>3, <2>3
    <3>3. Ov = {} => \A q \in ops' : q \in ops \ Ov \/ q = o
      BY <1>4
    <3>4. r.alone => MakesAlone(r)'
      BY <1>3, <2>3, <3>2, <3>3 DEF MakesAlone, Ov
    <3>5. QED
      BY <3>1, <3>4
  <2>4. QED
    BY <1>4, <2>1, <2>2, <2>3
<1>8. ASSUME credReveal' # None
      PROVE  /\ credReveal'.memberId \in Member
             /\ Made(credReveal.memberId, credReveal.password)'
             /\ credReveal'.alone =>
                   /\ Stands(credReveal.memberId, credReveal.password)'
                   /\ NobodyMakes(credReveal.memberId)'
  <2> PICK n, p : n = credReveal.memberId /\ p = credReveal.password
    OBVIOUS
  <2>1. /\ credReveal' = credReveal /\ n \in Member /\ n # m /\ Made(n, p)
        /\ credReveal.alone => Stands(n, p) /\ NobodyMakes(n)
    BY <1>8 DEF RevealInv, M!isRevealing
  <2>2. Made(n, p)' /\ (Stands(n, p) => Stands(n, p)')
    BY <1>1, <2>1, StandsKept
  <2>3. \A q \in ops' : q.member = n => q \in ops
    BY <1>6, <2>1
  <2>4. NobodyMakes(n) => NobodyMakes(n)'
    BY <2>3 DEF NobodyMakes
  <2>5. credReveal'.memberId = n /\ credReveal'.password = p
    BY <2>1
  <2>6. QED
    BY <2>1, <2>2, <2>4, <2>5 DEF Made, Stands, NobodyMakes
<1>9. QED
  BY <1>7, <1>8 DEF RevealInv

\* A step of the server on a call of the panel, which becomes e: it gives no
\* other member another password.
LEMMA RevealPut ==
    ASSUME Inv, RevealInv, Longer, NEW o \in ops, NEW e, M!Put(o, e), credReveal' = credReveal,
           e.kind = o.kind, e.member = o.member, e.alone = o.alone,
           o.kind \in M!Credential => MadeFor(e)',
           \A m \in Member : Keeps(m) \/ (o.kind \in M!Credential /\ m = o.member)
    PROVE  RevealInv'
<1>1. ops' = (ops \ {o}) \cup {e}
  BY DEF M!Put
<1>2. ASSUME NEW r \in ops', r.kind \in M!Credential
      PROVE  MadeFor(r)' /\ (r.alone => MakesAlone(r)')
  <2>1. CASE r = e
    <3>1. o.alone => MakesAlone(o)
      BY <1>2, <2>1 DEF RevealInv
    <3>2. r.alone => MakesAlone(r)'
      BY <1>1, <2>1, <3>1 DEF MakesAlone
    <3>3. QED
      BY <1>2, <2>1, <3>2
  <2>2. CASE r # e
    <3>1. r \in ops /\ r # o /\ r.member \in Member /\ MadeFor(r) /\ (r.alone => MakesAlone(r))
      BY <1>1, <1>2, <2>2 DEF Inv, OpInv, OpOK, OpType, RevealInv, M!Credential
    <3>2. r.alone => ~(o.kind \in M!Credential /\ o.member = r.member)
      BY <3>1 DEF MakesAlone
    <3>3. r.alone => Keeps(r.member)
      BY <3>1, <3>2
    <3>4. MadeFor(r)'
      BY <3>1, <3>3, StandsKept DEF MadeFor
    <3>5. r.alone => MakesAlone(r)'
      BY <1>1, <3>1, <3>2 DEF MakesAlone
    <3>6. QED
      BY <3>4, <3>5
  <2>3. QED
    BY <2>1, <2>2
<1>3. ASSUME credReveal' # None
      PROVE  /\ credReveal'.memberId \in Member
             /\ Made(credReveal.memberId, credReveal.password)'
             /\ credReveal'.alone =>
                   /\ Stands(credReveal.memberId, credReveal.password)'
                   /\ NobodyMakes(credReveal.memberId)'
  <2> PICK n, p : n = credReveal.memberId /\ p = credReveal.password
    OBVIOUS
  <2>1. /\ n \in Member /\ Made(n, p)
        /\ credReveal.alone => Stands(n, p) /\ NobodyMakes(n)
    BY <1>3 DEF RevealInv
  <2>2. NobodyMakes(n) => Keeps(n) /\ NobodyMakes(n)'
    BY <1>1, <2>1 DEF NobodyMakes
  <2>3. Made(n, p)' /\ (Keeps(n) /\ Stands(n, p) => Stands(n, p)')
    BY <2>1, StandsKept
  <2>4. credReveal'.memberId = n /\ credReveal'.password = p
    OBVIOUS
  <2>5. QED
    BY <2>1, <2>2, <2>3, <2>4 DEF Made, Stands, NobodyMakes
<1>4. QED
  BY <1>2, <1>3 DEF RevealInv

\* An answer that reveals what was made.
LEMMA RevealShow ==
    ASSUME Inv, RevealInv, UNCHANGED <<account, sessions, passwords>>, NEW o \in ops,
           o.stage = "done", M!Reveal(o)
    PROVE  RevealInv'
<1>1. Longer /\ \A n \in Member : Keeps(n)
  BY SamePasswords
<1>2. /\ o.kind \in M!Credential /\ o.ok
      /\ credReveal' = [memberId |-> o.member, password |-> o.password, alone |-> o.alone]
      /\ \A q \in ops' : q.kind \in M!Credential => q \in ops /\ q # o
  BY DEF M!Reveal, M!Landed, M!AndReload, M!Op, M!Credential
<1>3. o.member \in Member /\ MadeFor(o) /\ (o.alone => MakesAlone(o))
  BY <1>2 DEF Inv, OpInv, OpOK, OpType, RevealInv, M!Credential
<1>4. ASSUME NEW r \in ops', r.kind \in M!Credential
      PROVE  MadeFor(r)' /\ (r.alone => MakesAlone(r)')
  <2>1. r \in ops /\ r.member \in Member /\ MadeFor(r) /\ (r.alone => MakesAlone(r))
    BY <1>2, <1>4 DEF Inv, OpInv, OpOK, OpType, RevealInv, M!Credential
  <2>2. MadeFor(r)'
    BY <1>1, <2>1, StandsKept DEF MadeFor
  <2>3. r.alone => MakesAlone(r)'
    BY <1>2, <2>1 DEF MakesAlone
  <2>4. QED
    BY <2>2, <2>3
<1>5. /\ Made(o.member, o.password)'
      /\ o.alone => Stands(o.member, o.password)' /\ NobodyMakes(o.member)'
  <2>1. Made(o.member, o.password) /\ (o.alone => Stands(o.member, o.password))
    BY <1>2, <1>3 DEF MadeFor
  <2>2. o.alone => NobodyMakes(o.member)'
    BY <1>2, <1>3 DEF MakesAlone, NobodyMakes
  <2>3. QED
    BY <1>1, <1>3, <2>1, <2>2, StandsKept
<1>6. /\ credReveal'.memberId = o.member /\ credReveal'.password = o.password
      /\ credReveal'.alone = o.alone
  BY <1>2
<1>7. QED
  BY <1>3, <1>4, <1>5, <1>6 DEF RevealInv, Made, Stands, NobodyMakes

\* What the admin does on the panel.
LEMMA RevealAct ==
    ASSUME Inv, RevealInv, UNCHANGED <<account, sessions, passwords>>, M!Act
    PROVE  RevealInv'
<1>1. Longer /\ \A n \in Member : Keeps(n)
  BY SamePasswords
<1>2. ASSUME ops' = ops, credReveal' = credReveal \/ credReveal' = None PROVE RevealInv'
  BY <1>1, <1>2, RevealRest
<1>3. ASSUME NEW k \in M!OpKind \ M!Credential, NEW m, NEW a, M!Send(M!Op(k, m, a)),
             credReveal' = credReveal
      PROVE  RevealInv'
  <2>1. ops' = ops \cup {M!Op(k, m, a)} /\ M!Op(k, m, a).kind = k
    BY <1>3 DEF M!Send, M!Op
  <2>2. \A q \in ops' : q.kind \in M!Credential => q \in ops
    BY <2>1
  <2>3. QED
    BY <1>1, <1>3, <2>2, RevealRest
<1>4. CASE M!openMembers \/ M!requestCloseMembers \/ M!closeTimer \/ M!cancelEdit
           \/ M!cancelEnableLogin \/ M!revealDone
  BY <1>2, <1>4 DEF M!openMembers, M!requestCloseMembers, M!closeTimer, M!cancelEdit,
     M!cancelEnableLogin, M!revealDone
<1>5. ASSUME NEW m \in Member, M!startEdit(m) \/ M!startEnableLogin(m) PROVE RevealInv'
  BY <1>2, <1>5 DEF M!startEdit, M!startEnableLogin
<1>6. ASSUME NEW m \in Member, M!confirmEnableLogin(m) PROVE RevealInv'
  <2>1. /\ M!SendCredential(M!Op("enable", m, None))
        /\ credReveal' = credReveal /\ ~M!isRevealing(m)
    BY <1>6 DEF M!confirmEnableLogin, M!Enabling
  <2>2. QED
    BY <2>1, RevealSend DEF M!Credential
<1>7. ASSUME NEW m \in Member, M!handleResetPassword(m) PROVE RevealInv'
  <2>1. M!SendCredential(M!Op("reset", m, None)) /\ credReveal' = None
    BY <1>7 DEF M!handleResetPassword
  <2>2. QED
    BY <2>1, RevealSend DEF M!Credential
<1>8. ASSUME NEW m \in Member, M!removeMember(m) \/ M!handleToggleDisabled(m) PROVE RevealInv'
  <2>1. "remove" \in M!OpKind \ M!Credential /\ "toggle" \in M!OpKind \ M!Credential
    BY DEF M!OpKind, M!Credential
  <2>2. QED
    BY <1>3, <1>8, <2>1 DEF M!removeMember, M!handleToggleDisabled
<1>9. CASE M!saveEdit \/ M!submitAddMember
  <2>1. "edit" \in M!OpKind \ M!Credential /\ "add" \in M!OpKind \ M!Credential
    BY DEF M!OpKind, M!Credential
  <2>2. CASE M!saveEdit
    <3>1. PICK b : M!Send(M!Op("edit", editingId, [profile |-> draft, email |-> b]))
      BY <2>2 DEF M!saveEdit
    <3>2. PICK n, a : n = editingId /\ a = [profile |-> draft, email |-> b]
      OBVIOUS
    <3>3. M!Send(M!Op("edit", n, a)) /\ credReveal' = credReveal
      BY <2>2, <3>1, <3>2 DEF M!saveEdit
    <3>4. QED
      BY <1>3, <2>1, <3>3
  <2>3. CASE M!submitAddMember
    BY <1>3, <2>1, <2>3 DEF M!submitAddMember
  <2>4. QED
    BY <1>9, <2>2, <2>3
<1>10. QED
  BY <1>4, <1>5, <1>6, <1>7, <1>8, <1>9 DEF M!Act

\* What the server does for the panel.
LEMMA RevealServer ==
    ASSUME Inv, RevealInv, NEW o \in ops, M!Server(o), credReveal' = credReveal
    PROVE  RevealInv'
<1>1. /\ o \in OpType /\ OpOK(o) /\ Len(passwords) \in Nat
      /\ account \in [Member -> Record \cup {None}]
  BY DEF Inv, OpInv, OpOK, ServerInv, AccountInv
<1>2. ASSUME NEW e, M!Put(o, e), Longer, \A m \in Member : Keeps(m),
             e.kind = o.kind, e.member = o.member, e.alone = o.alone,
             e.stage # "done" \/ e.ok = FALSE \/ o.kind \notin M!Credential
      PROVE  RevealInv'
  <2>1. o.kind \in M!Credential => MadeFor(e)'
    BY <1>2 DEF MadeFor
  <2>2. QED
    BY <1>2, <2>1, RevealPut
<1>3. CASE M!Refuse(o)
  <2> PICK e : e = M!Done(o, FALSE, 0)
    OBVIOUS
  <2>1. M!Put(o, e) /\ UNCHANGED <<account, passwords>>
    BY <1>3 DEF M!Refuse
  <2>2. e.kind = o.kind /\ e.member = o.member /\ e.alone = o.alone /\ e.ok = FALSE
    BY <1>1 DEF M!Done, OpType
  <2>3. QED
    BY <1>2, <2>1, <2>2, SamePasswords
<1>4. CASE M!ReadMember(o) /\ ~M!Refuse(o)
  <2> PICK e : e = [o EXCEPT !.stage = "read"]
    OBVIOUS
  <2>1. M!Put(o, e) /\ UNCHANGED <<account, passwords>>
    BY <1>4 DEF M!ReadMember
  <2>2. e.kind = o.kind /\ e.member = o.member /\ e.alone = o.alone /\ e.stage = "read"
    BY <1>1 DEF OpType
  <2>3. QED
    BY <1>2, <2>1, <2>2, SamePasswords
<1>5. CASE M!IssuePassword(o)
  <2> PICK made, m : made = Len(passwords') /\ m = o.member
    OBVIOUS
  <2> PICK e : e = M!Done(o, TRUE, made)
    OBVIOUS
  <2>1. /\ o.stage = "read" /\ passwords' = Append(passwords, [of |-> m, by |-> "admin"])
        /\ account' = IF ~M!Exists(m) THEN account
                      ELSE [account EXCEPT ![m].pw = made, ![m].must = TRUE,
                                           ![m].disabled = @ /\ o.kind = "reset"]
        /\ M!Put(o, e)
    BY <1>5 DEF M!IssuePassword
  <2>2. o.kind \in M!Credential /\ m \in Member
    BY <1>1, <2>1 DEF OpOK, OpType, M!Credential
  <2>3. made = Len(passwords) + 1 /\ passwords'[made] = [of |-> m, by |-> "admin"] /\ Longer
    BY <1>1, <2>1 DEF Longer, Inv, ServerInv, AccountInv
  <2>4. /\ e.kind = o.kind /\ e.member = m /\ e.alone = o.alone
        /\ e.stage = "done" /\ e.ok = TRUE /\ e.password = made
    BY <1>1 DEF M!Done, OpType
  <2>5. account'[m] # None => account'[m].pw = made
    BY <1>1, <2>1, <2>2 DEF M!Exists, Record
  <2>6. Made(m, made)' /\ Stands(m, made)'
    BY <1>1, <2>1, <2>3, <2>5 DEF Made, Stands
  <2>7. MadeFor(e)'
    BY <2>4, <2>6 DEF MadeFor
  <2>8. ASSUME NEW n \in Member PROVE Keeps(n) \/ n = m
    BY <1>1, <2>1, <2>2 DEF Keeps
  <2>9. QED
    BY <2>1, <2>2, <2>3, <2>4, <2>7, <2>8, RevealPut
<1>6. CASE (M!PatchMember(o) \/ M!DeleteMember(o)) /\ ~M!Refuse(o)
  <2> PICK e : e = M!Done(o, TRUE, 0)
    OBVIOUS
  <2>1. M!Put(o, e) /\ passwords' = passwords /\ o.kind \in {"edit", "toggle", "remove"}
    BY <1>6 DEF M!PatchMember, M!DeleteMember
  <2>2. \/ account' = [account EXCEPT ![o.member] = None]
        \/ M!Exists(o.member) /\
             \/ account' = [account EXCEPT ![o.member].profile = o.arg.profile,
                                           ![o.member].email = o.arg.email]
             \/ account' = [account EXCEPT ![o.member].disabled = o.arg]
    BY <1>6 DEF M!PatchMember, M!DeleteMember
  <2>3. ASSUME NEW n \in Member PROVE Keeps(n)
    BY <1>1, <2>2 DEF Keeps, M!Exists, Record
  <2>4. Longer
    BY <1>1, <2>1 DEF Longer
  <2>5. e.kind = o.kind /\ e.member = o.member /\ e.alone = o.alone
    BY <1>1 DEF M!Done, OpType
  <2>6. QED
    BY <1>2, <2>1, <2>3, <2>4, <2>5 DEF M!Credential
<1>7. CASE M!CreateMember(o)
  <2> PICK e : e = M!Done(o, TRUE, 0)
    OBVIOUS
  <2>1. M!Put(o, e) /\ UNCHANGED <<account, passwords>> /\ o.kind = "add"
    BY <1>7 DEF M!CreateMember
  <2>2. e.kind = o.kind /\ e.member = o.member /\ e.alone = o.alone
    BY <1>1 DEF M!Done, OpType
  <2>3. QED
    BY <1>2, <2>1, <2>2, SamePasswords DEF M!Credential
<1>8. CASE M!ReadBoard(o)
  <2> PICK e : e = [M!Done(o, TRUE, 0) EXCEPT !.arg = M!Board]
    OBVIOUS
  <2>1. M!Put(o, e) /\ UNCHANGED <<account, passwords>> /\ o.kind = "board"
    BY <1>8 DEF M!ReadBoard
  <2>2. e.kind = o.kind /\ e.member = o.member /\ e.alone = o.alone
    BY <1>1 DEF M!Done, OpType
  <2>3. QED
    BY <1>2, <2>1, <2>2, SamePasswords DEF M!Credential
<1>9. QED
  BY <1>3, <1>4, <1>5, <1>6, <1>7, <1>8 DEF M!Server, M!ReadMember

\* What a password written in the tab is to the members.
LEMMA RevealTab ==
    ASSUME Inv, RevealInv, SignInStep
    PROVE  RevealInv'
<1>1. UNCHANGED members /\ UNCHANGED <<ops, credReveal>>
  BY DEF SignInStep, members
<1>2. Longer /\ \A m \in Member : Keeps(m)
  <2>1. CASE UNCHANGED <<account, passwords>>
    BY <2>1, SamePasswords
  <2>2. ASSUME NEW c \in calls, S!WritePassword(c) PROVE Longer /\ \A m \in Member : Keeps(m)
    <3>1. /\ passwords' = Append(passwords, [of |-> Me, by |-> "member"])
          /\ account' = [account EXCEPT ![Me].pw = Len(passwords'), ![Me].must = FALSE]
          /\ Len(passwords) \in Nat /\ account \in [Member -> Record \cup {None}]
          /\ account[Me] \in Record
      BY <2>2, AccountAssumption DEF S!WritePassword, Inv, ServerInv, AccountInv
    <3>2. /\ Len(passwords') = Len(passwords) + 1 /\ Longer
          /\ passwords'[Len(passwords')] = [of |-> Me, by |-> "member"]
      BY <3>1 DEF Longer, Inv, ServerInv, AccountInv
    <3>3. account'[Me].pw = Len(passwords')
      BY <3>1, AccountAssumption DEF Record
    <3>4. ASSUME NEW m \in Member, m # Me PROVE account'[m] = account[m]
      BY <3>1, <3>4
    <3>5. QED
      BY <3>1, <3>2, <3>3, <3>4 DEF Keeps
  <2>3. QED
    BY <2>1, <2>2 DEF SignInStep, S!Next, S!Progress, S!Server, S!server, S!Serve, S!Verify,
       S!CreateSession, S!Expire
<1>3. QED
  BY <1>1, <1>2, RevealRest

LEMMA RevealNext == Inv /\ RevealInv /\ [Next]_vars => RevealInv'
<1> SUFFICES ASSUME Inv, RevealInv, [Next]_vars PROVE RevealInv'
  OBVIOUS
<1>1. CASE SignInStep
  BY <1>1, RevealTab
<1>2. CASE MembersStep
  <2>1. CASE M!Act /\ UNCHANGED <<account, sessions, passwords>>
    BY <2>1, RevealAct
  <2>2. ASSUME NEW o \in ops, M!Server(o), credReveal' = credReveal PROVE RevealInv'
    BY <2>2, RevealServer
  <2>3. ASSUME NEW o \in ops, M!Deliver(o) \/ M!Fail(o) PROVE RevealInv'
    <3>1. UNCHANGED <<account, sessions, passwords>>
      BY <2>3 DEF M!Deliver, M!Fail
    <3>2. CASE M!Deliver(o) /\ M!Reveal(o)
      BY <3>1, <3>2, RevealShow DEF M!Deliver
    <3>3. CASE ~(M!Deliver(o) /\ M!Reveal(o))
      <4>1. credReveal' = credReveal /\ \A q \in ops' : q.kind \in M!Credential => q \in ops
        BY <2>3, <3>3 DEF M!Deliver, M!Fail, M!Saved, M!Loaded, M!Failed, M!Landed, M!AndReload,
           M!Op, M!Credential
      <4>2. QED
        BY <3>1, <4>1, SamePasswords, RevealRest
    <3>4. QED
      BY <3>2, <3>3
  <2>4. QED
    BY <1>2, <2>1, <2>2, <2>3 DEF MembersStep, M!Next, M!Progress
<1>3. CASE UNCHANGED vars
  <2>1. UNCHANGED <<account, passwords, ops, credReveal>>
    BY <1>3 DEF vars, server, members
  <2>2. QED
    BY <2>1, SamePasswords, RevealRest
<1>4. QED
  BY <1>1, <1>2, <1>3 DEF Next

\* The password an admin is shown for a member is that member's, however
\* resets, enablings, edits, removals and late answers overlap, until the
\* member chooses another or two are made at once
\* (TeamPage.tsx, internal/service/auth.go).
THEOREM RevealedStands == Spec => []RevealedPasswordStands
<1>1. RevealInv => RevealedPasswordStands
  BY DEF RevealInv, Made, Stands, RevealedPasswordStands, M!RevealedPasswordStands, M!Exists
<1>2. Init => Inv /\ RevealInv
  BY Initially DEF Init, M!Init, RevealInv
<1>3. (Inv /\ RevealInv) /\ [Next]_vars => (Inv /\ RevealInv)'
  BY InvNext, RevealNext
<1>4. QED
  BY <1>1, <1>2, <1>3, PTL DEF Spec

===============================================================================
