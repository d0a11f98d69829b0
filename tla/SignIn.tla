--------------------------------- MODULE SignIn ---------------------------------
(***************************************************************************)
(* ui/src/auth: one browser tab of a member, and what the server does with   *)
(* the calls of its sign-in flow (internal/httpapi, internal/service).       *)
(*                                                                          *)
(* A call carries the cookie the tab holds when it is sent; its answer       *)
(* writes the cookie again (the session middleware slides the expiry on      *)
(* every authenticated answer and clears it on a dead session), so answers   *)
(* out of order also write the cookie out of order.  Signing in and changing *)
(* the password are two steps of the server: it verifies, then it writes.    *)
(***************************************************************************)
EXTENDS Integers, FiniteSets, Sequences

CONSTANTS None, Member, Me, MaxCalls, MaxTokens, MaxChanges

VARIABLES
    account,   \* member -> None or [pw, must, disabled, email, profile]
    sessions,  \* the live sessions of Me: [token, pw, crossed]
    passwords, \* every password made: [of, by]; a password is its place here
    tokens,    \* how many sessions were ever made
    cookie,    \* the session cookie of the tab, 0 when there is none
    state,     \* AuthProvider's BootState
    user,      \* the signed-in user, None or [must]
    busy,      \* the mounted form waits for its answer
    panel,     \* the shell's change-password panel is open
    calls,     \* the calls of the tab
    stray      \* ghost: the screen was put up by the answer of a form then gone

server == <<account, sessions, passwords, tokens>>
tab == <<cookie, state, user, busy, panel, calls, stray>>

NoCookie == 0
User(must) == [must |-> must]
Kind == {"me", "login", "logout", "data", "forced", "panel"}
Form == {"login", "forced", "panel"}
Answers == {"none", "ok", "401", "refused"}

\* A call: the cookie and password it carries, how far the server is with it,
\* its answer, and whether the form and the screen that sent it are mounted.
Call(k, pw) == [kind |-> k, token |-> cookie, pw |-> pw, stage |-> "sent",
                answer |-> "none", must |-> FALSE, setCookie |-> None,
                from |-> IF k \in Form THEN "form" ELSE "screen"]

Screen(must) == IF must THEN "must-change" ELSE "authenticated"

\* The tab has just loaded, with the cookie of an earlier visit or without.
Init ==
    /\ cookie \in {NoCookie, 1}
    /\ state = "loading" /\ user = None /\ busy = FALSE /\ panel = FALSE
    /\ calls = {Call("me", 0)} /\ stray = FALSE

-------------------------------------------------------------------------------
\* What the tab sends.
MaySend == Cardinality(calls) < MaxCalls
Pending(kinds) == Cardinality({c \in calls : c.kind \in kinds /\ c.stage # "done"})
MayMint == tokens + Pending({"login"}) < MaxTokens
MayChange ==
    Cardinality({n \in 1 .. Len(passwords) : passwords[n].by = "member"})
        + Pending({"forced", "panel"}) < MaxChanges

Send(c) ==
    /\ MaySend
    /\ calls' = calls \cup {c}

Login ==
    /\ state = "anonymous" /\ ~busy /\ MayMint
    /\ \E pw \in 1 .. Len(passwords) : passwords[pw].of = Me /\ Send(Call("login", pw))
    /\ busy' = TRUE
    /\ UNCHANGED <<cookie, state, user, panel, stray>>

\* ForcedChangeScreen and ChangePasswordPanel hold the same form.
ChangePassword ==
    /\ state = "must-change" \/ panel
    /\ ~busy /\ MayChange
    /\ \E pw \in 1 .. Len(passwords) :
          passwords[pw].of = Me
          /\ Send(Call(IF panel THEN "panel" ELSE "forced", pw))
    /\ busy' = TRUE
    /\ UNCHANGED <<cookie, state, user, panel, stray>>

\* Any other call of the shell.
Data ==
    /\ state = "authenticated"
    /\ Send(Call("data", 0))
    /\ UNCHANGED <<cookie, state, user, busy, panel, stray>>

-------------------------------------------------------------------------------
\* A screen that is left takes what it mounted with it, a panel its form.
Gone(cs) == {[c EXCEPT !.from = "gone"] : c \in cs}
FormGone(cs) == {[c EXCEPT !.from = IF @ = "form" THEN "screen" ELSE @] : c \in cs}

\* AuthProvider shows a screen, on the answer of a form then gone if late.
Show(s, u, cs, late) ==
    /\ state' = s /\ user' = u /\ stray' = late
    /\ IF s = state THEN calls' = cs /\ UNCHANGED <<busy, panel>>
       ELSE calls' = Gone(cs) /\ busy' = FALSE /\ panel' = FALSE

SignedOut(cs) == Show("anonymous", None, cs, FALSE)

\* The call is not awaited: the tab is signed out at once.
Logout ==
    /\ state \in {"must-change", "authenticated"} /\ MaySend
    /\ SignedOut(calls \cup {Call("logout", 0)})
    /\ UNCHANGED cookie

OpenPanel ==
    /\ state = "authenticated" /\ ~panel
    /\ panel' = TRUE
    /\ UNCHANGED <<cookie, state, user, busy, calls, stray>>

\* Escape, the backdrop and the close button do not wait for an answer.
ClosePanel ==
    /\ panel
    /\ panel' = FALSE /\ busy' = FALSE /\ calls' = FormGone(calls)
    /\ UNCHANGED <<cookie, state, user, stray>>

Reload ==
    /\ state # "loading"
    /\ state' = "loading" /\ user' = None /\ busy' = FALSE /\ panel' = FALSE
    /\ calls' = {Call("me", 0)} /\ stray' = FALSE
    /\ UNCHANGED cookie

-------------------------------------------------------------------------------
\* The server.
Live(token) == \E s \in sessions : s.token = token
MayEnter == account[Me].pw # 0 /\ ~account[Me].disabled

\* sessionLoad: the user a call is served for, and the cookie it writes.
Loaded(c) == Live(c.token) /\ MayEnter
Slide(c) == IF c.token = NoCookie THEN None ELSE IF Loaded(c) THEN c.token ELSE NoCookie

\* The answer is what matters of a call that is done.
Answered(c, a, setTo) == [c EXCEPT !.stage = "done", !.answer = a, !.setCookie = setTo,
                                   !.token = NoCookie, !.pw = 0]
Put(c, d) == calls' = (calls \ {c}) \cup {d}

\* requireAuth, and the handlers that only read.
Serve(c) ==
    /\ c.stage = "sent" /\ c.kind \in {"me", "data", "logout"}
    /\ Put(c, [Answered(c, IF Loaded(c) THEN "ok" ELSE "401",
                        IF c.kind = "logout" /\ Loaded(c) THEN NoCookie ELSE Slide(c))
               EXCEPT !.must = (c.kind = "me" /\ account[Me].must)])
    /\ sessions' = IF c.kind = "logout" /\ Loaded(c)
                   THEN {s \in sessions : s.token # c.token} ELSE sessions
    /\ UNCHANGED <<account, passwords, tokens>>

\* The checks of Authenticate and of ChangePassword.  A session whose password must
\* change is not let through to a log-in.
Right(c) ==
    /\ c.pw = account[Me].pw
    /\ IF c.kind = "login" THEN MayEnter /\ ~(Loaded(c) /\ account[Me].must) ELSE Loaded(c)

\* Authenticate keeps the user it read for the answer.
Verify(c) ==
    /\ c.stage = "sent" /\ c.kind \in Form
    /\ Put(c, IF Right(c) THEN [c EXCEPT !.stage = "verified", !.setCookie = Slide(c),
                                         !.must = (c.kind = "login" /\ account[Me].must)]
              ELSE Answered(c, "refused", Slide(c)))
    /\ UNCHANGED server

\* CreateSession, for the member read by Authenticate.
CreateSession(c) ==
    /\ c.stage = "verified" /\ c.kind = "login"
    /\ tokens' = tokens + 1
    /\ sessions' = sessions \cup
          {[token |-> tokens', pw |-> c.pw,
            crossed |-> c.pw # account[Me].pw \/ account[Me].disabled]}
    /\ Put(c, Answered(c, "ok", tokens'))
    /\ UNCHANGED <<account, passwords>>

\* The new hash, must_change_password = FALSE, and the end of every session
\* but the caller's, in one transaction.
WritePassword(c) ==
    /\ c.stage = "verified" /\ c.kind \in {"forced", "panel"}
    /\ passwords' = Append(passwords, [of |-> Me, by |-> "member"])
    /\ account' = [account EXCEPT ![Me].pw = Len(passwords'), ![Me].must = FALSE]
    /\ sessions' = {[s EXCEPT !.pw = Len(passwords')] :
                       s \in {t \in sessions : t.token = c.token}}
    /\ Put(c, Answered(c, "ok", c.setCookie))
    /\ UNCHANGED tokens

\* The sliding expiry of an unused session, and the sweep at sign-in.
Expire(s) ==
    /\ sessions' = sessions \ {s}
    /\ UNCHANGED <<account, passwords, tokens, calls>>

-------------------------------------------------------------------------------
\* What the tab does with an answer.
Landed(c) == calls \ {c}
Cookie(c) == cookie' = IF c.setCookie = None THEN cookie ELSE c.setCookie

\* request(): every 401 that is not a form's own goes to AuthProvider.
Unauthorized(c) ==
    /\ c.answer = "401" /\ c.kind \notin Form
    /\ SignedOut(Landed(c))

\* Mutant: only the boot check looks at mustChangePassword.
BootOnlyLocks(c) ==
    /\ c.answer = "ok" /\ c.kind \in {"me", "login"}
    /\ LET must == c.kind = "me" /\ c.must
       IN Show(Screen(must), User(must), Landed(c), c.from = "gone")

\* handleAuthenticated, also from the boot check.
Authenticated(c) ==
    /\ c.answer = "ok" /\ c.kind \in {"me", "login"}
    /\ Show(Screen(c.must), User(c.must), Landed(c), c.from = "gone")

\* handlePasswordChanged: the forced form calls it mounted or not.
PasswordChanged(c) ==
    /\ c.answer = "ok" /\ c.kind = "forced"
    /\ Show("authenticated", User(FALSE), Landed(c), c.from = "gone")

\* The panel's form closes the panel of its shell, reopened or not.
PanelChanged(c) ==
    /\ c.answer = "ok" /\ c.kind = "panel"
    /\ UNCHANGED <<state, user, stray>>
    /\ IF c.from = "gone" THEN calls' = Landed(c) /\ UNCHANGED <<busy, panel>>
       ELSE panel' = FALSE /\ busy' = FALSE /\ calls' = FormGone(Landed(c))

\* Mutant: a refused form stays busy.
RefusedStaysBusy(c) ==
    /\ c.answer = "refused"
    /\ calls' = Landed(c)
    /\ UNCHANGED <<state, user, busy, panel, stray>>

\* A form shows its error and can be sent again.
Refused(c) ==
    /\ c.answer = "refused"
    /\ calls' = Landed(c)
    /\ busy' = (busy /\ c.from # "form")
    /\ UNCHANGED <<state, user, panel, stray>>

Shown(c) ==
    /\ c.answer = "ok" /\ c.kind \in {"data", "logout"}
    /\ calls' = Landed(c)
    /\ UNCHANGED <<state, user, busy, panel, stray>>

Deliver(c) ==
    /\ c.stage = "done"
    /\ Cookie(c)
    /\ \/ Unauthorized(c) \/ Authenticated(c) \/ PasswordChanged(c)
       \/ PanelChanged(c) \/ Refused(c) \/ Shown(c)

\* The network fails: nothing came back, whatever the server did.
Fail(c) ==
    /\ IF c.kind = "me" THEN SignedOut(Landed(c))
       ELSE /\ calls' = Landed(c)
            /\ busy' = (busy /\ c.from # "form")
            /\ UNCHANGED <<state, user, panel, stray>>
    /\ UNCHANGED cookie

-------------------------------------------------------------------------------
Act == Login \/ ChangePassword \/ Data \/ Logout \/ OpenPanel \/ ClosePanel \/ Reload

Server(c) == Serve(c) \/ Verify(c) \/ CreateSession(c) \/ WritePassword(c)

\* Whatever is under way with the calls of a kind.
Progress(k) ==
    \E c \in calls : c.kind = k /\
       \/ Server(c) /\ UNCHANGED <<cookie, state, user, busy, panel, stray>>
       \/ Deliver(c) /\ UNCHANGED server

Next ==
    \/ Act /\ UNCHANGED server
    \/ \E k \in Kind : Progress(k)
    \/ \E c \in calls : Fail(c) /\ UNCHANGED server
    \/ \E s \in sessions : Expire(s) /\ UNCHANGED tab

-------------------------------------------------------------------------------
SignInTypeOK ==
    /\ \A s \in sessions : s.token \in 1 .. tokens /\ s.pw \in 1 .. Len(passwords)
    /\ cookie \in 0 .. tokens
    /\ state \in {"loading", "anonymous", "must-change", "authenticated"}
    /\ IF state \in {"must-change", "authenticated"}
       THEN user = User(state = "must-change") ELSE user = None
    /\ panel => state = "authenticated"
    /\ \A c \in calls : c.kind \in Kind /\ c.answer \in Answers

\* A live session was opened with the password the account has now, of an
\* account that may sign in: a reset, a change of password and a disabling end
\* the sessions before them.  The exception is a sign-in whose password was
\* verified before one of them and whose session was made after it.
SessionsEndWithTheirPassword ==
    \A s \in sessions : s.crossed \/ (s.pw = account[Me].pw /\ MayEnter)

\* The shell is not shown on a live session of an account that must change its
\* password, however resets, sign-ins and late answers follow each other, but
\* for a crossed session and for the answer of a form that was left.
ShellIsLocked ==
    state = "authenticated" /\ account[Me].must
       => stray \/ \A s \in sessions : s.token = cookie => s.crossed

\* A form that waits is usable again, or replaced, in the end.
FormsComeBack == busy ~> ~busy
===============================================================================
