--------------------------------- MODULE Members ---------------------------------
(***************************************************************************)
(* ui/src/views/TeamPage.tsx: the members panel of an admin's team page, and *)
(* what the server does with its calls (internal/service/members.go,         *)
(* auth.go).  The panel keeps one edit, one enable form, one revealed        *)
(* password and one busy member for all of its rows, and nothing waits for   *)
(* an earlier call.  The server writes a member's profile, and disables it,  *)
(* under a lock on the row; a new password is made after an unlocked read.   *)
(***************************************************************************)
EXTENDS Integers, FiniteSets, Sequences

CONSTANTS None, Member, Me, MaxOps, MaxIssued,
          Editable, \* the members whose profile a run edits, adds or removes
          Emails    \* whether an edit leaves an email, of those a run tries

VARIABLES
    account, sessions, passwords, \* as in SignIn
    roster,      \* the board's members: member -> None or [login, disabled, email]
    membersOpen, membersClosing, \* the panel is mounted; its closing timer runs
    editingId, draft,  \* the row being edited, and whose profile the fields hold
    enablingId,  \* the row with the enable-login form
    credReveal,  \* the password shown: None or [memberId, password, alone]
    memberBusy,  \* the one row whose buttons are disabled
    ops          \* the calls of the panel under way

Credential == {"enable", "reset"}
OpKind == Credential \cup {"toggle", "edit", "remove", "add", "board"}

\* arg: the profile an edit carries and its email, or the disabled flag.
\* alone: no other password was being made for the member meanwhile.
Op(k, m, arg) == [kind |-> k, member |-> m, arg |-> arg, stage |-> "sent",
                  ok |-> FALSE, password |-> 0, alone |-> TRUE]

Entry(m) == IF account[m] = None THEN None
            ELSE [login |-> account[m].pw # 0, disabled |-> account[m].disabled,
                  email |-> account[m].email]
Board == [m \in Member |-> Entry(m)]

Init ==
    /\ roster = Board
    /\ membersOpen = FALSE /\ membersClosing = FALSE
    /\ editingId = None /\ draft = None /\ enablingId = None
    /\ credReveal = None /\ memberBusy = None /\ ops = {}

-------------------------------------------------------------------------------
\* The bounds: calls under way, and passwords an admin makes.
MaySend == Cardinality(ops) < MaxOps
MayIssue ==
    Cardinality({n \in 1 .. Len(passwords) : passwords[n].by = "admin"})
        + Cardinality({o \in ops : o.kind \in Credential /\ o.stage # "done"}) < MaxIssued

Send(o) == MaySend /\ ops' = ops \cup {o}

\* Two passwords being made for one member: neither is made alone.
Overlapping(o) == {p \in ops : p.kind \in Credential /\ p.member = o.member}
SendCredential(o) ==
    /\ MaySend /\ MayIssue
    /\ ops' = (ops \ Overlapping(o)) \cup {[p EXCEPT !.alone = FALSE] : p \in Overlapping(o)}
              \cup {[o EXCEPT !.alone = Overlapping(o) = {}]}

\* What a row of the panel offers.
Row(m) == membersOpen /\ roster[m] # None /\ editingId # m
isRevealing(m) == credReveal # None /\ credReveal.memberId = m
Enabling(m) == Row(m) /\ ~isRevealing(m) /\ enablingId = m /\ memberBusy # m
CredActions(m) == Row(m) /\ ~isRevealing(m) /\ enablingId # m
LoginActions(m) == CredActions(m) /\ roster[m].login /\ memberBusy # m

openMembers ==
    /\ membersOpen' = TRUE /\ membersClosing' = FALSE
    /\ UNCHANGED <<roster, editingId, draft, enablingId, credReveal, memberBusy, ops>>

requestCloseMembers ==
    /\ membersOpen /\ ~membersClosing
    /\ membersClosing' = TRUE
    /\ UNCHANGED <<roster, membersOpen, editingId, draft, enablingId, credReveal, memberBusy, ops>>

closeTimer ==
    /\ membersClosing
    /\ membersOpen' = FALSE /\ membersClosing' = FALSE
    /\ UNCHANGED <<roster, editingId, draft, enablingId, credReveal, memberBusy, ops>>

\* Mutant: the fields keep what was typed for the row edited before.
startEditKeepsFields(m) ==
    /\ Row(m) /\ m \in Editable
    /\ editingId' = m /\ draft' = IF draft = None THEN m ELSE draft
    /\ UNCHANGED <<roster, membersOpen, membersClosing, enablingId, credReveal, memberBusy, ops>>

startEdit(m) ==
    /\ Row(m) /\ m \in Editable
    /\ editingId' = m /\ draft' = m
    /\ UNCHANGED <<roster, membersOpen, membersClosing, enablingId, credReveal, memberBusy, ops>>

cancelEdit ==
    /\ membersOpen /\ editingId # None
    /\ editingId' = None
    /\ UNCHANGED <<roster, membersOpen, membersClosing, draft, enablingId, credReveal, memberBusy, ops>>

\* The email may have been typed or cleared; the row stays open meanwhile.
saveEdit ==
    /\ membersOpen /\ editingId # None /\ roster[editingId] # None
    /\ \E email \in Emails :
          Send(Op("edit", editingId, [profile |-> draft, email |-> email]))
    /\ UNCHANGED <<roster, membersOpen, membersClosing, editingId, draft, enablingId, credReveal, memberBusy>>

removeMember(m) ==
    /\ Row(m) /\ m \in Editable
    /\ Send(Op("remove", m, None))
    /\ UNCHANGED <<roster, membersOpen, membersClosing, editingId, draft, enablingId, credReveal, memberBusy>>

startEnableLogin(m) ==
    /\ CredActions(m) /\ ~roster[m].login /\ roster[m].email
    /\ credReveal' = None /\ enablingId' = m
    /\ UNCHANGED <<roster, membersOpen, membersClosing, editingId, draft, memberBusy, ops>>

cancelEnableLogin ==
    /\ enablingId # None /\ Enabling(enablingId)
    /\ enablingId' = None
    /\ UNCHANGED <<roster, membersOpen, membersClosing, editingId, draft, credReveal, memberBusy, ops>>

confirmEnableLogin(m) ==
    /\ Enabling(m) /\ roster[m].email
    /\ SendCredential(Op("enable", m, None))
    /\ memberBusy' = m
    /\ UNCHANGED <<roster, membersOpen, membersClosing, editingId, draft, enablingId, credReveal>>

handleResetPassword(m) ==
    /\ LoginActions(m)
    /\ SendCredential(Op("reset", m, None))
    /\ credReveal' = None /\ memberBusy' = m
    /\ UNCHANGED <<roster, membersOpen, membersClosing, editingId, draft, enablingId>>

handleToggleDisabled(m) ==
    /\ LoginActions(m)
    /\ Send(Op("toggle", m, ~roster[m].disabled))
    /\ memberBusy' = m
    /\ UNCHANGED <<roster, membersOpen, membersClosing, editingId, draft, enablingId, credReveal>>

revealDone ==
    /\ credReveal # None /\ Row(credReveal.memberId)
    /\ credReveal' = None
    /\ UNCHANGED <<roster, membersOpen, membersClosing, editingId, draft, enablingId, memberBusy, ops>>

\* Adding a member, or renaming the team: no account followed here changes.
submitAddMember ==
    /\ membersOpen /\ Editable # {}
    /\ Send(Op("add", None, None))
    /\ UNCHANGED <<roster, membersOpen, membersClosing, editingId, draft, enablingId, credReveal, memberBusy>>

-------------------------------------------------------------------------------
\* The server.
Put(o, p) == ops' = (ops \ {o}) \cup {p}
Done(o, ok, password) == [o EXCEPT !.stage = "done", !.ok = ok, !.password = password]
Exists(m) == account[m] # None

Refuse(o) == Put(o, Done(o, FALSE, 0)) /\ UNCHANGED <<account, sessions, passwords>>

\* EnableLogin and ResetPassword look at the member in a statement of its own.
ReadMember(o) ==
    /\ o.stage = "sent" /\ o.kind \in Credential
    /\ IF Exists(o.member) /\ (IF o.kind = "reset" THEN account[o.member].pw # 0
                               ELSE account[o.member].pw = 0 /\ account[o.member].email)
       THEN Put(o, [o EXCEPT !.stage = "read"]) /\ UNCHANGED <<account, sessions, passwords>>
       ELSE Refuse(o)

EndSessions(m) == sessions' = IF m = Me THEN {} ELSE sessions

\* Mutant: a reset leaves the sessions of the member alone.
ResetKeepsSessions(o) ==
    /\ o.stage = "read"
    /\ passwords' = Append(passwords, [of |-> o.member, by |-> "admin"])
    /\ account' = IF ~Exists(o.member) THEN account
                  ELSE [account EXCEPT ![o.member].pw = Len(passwords'),
                                       ![o.member].must = TRUE,
                                       ![o.member].disabled = @ /\ o.kind = "reset"]
    /\ UNCHANGED sessions
    /\ Put(o, Done(o, TRUE, Len(passwords')))

\* The new hash and must_change_password; enabling also enables the account,
\* a reset also ends its sessions.  A member gone meanwhile is no error.
IssuePassword(o) ==
    /\ o.stage = "read"
    /\ passwords' = Append(passwords, [of |-> o.member, by |-> "admin"])
    /\ account' = IF ~Exists(o.member) THEN account
                  ELSE [account EXCEPT ![o.member].pw = Len(passwords'),
                                       ![o.member].must = TRUE,
                                       ![o.member].disabled = @ /\ o.kind = "reset"]
    /\ IF o.kind = "reset" THEN EndSessions(o.member) ELSE UNCHANGED sessions
    /\ Put(o, Done(o, TRUE, Len(passwords')))

\* PatchMember: disabling an enabled member ends its sessions.
PatchMember(o) ==
    /\ o.stage = "sent" /\ o.kind \in {"edit", "toggle"}
    /\ IF ~Exists(o.member) THEN Refuse(o)
       ELSE /\ IF o.kind = "edit"
               THEN /\ account' = [account EXCEPT ![o.member].profile = o.arg.profile,
                                                  ![o.member].email = o.arg.email]
                    /\ UNCHANGED sessions
               ELSE /\ account' = [account EXCEPT ![o.member].disabled = o.arg]
                    /\ IF o.arg /\ ~account[o.member].disabled THEN EndSessions(o.member)
                       ELSE UNCHANGED sessions
            /\ UNCHANGED passwords
            /\ Put(o, Done(o, TRUE, 0))

\* DeleteMember refuses a member that can sign in.
DeleteMember(o) ==
    /\ o.stage = "sent" /\ o.kind = "remove"
    /\ IF ~Exists(o.member) \/ account[o.member].pw # 0 THEN Refuse(o)
       ELSE /\ account' = [account EXCEPT ![o.member] = None]
            /\ UNCHANGED <<sessions, passwords>>
            /\ Put(o, Done(o, TRUE, 0))

\* CreateMember: a new member, which is none of those the model follows.
CreateMember(o) ==
    /\ o.stage = "sent" /\ o.kind = "add"
    /\ Put(o, Done(o, TRUE, 0))
    /\ UNCHANGED <<account, sessions, passwords>>

\* The board's read; it is answered with what it read.
ReadBoard(o) ==
    /\ o.stage = "sent" /\ o.kind = "board"
    /\ Put(o, [Done(o, TRUE, 0) EXCEPT !.arg = Board])
    /\ UNCHANGED <<account, sessions, passwords>>

-------------------------------------------------------------------------------
\* What the panel does with an answer.
Landed(o) == ops \ {o}
AndReload(o) == ops' = Landed(o) \cup {Op("board", None, None)}

\* Mutant: the password is shown on the row whose form is open by then.
RevealsOnOpenForm(o) ==
    /\ o.kind \in Credential /\ o.ok
    /\ credReveal' = [memberId |-> IF enablingId = None THEN o.member ELSE enablingId,
                      password |-> o.password, alone |-> o.alone]
    /\ memberBusy' = None
    /\ IF o.kind = "enable" THEN enablingId' = None /\ AndReload(o)
       ELSE ops' = Landed(o) /\ UNCHANGED enablingId
    /\ UNCHANGED <<roster, editingId>>

Reveal(o) ==
    /\ o.kind \in Credential /\ o.ok
    /\ credReveal' = [memberId |-> o.member, password |-> o.password, alone |-> o.alone]
    /\ memberBusy' = None
    /\ IF o.kind = "enable" THEN enablingId' = None /\ AndReload(o)
       ELSE ops' = Landed(o) /\ UNCHANGED enablingId
    /\ UNCHANGED <<roster, editingId>>

\* A saved edit closes whichever row is edited by then.
Saved(o) ==
    /\ o.kind \in {"edit", "remove", "add", "toggle"} /\ o.ok
    /\ AndReload(o)
    /\ editingId' = IF o.kind = "edit" \/ (o.kind = "remove" /\ editingId = o.member)
                    THEN None ELSE editingId
    /\ memberBusy' = IF o.kind = "toggle" THEN None ELSE memberBusy
    /\ UNCHANGED <<roster, enablingId, credReveal>>

Loaded(o) ==
    /\ o.kind = "board" /\ o.ok
    /\ roster' = o.arg
    /\ ops' = Landed(o)
    /\ UNCHANGED <<editingId, enablingId, credReveal, memberBusy>>

\* Refused, or no answer: an error is shown, and a row is no longer busy.
Failed(o) ==
    /\ ops' = Landed(o)
    /\ memberBusy' = IF o.kind \in Credential \cup {"toggle"} THEN None ELSE memberBusy
    /\ UNCHANGED <<roster, editingId, enablingId, credReveal>>

Deliver(o) ==
    /\ o.stage = "done"
    /\ Reveal(o) \/ Saved(o) \/ Loaded(o) \/ (~o.ok /\ Failed(o))
    /\ UNCHANGED <<account, sessions, passwords, membersOpen, membersClosing, draft>>

Fail(o) ==
    /\ Failed(o)
    /\ UNCHANGED <<account, sessions, passwords, membersOpen, membersClosing, draft>>

-------------------------------------------------------------------------------
Act ==
    \/ openMembers \/ requestCloseMembers \/ closeTimer
    \/ \E m \in Member : \/ startEdit(m) \/ removeMember(m) \/ startEnableLogin(m)
                         \/ confirmEnableLogin(m) \/ handleResetPassword(m)
                         \/ handleToggleDisabled(m)
    \/ cancelEdit \/ saveEdit \/ cancelEnableLogin \/ revealDone \/ submitAddMember

Server(o) == ReadMember(o) \/ IssuePassword(o) \/ PatchMember(o) \/ DeleteMember(o)
             \/ CreateMember(o) \/ ReadBoard(o)

Progress ==
    \E o \in ops :
       \/ Server(o) /\ UNCHANGED <<roster, membersOpen, membersClosing, editingId, draft,
                                   enablingId, credReveal, memberBusy>>
       \/ Deliver(o)

Next ==
    \/ Act /\ UNCHANGED <<account, sessions, passwords>>
    \/ Progress
    \/ \E o \in ops : Fail(o)

-------------------------------------------------------------------------------
\* What is saved for a member was started from that member's row, whichever
\* rows were opened, cancelled, saved and closed by answers meanwhile.
EditsReachTheirMember ==
    \A m \in Member : Exists(m) => account[m].profile = m

\* The password shown under a member was made for that member, and it is the
\* one the member has, unless the member chose another since or a second one
\* was being made for the member at the same time.
RevealedPasswordStands ==
    credReveal # None =>
       LET m == credReveal.memberId IN
       /\ passwords[credReveal.password].of = m
       /\ \/ ~credReveal.alone \/ ~Exists(m)
          \/ account[m].pw = credReveal.password
          \/ passwords[account[m].pw].by = "member"
===============================================================================
