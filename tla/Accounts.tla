-------------------------------- MODULE Accounts --------------------------------
(***************************************************************************)
(* The accounts of the system in use: a member's tab, signing in and out and *)
(* changing the password, and the members panel of an admin's team page,     *)
(* enabling, resetting and disabling that member's login, over one server.   *)
(***************************************************************************)
EXTENDS Integers, FiniteSets, Sequences

CONSTANTS None, Member, Me, MaxCalls, MaxTokens, MaxChanges, MaxOps, MaxIssued, Editable, Emails

\* A member's account: the place of its password, 0 for none, and its profile.
Record == [pw : Nat, must : BOOLEAN, disabled : BOOLEAN, email : BOOLEAN, profile : Member]

ASSUME AccountAssumption ==
    /\ Me \in Member /\ None \notin Member \cup Record \cup Nat
    /\ Emails \subseteq BOOLEAN

VARIABLES account, sessions, passwords, tokens,
    cookie, state, user, busy, panel, calls, stray,
    roster, membersOpen, membersClosing, editingId, draft, enablingId, credReveal,
    memberBusy, ops

S == INSTANCE SignIn
M == INSTANCE Members

server == <<account, sessions, passwords, tokens>>
tab == <<cookie, state, user, busy, panel, calls, stray>>
members == <<roster, membersOpen, membersClosing, editingId, draft, enablingId,
             credReveal, memberBusy, ops>>
vars == <<server, tab, members>>

Login(m, must) == [pw |-> IF m = Me THEN 1 ELSE 0, must |-> must, disabled |-> FALSE,
                   email |-> m = Me, profile |-> m]

\* Me has a login, with a temporary password or not; the others have neither
\* login nor email.
Init ==
    /\ \E must \in BOOLEAN : account = [m \in Member |-> Login(m, m = Me /\ must)]
    /\ passwords = <<[of |-> Me, by |-> "seed"]>>
    /\ tokens = 1
    /\ sessions \in {{}, {[token |-> 1, pw |-> 1, crossed |-> FALSE]}}
    /\ S!Init /\ M!Init

SignInStep == S!Next /\ UNCHANGED members
MembersStep == M!Next /\ UNCHANGED <<tokens, tab>>

Next == SignInStep \/ MembersStep

Spec == Init /\ [][Next]_vars

\* A form's call is served and its answer arrives, or it fails; nobody owes
\* anything else.
Fairness == \A k \in S!Form : WF_vars(S!Progress(k) /\ UNCHANGED members)

FairSpec == Spec /\ Fairness

-------------------------------------------------------------------------------
\* Sessions, passwords, the screen and its user fit each other.
TypeOK == S!SignInTypeOK

\* See SignIn and Members.
SessionsEndWithTheirPassword == S!SessionsEndWithTheirPassword
ShellIsLocked == S!ShellIsLocked
FormsComeBack == S!FormsComeBack
EditsReachTheirMember == M!EditsReachTheirMember
RevealedPasswordStands == M!RevealedPasswordStands
===============================================================================
