------------------------------- MODULE MCAccounts -------------------------------
(***************************************************************************)
(* A member with a login and one without.  While the tab has not had its     *)
(* first answer the panel runs two calls at a time, over both members; once  *)
(* the tab moves, it runs one at a time, about the login of the member that  *)
(* has one.                                                                *)
(***************************************************************************)
EXTENDS Accounts

CONSTANTS ana, ben

\* The tab as it was loaded, without a session.
Untouched ==
    /\ sessions = {} /\ cookie = S!NoCookie /\ ~account[Me].must
    /\ state = "loading" /\ tokens = 1 /\ \A c \in calls : c.stage = "sent"

\* Bound: these calls of the panel overlap no other.
Alone == \A o \in ops : o.kind \in {"remove", "add", "toggle"} => ops = {o}

\* Bound: one call at a time and one password, nobody edited, added or removed.
LoginsOnly ==
    /\ draft = None /\ Cardinality(ops) <= 1
    /\ Cardinality({n \in 1 .. Len(passwords) : passwords[n].by = "admin"}) <= 1
    /\ \A m \in Member : account[m] # None
    /\ \A o \in ops : o.kind \notin {"remove", "add"}

PhasedNext ==
    \/ SignInStep /\ LoginsOnly
    \/ MembersStep /\ (LoginsOnly' \/ (Untouched /\ Alone'))

PhasedSpec == Init /\ [][PhasedNext]_vars /\ Fairness
===============================================================================
