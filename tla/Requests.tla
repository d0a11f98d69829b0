-------------------------------- MODULE Requests --------------------------------
(***************************************************************************)
(* What the models of tables that concurrent requests share have in common: *)
(* the requests under way, the ids they have handed out, and what the       *)
(* client's last delete can be undone with.                                 *)
(***************************************************************************)
CONSTANTS
    Request,   \* concurrent HTTP requests
    None

VARIABLES
    used,      \* ids handed out so far (they are UUIDs)
    req,       \* [Request -> what is under way or None]
    undo       \* what the last delete's response gives back, or None

Does(r, op) == req[r] # None /\ req[r].op = op

Begin(r, q) == req[r] = None /\ req' = [req EXCEPT ![r] = q]
End(r) == req' = [req EXCEPT ![r] = None]
===============================================================================
