-------------------------------- MODULE MCTeams --------------------------------
(* Two teams, two members, a task, and requests that race in pairs.          *)
EXTENDS Teams, TLC

Symmetry == Permutations(Request) \cup Permutations(Team)
===============================================================================
