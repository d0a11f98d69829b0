-------------------------------- MODULE MCNotes --------------------------------
(* Two notes, two dates, and requests that race in threes.                  *)
EXTENDS Notes, TLC

Symmetry == Permutations(Request) \cup Permutations(Note) \cup Permutations(Date)
===============================================================================
