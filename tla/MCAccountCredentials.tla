------------------------ MODULE MCAccountCredentials ------------------------
(* Instances of AccountCredentials small enough for TLC. *)
EXTENDS AccountCredentials, TLC

CONSTANTS alice, old, new, h1, h2

\* Handlers are interchangeable.
TaskSymmetry == Permutations(Tasks)
=============================================================================
