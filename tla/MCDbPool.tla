------------------------------ MODULE MCDbPool ------------------------------
(* DbPool for TLC: a few threads, jobs and connections. *)
EXTENDS DbPool, TLC

Symmetry == Permutations(User) \cup Permutations(Job) \cup Permutations(Client)
=============================================================================
