----------------------------- MODULE MCDbShards -----------------------------
(* Instances of DbShards for TLC: two queries for one loop, one for another. *)
EXTENDS DbShards, TLC

CONSTANTS a, b, j1, j2, j3

MCLoop == {a, b}
MCJob == {j1, j2, j3}
MCHome == (j1 :> a) @@ (j2 :> a) @@ (j3 :> b)
=============================================================================
