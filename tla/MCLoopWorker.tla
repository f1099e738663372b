---------------------------- MODULE MCLoopWorker ----------------------------
(* LoopWorker for TLC: two posters, a few tasks, two generations. *)
EXTENDS LoopWorker, TLC
=============================================================================
