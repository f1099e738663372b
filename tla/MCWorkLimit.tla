---------------------------- MODULE MCWorkLimit ----------------------------
(* WorkLimit for TLC: a few transfers and jobs, limits at the boundary. *)
EXTENDS WorkLimit
=============================================================================
