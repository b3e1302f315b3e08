---------------------------- MODULE MCChangePlan ----------------------------
(* The approval lifecycle on a small instance. *)
EXTENDS ChangePlan

CONSTANTS w1, w2

MCWorld == {Quiet, w1, w2}
=============================================================================
