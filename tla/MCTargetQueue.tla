--------------------------- MODULE MCTargetQueue ---------------------------
(* One key: keys share nothing but the worker slots. *)
EXTENDS TargetQueue

CONSTANT k1

MCKey == {k1}
MCDebounces == {0, 2}
MCRetryDelays == {0, 1, 2}

=============================================================================
