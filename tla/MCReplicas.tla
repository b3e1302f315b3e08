---------------------------- MODULE MCReplicas ----------------------------
(* Two replicas and two targets, one of which is audited less often than the
   loop wakes up. *)
EXTENDS Replicas

CONSTANTS t1, t2

MCTarget == {t1, t2}
MCInterval == [t \in MCTarget |-> IF t = t1 THEN 0 ELSE 2]
===========================================================================
