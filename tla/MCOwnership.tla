---------------------------- MODULE MCOwnership ----------------------------
(* The ownership protocol on a small instance. *)
EXTENDS Ownership

CONSTANTS c1, c2, fp1, fp2

MCProcess == {c1, c2}
MCCid == [p \in MCProcess |-> p]
MCId == 1..2
MCFp == {fp1, fp2}
============================================================================
