---------------------------- MODULE MCTransport ----------------------------
(* Three rows at most, listed by their IDs in pages of up to two. *)
EXTENDS Transport

LOCAL INSTANCE SequencesExt

MCId == 1..3
MCOrder == [S \in SUBSET MCId |-> SetToSortSeq(S, <)]
MCValue == {"x", "y"}
MCRetryAfters == {0, 2, 4}

=============================================================================
