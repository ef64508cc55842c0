------------------------- MODULE MCSubmissionStore -------------------------
(* SubmissionStore with small sets for TLC. *)
EXTENDS SubmissionStore, TLC

CONSTANTS w1, w2, k1

MCWorkers == {w1, w2}
MCKeys == {k1}

=============================================================================
