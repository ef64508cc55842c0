--------------------------- MODULE MCConnections ---------------------------
(* Connections with a small set for TLC. *)
EXTENDS Connections, TLC

CONSTANTS c1, c2, c3

MCConns == {c1, c2, c3}

MCSymmetry == Permutations(MCConns)

=============================================================================
