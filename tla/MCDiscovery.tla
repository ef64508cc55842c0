---------------------------- MODULE MCDiscovery ----------------------------
(* Discovery with small sets for TLC. *)
EXTENDS Discovery

CONSTANTS good, bad, self, b1

MCPeers == {good, bad, self}
MCUndialable == {self}
MCReliable == {good}
MCBootstrap == {b1}

=============================================================================
