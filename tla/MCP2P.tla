------------------------------- MODULE MCP2P -------------------------------
(* Small instances of P2P for TLC.                                          *)
EXTENDS P2P

(* Peers run the same program and nothing tells them apart.  Used by the     *)
(* runs that check no liveness, with one socket.                            *)
Symmetry == Permutations(Peers)

(* Queue limits of one packet in either direction.                          *)
OneEachWay == {[in |-> 1, out |-> 1]}
NoLimits == {}
=============================================================================
