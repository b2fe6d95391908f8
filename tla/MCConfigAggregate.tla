------------------------- MODULE MCConfigAggregate --------------------------
(* Instances of ConfigAggregate for TLC. *)
EXTENDS ConfigAggregate, TLC

CONSTANTS d1, d2, web, quic

MCDeploys == {d1, d2}
MCPorts == {web, quic}
MCForwards == [d \in MCDeploys |-> {<<web, "tcp">>, <<quic, "udp">>}]

Symmetry == Permutations(MCDeploys)
=============================================================================
