---------------------------- MODULE MCMcpManager ----------------------------
(***************************************************************************)
(* A small instance of McpManager: one server that is enabled at first.    *)
(***************************************************************************)
EXTENDS McpManager

CONSTANTS s1, c1, c2, c3, k1, k2, k3

MCStored == [s \in {s1} |-> [present |-> TRUE, enabled |-> TRUE, sound |-> TRUE]]
=============================================================================
