---------------------------- MODULE MCAcpManager ----------------------------
(***************************************************************************)
(* A small instance of AcpManager: one agent with two configurations, two  *)
(* callers and two processes.                                              *)
(***************************************************************************)
EXTENDS AcpManager

CONSTANTS a1, c1, c2, p1, p2, k1, k2

MCStored == [a \in {a1} |-> [present |-> TRUE, enabled |-> TRUE, key |-> k1]]
MCWritten == {NoRow, [present |-> TRUE, enabled |-> TRUE, key |-> k2],
              [present |-> TRUE, enabled |-> FALSE, key |-> k1]}
=============================================================================
