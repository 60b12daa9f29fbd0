--------------------------- MODULE MCNetworkTools ---------------------------
(***************************************************************************)
(* A small instance of NetworkTools: one call, a public and a loopback     *)
(* address, and a proxy that listens on the loopback address, as in the    *)
(* example of agent_server/README.md.                                      *)
(***************************************************************************)
EXTENDS NetworkTools
=============================================================================
