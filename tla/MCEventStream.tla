--------------------------- MODULE MCEventStream ---------------------------
(***************************************************************************)
(* A small instance of EventStream: a ring of two events and channels of   *)
(* one, so that three events overrun all of them.                          *)
(***************************************************************************)
EXTENDS EventStream

CONSTANTS p1, p2, c1, c2
=============================================================================
