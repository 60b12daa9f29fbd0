------------------------------ MODULE MCSkills ------------------------------
(***************************************************************************)
(* A small instance of Skills: the built-in source and two writable ones,  *)
(* one skill's name and one change by hand, so that the name can move from *)
(* one writable directory to another.                                      *)
(***************************************************************************)
EXTENDS Skills

MCPriority == <<10, 20, 30>>
=============================================================================
