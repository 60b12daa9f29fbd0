------------------------------- MODULE Policy -------------------------------
(***************************************************************************)
(* The agent's permission policy (agent_server/internal/policy): the risk  *)
(* of a command, of a file operation and of a network access, and what     *)
(* each permission mode does with a risk.  Pure operators.  Nothing in the *)
(* agent asks for its risk of an MCP call, which is left out.              *)
(*                                                                         *)
(* The assessments look for words in a command, a path or a URL.  Here a   *)
(* command is the set of the word groups it contains, a path the set of    *)
(* what isSubpath and isSecretPath tell of it, and an address a member of  *)
(* Blocked or not.                                                         *)
(***************************************************************************)

Modes == {"readonly", "suggest", "workspace-write", "full-auto"}

\* The first group found decides.  "scoped" stands for the words that make an
\* installation local, "upload" for the options that send data.
AssessCommand(words) ==
  IF "destroy" \in words THEN "critical"
  ELSE IF words \cap {"delete", "system"} # {} THEN "high"
  ELSE IF "install" \in words THEN IF "scoped" \in words THEN "medium" ELSE "high"
  ELSE IF "network" \in words THEN IF "upload" \in words THEN "high" ELSE "medium"
  ELSE IF "write" \in words THEN "medium"
  ELSE "low"

\* The tools always know their workspace's root.
AssessPath(path, operation) ==
  CASE operation = "read" /\ "secret" \in path -> "critical"
    [] operation = "read" /\ "secret" \notin path -> IF "inside" \in path THEN "low" ELSE "medium"
    [] operation = "write" -> IF "inside" \in path THEN "medium" ELSE "critical"
    [] operation = "delete" -> IF "inside" \in path THEN "high" ELSE "critical"

\* A name that is blocked by itself, or one address of it that is.
AssessNetwork(named, addresses, blocked) ==
  IF named \/ addresses \cap blocked # {} THEN "critical" ELSE "low"

Decide(mode, risk) ==
  CASE risk = "low" -> "allow"
    [] risk = "critical" -> "block"
    [] risk \in {"medium", "high"} /\ mode = "readonly" -> "block"
    [] risk \in {"medium", "high"} /\ mode = "suggest" -> "request_approval"
    [] risk = "high" /\ mode = "workspace-write" -> "request_approval"
    [] OTHER -> "allow"
=============================================================================
