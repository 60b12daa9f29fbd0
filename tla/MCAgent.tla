------------------------------ MODULE MCAgent ------------------------------
(***************************************************************************)
(* Small instances of the agent's modules, checked in one run: part says   *)
(* which of them a behaviour is about, and the variables of the others     *)
(* keep one initial value.                                                 *)
(*   runtime  AgentRuntime: an agent that serves ACP, where two prompts    *)
(*            may meet in one session, the same with one prompt that calls *)
(*            tools, and a program with an approver and hooks that runs    *)
(*            one prompt                                                   *)
(*   guard    ToolGuard: two calls, which may overlap                      *)
(*   network  NetworkTools: one call, two redirects, two attempts          *)
(*   sharing  NetworkTools: two calls that share the kept connections,     *)
(*            one redirect, one attempt                                    *)
(*   model    ModelStream: two tool calls of two pieces, two attempts      *)
(*   pool     SubagentPool: three calls, one place, a queue of one         *)
(*   audit    AuditLog: six lines, one fills a file, three backups         *)
(*   files    FileTools: two calls, a plain and a secret hidden file       *)
(*   skills   Skills: a built-in and a writable source, one change by hand *)
(*   config   AgentConfig: layers that set, clear and spoil each field     *)
(***************************************************************************)
EXTENDS AgentRuntime, AgentTools, AgentServices, Integers, TLC

CONSTANTS s1, p1, p2, k1, plain, hidden

VARIABLE part

MCSetups ==
  {[acp |-> TRUE, approver |-> FALSE, hooks |-> FALSE, prompts |-> {p1, p2}, leaves |-> FALSE, deltas |-> 0, calls |-> 0],
   [acp |-> TRUE, approver |-> FALSE, hooks |-> FALSE, prompts |-> {p1}, leaves |-> TRUE, deltas |-> 1, calls |-> 2],
   [acp |-> FALSE, approver |-> TRUE, hooks |-> TRUE, prompts |-> {p1}, leaves |-> TRUE, deltas |-> 1, calls |-> 2]}
MCCalls == {[tool |-> "shell", key |-> k1], [tool |-> "odd", key |-> NoKey]}

\* What may be asked of the tools: commands by their word groups and
\* directories, paths by what is known of them.
Command(tool, dir, words) == [tool |-> tool, dir |-> dir, words |-> words]
MCRequests ==
  {Command("run_shell", 1, w) : w \in {{}, {"delete"}, {"destroy", "delete"}, {"install", "scoped", "write"}}}
  \cup {Command("run_shell", 2, {"delete"}), Command("git", 1, {"write"}),
        Command("read_file", 1, {"inside", "secret"}), Command("read_file", 1, {"inside"}),
        Command("write_file", 1, {}), Command("apply_patch", 1, {"inside"})}

\* What the last events of a tool call may carry.
MCShapes == {{}, {"whole"}, {"name", "call"}, {"name", "call", "whole"}, {"call", "whole"}}

\* Configuration files and environments, one deviation each.
Patch(set, servers) == [kind |-> "patch", set |-> set, servers |-> servers]
Nothing == Patch([f \in {} |-> Unset], [s \in {} |-> Unset])
Sets(f, value) == Patch(f :> value, [s \in {} |-> Unset])
Serves(f, value) == Patch([g \in {} |-> Unset], "fs" :> (f :> value))
MCLayer ==
  {[Nothing EXCEPT !.kind = "absent"], [Nothing EXCEPT !.kind = "broken"], Nothing,
   Serves("command", "c1"), Serves("args", "x"),
   Sets("api_key", "k1"), Sets("proxy", "p1"), Sets("proxy", ""), Sets("duckduckgo", "p2"),
   Sets("approval_mode", "suggest"), Sets("approval_mode", "ask"), Sets("paths", <<"a">>), Sets("paths", <<"b">>)}
With(e) ==
  [v \in {"OPENAI_API_KEY", "ICOO_AI_OPENAI_API_KEY", "ICOO_AI_API_KEY",
          "ICOO_AI_HTTP_PROXY", "ICOO_AI_SUBAGENTS_MAX_TOOL_ROUNDS"} |-> IF v \in DOMAIN e THEN e[v] ELSE Unset]
MCEnviron ==
  {With("OPENAI_API_KEY" :> "k2"), With("ICOO_AI_OPENAI_API_KEY" :> ""),
   With("ICOO_AI_OPENAI_API_KEY" :> "k3" @@ "ICOO_AI_API_KEY" :> "k4"),
   With("ICOO_AI_HTTP_PROXY" :> "p3" @@ "OPENAI_API_KEY" :> "k2")}
  \cup {With("ICOO_AI_SUBAGENTS_MAX_TOOL_ROUNDS" :> n @@ "OPENAI_API_KEY" :> "k2") : n \in {-1, 0, NoNumber}}
MCDefault ==
  [api_key |-> "", proxy |-> "", duckduckgo |-> "", agent_loop |-> "react",
   approval_mode |-> "workspace-write", rounds |-> 6, paths |-> <<>>]

MCText == {<<"a">>, <<"a", "a">>}
MCPriority == <<10, 20>>

-----------------------------------------------------------------------------
hostVars == <<part, vars>>

\* One initial value for what a behaviour is not about.
Fixed ==
  /\ part = "runtime" \/ setup = CHOOSE s \in Setups : TRUE
  /\ part \in {"guard", "skills"} \/ mode = "suggest"
  /\ part = "guard" \/ hooked = FALSE
  /\ part \in {"network", "sharing"} \/ (proxy = NoProxy /\ direct = {})
  /\ part = "files" \/ (name = [p \in Path |-> NoFile] /\ used = 0 /\ data = [n \in Inode |-> <<>>])
  /\ part = "skills" \/ disk = [p \in Skill!Place |-> "none"]
  /\ part = "config" \/
       /\ cfgFiles = [user |-> Nothing, project |-> Nothing, overrides |-> Nothing]
       /\ env = CHOOSE e \in Environ : TRUE

AgentInit ==
  /\ part \in {"runtime", "guard", "network", "sharing", "model", "pool", "audit", "files", "skills", "config"}
  /\ Fixed
  /\ Init /\ ToolsInit /\ ServicesInit
  /\ part = "sharing" => proxy \in {NoProxy, "127.0.0.1"}

Others == UNCHANGED <<hostVars, serviceVars>>

AgentNext ==
  \/ part = "runtime" /\ Next /\ UNCHANGED <<part, toolVars, serviceVars>>
  \/ part = "guard" /\ Guard!Next /\ Others /\ UNCHANGED <<netVars, fileVars, skillVars>>
  \/ /\ part \in {"network", "sharing"} /\ Network!Next
     /\ part = "network" => netCall'[2].at = "new"
     /\ part = "sharing" => \A c \in ToolCall : netCall'[c].hops <= 1 /\ netCall'[c].attempt = 1
     /\ Others /\ UNCHANGED <<mode, guardVars, fileVars, skillVars>>
  \/ part = "files" /\ Files!Next /\ Others /\ UNCHANGED <<mode, guardVars, netVars, skillVars>>
  \/ part = "skills" /\ Skill!Next /\ Others /\ UNCHANGED <<guardVars, netVars, fileVars>>
  \/ part = "model" /\ Model!Next /\ UNCHANGED <<hostVars, toolVars, poolVars, auditVars, configVars>>
  \/ part = "pool" /\ Pool!Next /\ UNCHANGED <<hostVars, toolVars, modelVars, auditVars, configVars>>
  \/ part = "audit" /\ Audit!Next /\ UNCHANGED <<hostVars, toolVars, modelVars, poolVars, configVars>>
  \/ part = "config" /\ Config!Next /\ UNCHANGED <<hostVars, toolVars, modelVars, poolVars, auditVars>>

AgentSpec == AgentInit /\ [][AgentNext]_<<hostVars, toolVars, serviceVars>> /\ Fairness

-----------------------------------------------------------------------------
\* The types of the part that runs.
Types ==
  /\ TypeOK
  /\ part = "guard" => Guard!TypeOK
  /\ part \in {"network", "sharing"} => Network!TypeOK
  /\ part = "files" => Files!TypeOK
  /\ part = "skills" => Skill!TypeOK
  /\ part = "model" => Model!TypeOK
  /\ part = "pool" => Pool!TypeOK
  /\ part = "audit" => Audit!TypeOK
  /\ part = "config" => Config!TypeOK
=============================================================================
