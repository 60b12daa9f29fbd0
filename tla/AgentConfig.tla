---------------------------- MODULE AgentConfig ----------------------------
(***************************************************************************)
(* The agent's configuration (internal/config) and what app/wire.go makes  *)
(* of it: the defaults, the user's file, the project's file, the           *)
(* environment and the caller's overrides are applied in this order, each  *)
(* checked before the next; then the key, the proxies and the limits of    *)
(* the parts are taken from the result.  One field stands for all those of *)
(* its kind: texts that may be empty, words that may not, modes, counts,   *)
(* lists, and the MCP servers, which are merged one by one.                *)
(***************************************************************************)
EXTENDS Integers, Sequences, FiniteSetsExt

CONSTANTS
  Layer,    \* what a file or the overrides may be, see below
  Environ,  \* environments: functions from Variables to texts or Unset
  Server,   \* names of MCP servers
  Default,  \* Default(): the fields' values
  Unset,
  NoNumber  \* a text that is no number

VARIABLES
  files,      \* the user's file, the project's file and the overrides
  env,        \* the environment
  at,         \* "user", "project", "env", "overrides", "build", "built" or "failed"
  cfg,        \* the configuration so far
  used        \* what the parts were given

vars == <<files, env, at, cfg, used>>

\* A layer is absent, broken or a patch: the fields it sets, and for some
\* servers the fields of these.
Field == {"api_key", "proxy", "duckduckgo", "agent_loop", "approval_mode", "rounds", "paths"}
Variables == {"OPENAI_API_KEY", "ICOO_AI_OPENAI_API_KEY", "ICOO_AI_API_KEY",
              "ICOO_AI_HTTP_PROXY", "ICOO_AI_SUBAGENTS_MAX_TOOL_ROUNDS"}
NoServers == [s \in {} |-> Unset]

Init ==
  /\ files \in [user : Layer, project : Layer, overrides : {l \in Layer : l.kind = "patch"}]
  /\ env \in Environ
  /\ at = "user" /\ used = Unset
  /\ cfg = [set |-> Default, servers |-> NoServers]

-----------------------------------------------------------------------------
Over(new, old) == [f \in DOMAIN new \cup DOMAIN old |-> IF f \in DOMAIN new THEN new[f] ELSE old[f]]

\* Defective variant: a layer's servers take the place of those before it.
ServersReplaced(new, old) == IF new = NoServers THEN old ELSE new

\* MCPConfig.applyPatch: a server keeps the fields that are not set again.
MergeServers(new, old) ==
  [s \in DOMAIN new \cup DOMAIN old |->
     IF s \notin DOMAIN new THEN old[s]
     ELSE IF s \notin DOMAIN old THEN new[s] ELSE Over(new[s], old[s])]

Patched(config, patch) ==
  [set |-> Over(patch.set, config.set), servers |-> MergeServers(patch.servers, config.servers)]

Valid(config) ==
  /\ config.set.agent_loop # ""
  /\ config.set.approval_mode \in {"readonly", "suggest", "workspace-write", "full-auto"}
  /\ config.set.rounds >= 0

\* applyPatch: a configuration that is not valid ends the loading.
ApplyPatch(patch, next) ==
  /\ cfg' = Patched(cfg, patch)
  /\ at' = IF Valid(cfg') THEN next ELSE "failed"
  /\ UNCHANGED <<files, env, used>>

\* applyConfigFile: a file that cannot be read or parsed ends it too.
ApplyFile(layer, here, next) ==
  /\ at = here
  /\ \/ layer.kind = "absent" /\ at' = next /\ UNCHANGED <<files, env, cfg, used>>
     \/ layer.kind = "broken" /\ at' = "failed" /\ UNCHANGED <<files, env, cfg, used>>
     \/ layer.kind = "patch" /\ ApplyPatch(layer, next)

ApplyUser == ApplyFile(files.user, "user", "project")
ApplyProject == ApplyFile(files.project, "project", "env")

\* The key's variables in the order envPatch reads them: the last one stays.
KeyVariables == <<"ICOO_AI_API_KEY", "ICOO_AI_OPENAI_API_KEY">>

\* setString: a variable that is there counts, even an empty one.
SetString(e, names, field) ==
  LET there == {n \in DOMAIN names : e[names[n]] # Unset}
  IN  [f \in (IF there = {} THEN {} ELSE {field}) |-> e[names[Max(there)]]]

\* setInt: a text that is no number ends the loading.
Parses(name) == env[name] # NoNumber
SetInt(e, name, field) == [f \in (IF e[name] = Unset THEN {} ELSE {field}) |-> e[name]]

EnvPatch(e) ==
  [kind |-> "patch", servers |-> NoServers,
   set |-> Over(SetString(e, KeyVariables, "api_key"),
                Over(SetString(e, <<"ICOO_AI_HTTP_PROXY">>, "proxy"),
                     SetInt(e, "ICOO_AI_SUBAGENTS_MAX_TOOL_ROUNDS", "rounds")))]

ApplyEnv ==
  /\ at = "env"
  /\ \/ /\ Parses("ICOO_AI_SUBAGENTS_MAX_TOOL_ROUNDS")
        /\ ApplyPatch(EnvPatch(env), "overrides")
     \/ /\ ~Parses("ICOO_AI_SUBAGENTS_MAX_TOOL_ROUNDS")
        /\ at' = "failed" /\ UNCHANGED <<files, env, cfg, used>>

ApplyOverrides == at = "overrides" /\ ApplyPatch(files.overrides, "build")

-----------------------------------------------------------------------------
(* Build: what the parts of the agent are given.                           *)

\* The first that is there and not empty; "" when none is.
FirstNonEmpty(texts) ==
  LET good == {n \in DOMAIN texts : texts[n] \notin {Unset, ""}} IN IF good = {} THEN "" ELSE texts[Min(good)]

\* buildProvider's own look at the environment
APIKey == FirstNonEmpty(<<env["OPENAI_API_KEY"], env["ICOO_AI_OPENAI_API_KEY"],
                       env["ICOO_AI_API_KEY"], cfg.set.api_key>>)

\* proxyOverride
ProxyOf(override) == FirstNonEmpty(<<override, cfg.set.proxy>>)

\* subagentMaxToolRounds
Rounds == IF cfg.set.rounds > 0 THEN cfg.set.rounds ELSE 6

Build ==
  /\ at = "build"
  /\ IF APIKey = "" THEN at' = "failed" /\ UNCHANGED used
     ELSE /\ at' = "built"
          /\ used' = [key |-> APIKey, web_fetch |-> cfg.set.proxy, web_search |-> ProxyOf(cfg.set.duckduckgo),
                      rounds |-> Rounds]
  /\ UNCHANGED <<files, env, cfg>>

Next == ApplyUser \/ ApplyProject \/ ApplyEnv \/ ApplyOverrides \/ Build

Spec == Init /\ [][Next]_vars

-----------------------------------------------------------------------------
\* The sources in the order of their rank, the highest last.
Layers == <<files.user, files.project, EnvPatch(env), files.overrides>>
SetsField(n, f) == Layers[n].kind = "patch" /\ f \in DOMAIN Layers[n].set
SetsServer(n, s, f) ==
  /\ Layers[n].kind = "patch" /\ s \in DOMAIN Layers[n].servers
  /\ f \in DOMAIN Layers[n].servers[s]

TypeOK ==
  /\ at \in {"user", "project", "env", "overrides", "build", "built", "failed"}
  /\ DOMAIN cfg.set = Field /\ DOMAIN cfg.servers \subseteq Server
  /\ used = Unset \/ used.rounds > 0

(* What an agent that was built works with: each field, and each field of  *)
(* each MCP server, has the value of the highest source that sets it (the  *)
(* overrides, the environment, the project's file, the user's), none below *)
(* it shines through and a whole list is replaced; and the key is the      *)
(* first of OPENAI_API_KEY, ICOO_AI_OPENAI_API_KEY, ICOO_AI_API_KEY and    *)
(* the configuration's that is not empty.                                  *)
HighestSourceWins ==
  at = "built" =>
    /\ \A f \in Field :
         LET n == {m \in 1..4 : SetsField(m, f)}
         IN  cfg.set[f] = IF n = {} THEN Default[f] ELSE Layers[Max(n)].set[f]
    /\ \A s \in Server, f \in {"command", "args"} :
         LET n == {m \in 1..4 : SetsServer(m, s, f)}
             has == s \in DOMAIN cfg.servers /\ f \in DOMAIN cfg.servers[s]
         IN  /\ has <=> n # {}
             /\ has => cfg.servers[s][f] = Layers[Max(n)].servers[s][f]
    /\ LET keys == <<env["OPENAI_API_KEY"], env["ICOO_AI_OPENAI_API_KEY"], env["ICOO_AI_API_KEY"], cfg.set.api_key>>
       IN  \E n \in 1..4 : used.key = keys[n] /\ used.key # "" /\ \A k \in 1..(n - 1) : keys[k] \in {Unset, ""}
=============================================================================
