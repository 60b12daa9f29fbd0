----------------------------- MODULE ToolGuard -----------------------------
(***************************************************************************)
(* A tool call of the agent on its way to its effect: the hooks of the     *)
(* loop (react_loop.go), the permission policy inside each tool (tools/    *)
(* shell.go, git.go, file.go), the approver's answer and what the loop     *)
(* remembers of it, and the hooks of the tool itself (hooks/).  Calls of   *)
(* several runs overlap: sessions and sub-agents share the tools and the   *)
(* loop's approvals.  Reading a file's contents, a command's output, the   *)
(* timeouts and what the hooks do afterwards are left out.                 *)
(***************************************************************************)
EXTENDS FiniteSets, Naturals, Policy

CONSTANTS
  Call,      \* calls that may overlap
  Request,   \* what may be called: records [tool, dir, words] as below
  MaxCalls   \* bound of the model: calls in all

VARIABLES
  mode,      \* the configured permission mode
  hooked,    \* is there a hook dispatcher? (the shipped command has none)
  approved,  \* the loop's "always" approvals
  calls,     \* calls begun
  call,      \* each call: where it is, its request, did the user agree to it?
  agreed,    \* history: the requests the user agreed to
  done       \* history: the requests that took effect

vars == <<mode, hooked, approved, calls, call, agreed, done>>

\* words: of a command its word groups; of a path what is known about it.
Tools == {"run_shell", "git", "read_file", "write_file", "apply_patch"}
Commands == {"run_shell", "git"}
Writes == {"write_file", "apply_patch"}
Idle == [at |-> "idle"]

Risk(r) ==
  IF r.tool \in Commands THEN AssessCommand(r.words)
  ELSE AssessPath(r.words, IF r.tool \in Writes THEN "write" ELSE "read")

Init ==
  /\ mode \in Modes
  /\ hooked \in BOOLEAN
  /\ approved = {} /\ calls = 0 /\ agreed = {} /\ done = {}
  /\ call = [c \in Call |-> Idle]

-----------------------------------------------------------------------------
(* Dispatch runs the hooks in turn: a hook may let the event pass, change  *)
(* it for the hooks after it, or end the dispatch by asking or blocking,   *)
(* as one that fails or answers something unknown does.  WithPolicyGuard   *)
(* puts the security hook first and a policy guard behind every hook; both *)
(* look at commands and writes.                                            *)

SecurityHook(r) == IF r.tool \in {"run_shell"} \cup Writes THEN Decide(mode, Risk(r)) ELSE "allow"

\* The changed event only matters to the guard: the tool keeps its own.
DispatchPasses(r) ==
  /\ SecurityHook(r) = "allow"
  /\ \E changed \in {r} \cup {q \in Request : q.tool = r.tool} : SecurityHook(changed) = "allow"

-----------------------------------------------------------------------------
At(c, at) == call[c].at = at
Goto(c, at) == call' = [call EXCEPT ![c] = IF at = "idle" THEN Idle ELSE [@ EXCEPT !.at = at]]
Refused(c) == Goto(c, "idle")

Begin(c) ==
  /\ At(c, "idle") /\ calls < MaxCalls
  /\ \E r \in Request :
       call' = [call EXCEPT ![c] = [at |-> IF hooked THEN "hook" ELSE "look", req |-> r]]
  /\ calls' = calls + 1
  /\ UNCHANGED <<mode, hooked, approved, agreed, done>>

\* beforeToolCall: a hook may rewrite the call, and the approver's word to a
\* hook's question only lets the call go on.
BeforeToolCall(c) ==
  /\ At(c, "hook")
  /\ \/ \E r \in Request : call' = [call EXCEPT ![c].req = r, ![c].at = "look"]
     \/ Refused(c)
  /\ UNCHANGED <<mode, hooked, approved, calls, agreed, done>>

\* Defective variant: an "always" is good for every use of the tool.
KeyOfTool(r) == r.tool

\* runShellTool.ApprovalKey and the tool's name
ApprovalKey(r) == <<r.tool, r.dir, r.words>>

\* executeWithApproval asks the tool for its key before it executes it.
Look(c) ==
  /\ At(c, "look")
  /\ LET r == call[c].req IN
       Goto(c, IF r.tool = "run_shell" /\ ApprovalKey(r) \in approved THEN "before" ELSE "policy")
  /\ UNCHANGED <<mode, hooked, approved, calls, agreed, done>>

\* What the policy says of a call inside its tool.
Decision(c) == Decide(mode, Risk(call[c].req))
Asked(c, tools) == At(c, "policy") /\ call[c].req.tool \in tools
Unchanged == UNCHANGED <<mode, hooked, approved, calls, agreed, done>>

\* runShellTool.Execute
EvaluateShell(c) ==
  /\ Asked(c, {"run_shell"})
  /\ \/ Refused(c)
     \/ Decision(c) = "allow" /\ Goto(c, "before")
     \/ Decision(c) = "request_approval" /\ Goto(c, "ask")
  /\ Unchanged

\* runGitCommand: its question reaches nobody, and no hook sees the command.
EvaluateGit(c) ==
  /\ Asked(c, {"git"})
  /\ Refused(c) \/ (Decision(c) = "allow" /\ Goto(c, "effect"))
  /\ Unchanged

\* resolveForRead, then the policy: only a block counts.
EvaluateRead(c) ==
  /\ Asked(c, {"read_file"})
  /\ \/ Refused(c)
     \/ /\ "inside" \in call[c].req.words /\ call[c].req.words \cap {"secret", "ignored"} = {}
        /\ Decision(c) # "block" /\ Goto(c, "effect")
  /\ Unchanged

\* write_file and apply_patch, whose text must be found exactly once
EvaluateWrite(c) ==
  /\ Asked(c, Writes)
  /\ \/ Refused(c)
     \/ "inside" \in call[c].req.words /\ Decision(c) # "block" /\ Goto(c, "before")
  /\ Unchanged

\* The approver denies, agrees this once, or always.
Approve(c) ==
  /\ At(c, "ask")
  /\ \/ Refused(c) /\ UNCHANGED <<approved, agreed>>
     \/ /\ approved' \in {approved, approved \cup {ApprovalKey(call[c].req)}}
        /\ agreed' = agreed \cup {call[c].req}
        /\ Goto(c, "before")
  /\ UNCHANGED <<mode, hooked, calls, done>>

\* beforeShellCommand, beforeFileWrite
BeforeEffect(c) ==
  /\ At(c, "before")
  /\ \/ (~hooked \/ DispatchPasses(call[c].req)) /\ Goto(c, "effect")
     \/ hooked /\ Refused(c)
  /\ UNCHANGED <<mode, hooked, approved, calls, agreed, done>>

\* The command runs, the file is read, or its new contents are renamed into
\* place: or that fails.
Effect(c) ==
  /\ At(c, "effect")
  /\ done' \in {done, done \cup {call[c].req}}
  /\ Goto(c, "idle")
  /\ UNCHANGED <<mode, hooked, approved, calls, agreed>>

Next ==
  \E c \in Call : \/ Begin(c) \/ BeforeToolCall(c) \/ Look(c)
                  \/ EvaluateShell(c) \/ EvaluateGit(c) \/ EvaluateRead(c) \/ EvaluateWrite(c)
                  \/ Approve(c) \/ BeforeEffect(c) \/ Effect(c)

Spec == Init /\ [][Next]_vars

-----------------------------------------------------------------------------
TypeOK ==
  /\ mode \in Modes /\ hooked \in BOOLEAN /\ calls \in 0..MaxCalls
  /\ approved \subseteq {ApprovalKey(r) : r \in Request}
  /\ \A c \in Call : /\ call[c].at \in {"idle", "hook", "look", "policy", "ask", "before", "effect"}
                     /\ call[c].at # "idle" => call[c].req \in Request
  /\ agreed \subseteq Request /\ done \subseteq Request

(* Each mode keeps its word for everything that takes place, whatever the  *)
(* hooks rewrote and however calls share the approvals that were given for *)
(* always: readonly only reads files and runs commands that only read;     *)
(* suggest and workspace-write run no risky command nobody agreed to;      *)
(* full-auto runs no destructive one; and no mode writes outside the       *)
(* workspace or reads a secret.                                            *)
ModeHonoured ==
  \A r \in done :
    LET words == r.words  command == r.tool \in Commands IN
    /\ mode = "readonly" => r.tool \notin Writes
    /\ command => "destroy" \notin words
    /\ command /\ mode = "readonly" =>
         words \cap {"delete", "system", "install", "network", "write"} = {}
    /\ command /\ mode \in {"suggest", "workspace-write"} /\ words \cap {"delete", "system"} # {} => r \in agreed
    /\ command /\ mode = "suggest" /\ words \cap {"install", "network", "write"} # {} => r \in agreed
    /\ ~command => "inside" \in words /\ (r.tool = "read_file" => "secret" \notin words)
=============================================================================
