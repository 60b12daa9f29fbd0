------------------------------ MODULE Skills ------------------------------
(***************************************************************************)
(* The agent's skills: directories with a SKILL.md under several sources   *)
(* of rising priority (agent_server/internal/skills), and the tools that   *)
(* list, load, run, add and delete them (internal/skilltools), called      *)
(* through the loop's approvals (react_loop.go).  Tools, and whoever edits *)
(* the directories by hand, overlap freely.  The text of a skill, its      *)
(* resources and the sub-agent's run are left out.                         *)
(***************************************************************************)
EXTENDS FiniteSets, Naturals, Policy

CONSTANTS
  Call,       \* the calls there ever are; any of them may overlap
  Sources,    \* how many sources, 1..Sources, in the order they are read
  Builtin,    \* the one that ships with the product
  Priority,   \* each source's priority
  Name,       \* names of skills; an added skill's directory bears its name
  MaxEdits    \* bound of the model: changes by hand

VARIABLES
  mode,       \* the configured permission mode
  disk,       \* each directory's state
  approved,   \* the directories whose deletion the user agreed to "always"
  call,       \* each call
  edits,      \* changes by hand so far
  agreed,     \* history: the directories whose deletion the user agreed to
  added, removed   \* history: the directories skill_add and skill_delete changed

vars == <<mode, disk, approved, call, edits, agreed, added, removed>>

Source == 1..Sources
Place == Source \X Name

\* No directory; one without SKILL.md; one whose SKILL.md cannot be parsed;
\* or the name its SKILL.md declares.
Disk == {"none", "bare", "torn"} \cup Name
New == [at |-> "new"]
Over == [at |-> "over"]
Ops == {"list", "get", "delete"}

Init ==
  /\ mode \in Modes
  /\ disk \in [Place -> {"none"} \cup Name]
  /\ approved = {} /\ agreed = {} /\ added = {} /\ removed = {} /\ edits = 0
  /\ call = [c \in Call |-> New]

At(c, at) == call[c].at = at
Goto(c, at) == call' = [call EXCEPT ![c].at = at]
End(c) == call' = [call EXCEPT ![c] = Over]
Keep == UNCHANGED <<mode, edits>>
Watched == UNCHANGED <<approved, agreed, added, removed>>

-----------------------------------------------------------------------------
(* Discover reads one source after another: the directories that have a    *)
(* SKILL.md, then each of these.  One that cannot be read ends it.         *)

Search(record, step) ==
  [at |-> "list", op |-> record.op, name |-> record.name, step |-> step, asked |-> record.asked,
   key |-> record.key, source |-> 1, left |-> {}, found |-> {}]

Begin(c) ==
  /\ At(c, "new")
  /\ \E op \in Ops, n \in Name :
       call' = [call EXCEPT ![c] = Search([op |-> op, name |-> n, asked |-> {}, key |-> {}],
                                          IF op = "delete" THEN "key" ELSE "run")]
  /\ Keep /\ Watched /\ UNCHANGED disk

\* sourceCandidates
ListSource(c) ==
  /\ At(c, "list") /\ call[c].source <= Sources
  /\ LET there == {p \in {call[c].source} \X Name : disk[p] \in {"torn"} \cup Name} IN
       call' = [call EXCEPT ![c].left = there, ![c].at = "read"]
  /\ Keep /\ Watched /\ UNCHANGED disk

\* A failed search: a key that cannot be told is no key.
Lost(c) ==
  call' = [call EXCEPT ![c] = CASE @.step = "key" -> Search(@, "execute")
                                [] @.step = "rekey" -> [@ EXCEPT !.at = "ask"]
                                [] OTHER -> Over]

\* readSkill, then the name's place among those found: a higher priority wins,
\* an equal one is a conflict.
Named(c, n) == {f \in call[c].found : f.name = n}
Rank(place) == Priority[place[1]]

ReadSkill(c) ==
  /\ At(c, "read")
  /\ \/ /\ call[c].left = {}
        /\ call' = [call EXCEPT ![c].source = @ + 1, ![c].at = "list"]
     \/ \E p \in call[c].left :
          LET same == Named(c, disk[p])
              better == \E f \in same : Rank(f.place) > Rank(p)
          IN  IF disk[p] \notin Name \/ \E f \in same : Rank(f.place) = Rank(p)
              THEN Lost(c)
              ELSE call' = [call EXCEPT ![c].left = @ \ {p},
                     ![c].found = IF better THEN @ ELSE (@ \ same) \cup {[name |-> disk[p], place |-> p]}]
  /\ Keep /\ Watched /\ UNCHANGED disk

Found(c) == {f.place : f \in Named(c, call[c].name)}
Discovered(c) == At(c, "list") /\ call[c].source > Sources

\* skill_list returns what was found; skill_get and skill_execute look the
\* name up and read its directory again.
Load(c) ==
  /\ Discovered(c) /\ call[c].op \in {"list", "get"}
  /\ End(c) /\ Keep /\ Watched /\ UNCHANGED disk

-----------------------------------------------------------------------------
(* skill_delete.  executeWithApproval asks it for its key, executes it,    *)
(* asks again for the key, asks the user, and executes it once more: each  *)
(* of the four looks the name up afresh.                                   *)

\* Defective variant: every root is taken for a writable one.
EveryRoot(place) == TRUE

\* writableRootForPath
WritableRoot(place) == place[1] # Builtin

\* resolveDeleteTarget
HasFile(place) == disk[place] \in {"torn"} \cup Name
Target(c) == {p \in Found(c) : WritableRoot(p) /\ HasFile(p)}

ApprovalKey(c) ==
  /\ Discovered(c) /\ call[c].op = "delete" /\ call[c].step = "key"
  /\ LET step == IF Target(c) # {} /\ Target(c) \subseteq approved THEN "approved" ELSE "execute" IN
       call' = [call EXCEPT ![c] = Search(@, step)]
  /\ Keep /\ Watched /\ UNCHANGED disk

DeleteRisk == Decide(mode, AssessPath({"inside"}, "delete"))

Let(c) == DeleteRisk = "allow" \/ (DeleteRisk = "request_approval" /\ call[c].step = "approved")

Execute(c) ==
  /\ Discovered(c) /\ call[c].op = "delete" /\ call[c].step \in {"execute", "approved"}
  /\ IF Target(c) = {} \/ DeleteRisk = "block" THEN End(c)
     ELSE IF Let(c)
     THEN \E p \in Target(c) : call' = [call EXCEPT ![c] = [at |-> "remove", op |-> "delete", target |-> p]]
     ELSE call' = [call EXCEPT ![c] = Search([@ EXCEPT !.asked = Target(c)], "rekey")]
  /\ Keep /\ Watched /\ UNCHANGED disk

Rekey(c) ==
  /\ Discovered(c) /\ call[c].op = "delete" /\ call[c].step = "rekey"
  /\ call' = [call EXCEPT ![c].at = "ask", ![c].key = Target(c)]
  /\ Keep /\ Watched /\ UNCHANGED disk

\* The user is shown the directory that Execute found.
Approve(c) ==
  /\ At(c, "ask")
  /\ \/ End(c) /\ UNCHANGED <<approved, agreed>>
     \/ /\ approved' \in {approved, approved \cup call[c].key}
        /\ agreed' = agreed \cup call[c].asked
        /\ call' = [call EXCEPT ![c] = Search(@, "approved")]
  /\ Keep /\ UNCHANGED <<disk, added, removed>>

\* os.RemoveAll: the SKILL.md, then the directory; either may fail.
Remove(c) ==
  /\ At(c, "remove")
  /\ LET p == call[c].target IN
       \/ /\ disk[p] \in {"torn"} \cup Name
          /\ disk' = [disk EXCEPT ![p] = "bare"] /\ removed' = removed \cup {p} /\ UNCHANGED call
       \/ disk[p] = "bare" /\ disk' = [disk EXCEPT ![p] = "none"] /\ End(c) /\ UNCHANGED removed
       \/ End(c) /\ UNCHANGED <<disk, removed>>
  /\ Keep /\ UNCHANGED <<approved, agreed, added>>

-----------------------------------------------------------------------------
(* skill_add: policy, the check that the directory is new, the directory,  *)
(* the file (which is empty before it is written), and a first load.       *)

\* writableRoot takes the scope's last source; built-in is no scope.
BeginAdd(c) ==
  /\ At(c, "new")
  /\ \E s \in Source \ {Builtin}, n \in Name :
       LET p == <<s, n>> IN
         IF Decide(mode, AssessPath({"inside"}, "write")) = "allow" /\ disk[p] = "none"
         THEN call' = [call EXCEPT ![c] = [at |-> "mkdir", op |-> "add", target |-> p]]
         ELSE End(c)
  /\ Keep /\ Watched /\ UNCHANGED disk

Put(c, state) == disk' = [disk EXCEPT ![call[c].target] = state]

Make(c) ==
  /\ At(c, "mkdir")
  /\ \/ End(c) /\ UNCHANGED <<disk, added>>
     \/ /\ IF disk[call[c].target] = "none" THEN Put(c, "bare") ELSE UNCHANGED disk
        /\ added' = added \cup {call[c].target}
        /\ Goto(c, "create")
  /\ Keep /\ UNCHANGED <<approved, agreed, removed>>

Create(c) ==
  /\ At(c, "create")
  /\ \/ End(c) /\ UNCHANGED disk
     \/ disk[call[c].target] # "none" /\ Put(c, "torn") /\ Goto(c, "write")
  /\ Keep /\ Watched

\* An open file that was deleted meanwhile takes the text all the same.
Write(c) ==
  /\ At(c, "write")
  /\ \/ End(c) /\ UNCHANGED disk
     \/ /\ IF disk[call[c].target] \in {"torn"} \cup Name
           THEN Put(c, call[c].target[2]) ELSE UNCHANGED disk
        /\ Goto(c, "load")
  /\ Keep /\ Watched

FirstLoad(c) == At(c, "load") /\ End(c) /\ Keep /\ Watched /\ UNCHANGED disk

\* Somebody removes a directory, or puts one there under any declared name.
Edit ==
  /\ edits < MaxEdits
  /\ \E p \in Place, state \in {"none"} \cup Name :
       p[1] # Builtin /\ disk[p] # state /\ disk' = [disk EXCEPT ![p] = state]
  /\ edits' = edits + 1
  /\ Watched /\ UNCHANGED <<mode, call>>

Next ==
  \/ \E c \in Call :
       \/ Begin(c) \/ ListSource(c) \/ ReadSkill(c) \/ Load(c) \/ ApprovalKey(c)
       \/ Execute(c) \/ Rekey(c) \/ Approve(c) \/ Remove(c)
       \/ BeginAdd(c) \/ Make(c) \/ Create(c) \/ Write(c) \/ FirstLoad(c)
  \/ Edit

Spec == Init /\ [][Next]_vars

-----------------------------------------------------------------------------
TypeOK ==
  /\ mode \in Modes /\ disk \in [Place -> Disk] /\ edits \in 0..MaxEdits
  /\ approved \subseteq Place /\ agreed \subseteq Place
  /\ added \subseteq Place /\ removed \subseteq Place
  /\ \A c \in Call : call[c].at \in {"new", "over", "list", "read", "ask", "remove", "mkdir", "create", "write", "load"}

(* However calls and edits overlap, tools leave the skills that ship with  *)
(* the product alone, change nothing when the mode only reads, add nothing *)
(* in the mode that only suggests, and delete nothing in a mode that asks  *)
(* unless the user agreed to some deletion.                                *)
SkillsGuarded ==
  /\ \A p \in added \cup removed : p[1] # Builtin /\ mode # "readonly"
  /\ mode = "suggest" => added = {}
  /\ mode \in {"suggest", "workspace-write"} /\ removed # {} => agreed # {}

(* "Delete a writable project, user, or custom skill directory after       *)
(* policy approval when required": in a mode that asks, every directory    *)
(* deleted is one whose deletion was agreed to.                            *)
DeletedWasApproved ==
  mode \in {"suggest", "workspace-write"} => removed \subseteq agreed
=============================================================================
