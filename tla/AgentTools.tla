----------------------------- MODULE AgentTools -----------------------------
(***************************************************************************)
(* The tools of one agent process side by side, as app/wire.go gives them  *)
(* to its loop: the way of a call through the policy to its effect         *)
(* (ToolGuard), the network tools, the file tools and the skill tools.     *)
(* They share the permission mode, which nothing changes, and are called   *)
(* independently otherwise: a step is a step of one of them.               *)
(***************************************************************************)
EXTENDS FiniteSets, Naturals, Sequences

CONSTANTS
  ToolCall,           \* the calls of one tool that may overlap
  Requests, MaxCalls,                                         \* ToolGuard
  Name, Local, Address, Blocked, Provider, Proxies, NoProxy,  \* NetworkTools
  Redirects, Attempts,
  Path, Hidden, Ignored, Secret, Text, Piece, Zero,           \* FileTools
  MaxRead, MaxHits, Inode, NoFile,
  Sources, Builtin, Priority, SkillName, MaxEdits             \* Skills

VARIABLES
  mode,                                                                       \* shared
  hooked, guardApproved, guardCalls, guardCall, guardAgreed, guardDone,       \* ToolGuard
  proxy, direct, netOpen, netCall, netSent,                                   \* NetworkTools
  name, temp, data, used, fileCall, whole, shown,                             \* FileTools
  disk, skillApproved, skillCall, skillEdits, skillAgreed, added, removed     \* Skills

Guard == INSTANCE ToolGuard WITH
  Call <- ToolCall, Request <- Requests,
  approved <- guardApproved, calls <- guardCalls, call <- guardCall, agreed <- guardAgreed, done <- guardDone
Network == INSTANCE NetworkTools WITH
  Call <- ToolCall, Unset <- NoProxy, open <- netOpen, call <- netCall, sent <- netSent
Files == INSTANCE FileTools WITH
  Call <- ToolCall, None <- NoFile, call <- fileCall
Skill == INSTANCE Skills WITH
  Call <- ToolCall, Name <- SkillName,
  approved <- skillApproved, call <- skillCall, edits <- skillEdits, agreed <- skillAgreed

guardVars == <<hooked, guardApproved, guardCalls, guardCall, guardAgreed, guardDone>>
netVars == <<proxy, direct, netOpen, netCall, netSent>>
fileVars == <<name, temp, data, used, fileCall, whole, shown>>
skillVars == <<disk, skillApproved, skillCall, skillEdits, skillAgreed, added, removed>>
toolVars == <<mode, guardVars, netVars, fileVars, skillVars>>

\* A request is what its tool, directory and words are, and the tools are
\* those that ask the policy.
ASSUME GuardAssumption ==
  /\ MaxCalls \in Nat
  /\ \A r \in Requests : r.tool \in Guard!Tools
  /\ \A r, q \in Requests : r.tool = q.tool /\ r.dir = q.dir /\ r.words = q.words => r = q

\* What is blocked is an address; the provider and the proxies are hosts.
ASSUME NetworkAssumption ==
  /\ Blocked \subseteq Address
  /\ Provider \in Name \cup Address /\ Proxies \subseteq Name \cup Address
  /\ Redirects \in Nat /\ Attempts \in Nat \ {0}

\* There may be a file under every name from the start.
ASSUME FileAssumption ==
  /\ Text \subseteq Seq(Piece) /\ IsFiniteSet(Path)
  /\ Inode \subseteq Nat \ {0} /\ 1..Cardinality(Path) \subseteq Inode /\ NoFile \notin Inode

ASSUME SkillAssumption == Sources \in Nat /\ MaxEdits \in Nat

ToolsInit == Guard!Init /\ Network!Init /\ Files!Init /\ Skill!Init

ToolsNext ==
  \/ Guard!Next /\ UNCHANGED <<netVars, fileVars, skillVars>>
  \/ Network!Next /\ UNCHANGED <<mode, guardVars, fileVars, skillVars>>
  \/ Files!Next /\ UNCHANGED <<mode, guardVars, netVars, skillVars>>
  \/ Skill!Next /\ UNCHANGED <<guardVars, netVars, fileVars>>

ToolsSpec == ToolsInit /\ [][ToolsNext]_toolVars

-----------------------------------------------------------------------------
ToolTypes == Guard!TypeOK /\ Network!TypeOK /\ Files!TypeOK /\ Skill!TypeOK

\* ToolGuard's ModeHonoured: no tool does more than the permission mode and
\* the user's approvals allow.
ModeHonoured == Guard!ModeHonoured

\* NetworkTools' OnlyAllowedTargets: no request is for a refused target.
OnlyAllowedTargets == Network!OnlyAllowedTargets

\* FileTools' FilesAreWhole: a name never shows a file that is half written.
FilesAreWhole == Files!FilesAreWhole

\* FileTools' PromiseSpec: the file tools implement FilePromise, in which a
\* write is one step and an answer is of one moment.
FilesKeepPromise == Files!PromiseSpec

\* Skills' SkillsGuarded: skills change only as the mode and the user allow.
SkillsGuarded == Skill!SkillsGuarded
=============================================================================
