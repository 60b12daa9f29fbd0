--------------------------- MODULE AgentServices ---------------------------
(***************************************************************************)
(* What one agent process has beside its loop and its tools: a request to  *)
(* the model (ModelStream), the pool of sub-agents (SubagentPool), the     *)
(* audit log (AuditLog) and the configuration all of them were built from  *)
(* (AgentConfig).  No state is shared: a step is a step of one of them.    *)
(***************************************************************************)
EXTENDS FiniteSets, Naturals, Sequences

CONSTANTS
  Item, Pieces, Shapes, ModelAttempts, NoEvent,          \* ModelStream
  Delegation, Concurrency, QueueSize, Deltas,            \* SubagentPool
  MaxBackups, Full, MaxLines, NoLog,                     \* AuditLog
  Layer, Environ, Server, Default, Unset, NoNumber       \* AgentConfig

VARIABLES
  modelAt, attempt, model, modelCalls, emitted, out, got, modelLoop,           \* ModelStream
  poolQueue, sem, waiting, poolAt, poolCancelled, said, poolHeard,             \* SubagentPool
  logFile, logOpen, logSize, logAt, backup, lines, kept,                       \* AuditLog
  cfgFiles, env, cfgAt, cfg, cfgUsed                                           \* AgentConfig

Model == INSTANCE ModelStream WITH
  Attempts <- ModelAttempts, None <- NoEvent, at <- modelAt, calls <- modelCalls, loop <- modelLoop
Pool == INSTANCE SubagentPool WITH
  Call <- Delegation, queue <- poolQueue, at <- poolAt, cancelled <- poolCancelled, heard <- poolHeard
Audit == INSTANCE AuditLog WITH
  NoFile <- NoLog, file <- logFile, open <- logOpen, size <- logSize, at <- logAt, i <- backup
Config == INSTANCE AgentConfig WITH
  files <- cfgFiles, at <- cfgAt, used <- cfgUsed

\* An event of the model that names a call gives its id too.
ASSUME ModelAssumption ==
  /\ Pieces \in Nat /\ ModelAttempts \in Nat \ {0}
  /\ \A shape \in Shapes : "name" \in shape => "call" \in shape

ASSUME PoolAssumption ==
  IsFiniteSet(Delegation) /\ Concurrency \in Nat /\ QueueSize \in Nat /\ Deltas \in Nat

\* The defaults set every field, and a patch names fields and servers.
ASSUME ConfigAssumption ==
  /\ DOMAIN Default = Config!Field
  /\ \A l \in Layer : l.kind = "patch" => DOMAIN l.set \subseteq Config!Field /\ DOMAIN l.servers \subseteq Server

\* A file takes a line at least.
ASSUME AuditAssumption ==
  MaxBackups \in Nat /\ NoLog \notin Seq(Nat) /\ Full \in Nat \ {0} /\ MaxLines \in Nat

modelVars == <<modelAt, attempt, model, modelCalls, emitted, out, got, modelLoop>>
poolVars == <<poolQueue, sem, waiting, poolAt, poolCancelled, said, poolHeard>>
auditVars == <<logFile, logOpen, logSize, logAt, backup, lines, kept>>
configVars == <<cfgFiles, env, cfgAt, cfg, cfgUsed>>
serviceVars == <<modelVars, poolVars, auditVars, configVars>>

ServicesInit == Model!Init /\ Pool!Init /\ Audit!Init /\ Config!Init

ServicesNext ==
  \/ Model!Next /\ UNCHANGED <<poolVars, auditVars, configVars>>
  \/ Pool!Next /\ UNCHANGED <<modelVars, auditVars, configVars>>
  \/ Audit!Next /\ UNCHANGED <<modelVars, poolVars, configVars>>
  \/ Config!Next /\ UNCHANGED <<modelVars, poolVars, auditVars>>

ServicesSpec == ServicesInit /\ [][ServicesNext]_serviceVars

-----------------------------------------------------------------------------
ServiceTypes == Model!TypeOK /\ Pool!TypeOK /\ Audit!TypeOK /\ Config!TypeOK

\* ModelStream's CallsAreWhole: the loop takes each tool call whole.
CallsAreWhole == Model!CallsAreWhole

\* SubagentPool's SlotsAreReturned: places and slots are what the calls hold.
SlotsAreReturned == Pool!SlotsAreReturned

\* AuditLog's NewestAreKept: rotation forgets the oldest lines only.
NewestAreKept == Audit!NewestAreKept

\* AgentConfig's HighestSourceWins: each field has its highest layer's value.
HighestSourceWins == Config!HighestSourceWins
=============================================================================
