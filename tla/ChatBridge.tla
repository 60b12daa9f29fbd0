----------------------------- MODULE ChatBridge -----------------------------
(***************************************************************************)
(* The bridge of the desktop chat: its hold on the gateway's process and   *)
(* on the stream of its events (ChatGateway), and what it remembers of the *)
(* sessions (ChatSessions).  The two share no state the models keep: a     *)
(* step is a step of one of them.                                          *)
(***************************************************************************)
EXTENDS FiniteSets, Naturals

CONSTANTS
  Proc, Foreign, Ui, Stream, MaxFailures, MaxAuth, MaxAsks,  \* ChatGateway
  WindowCall, Session, Agent, MaxCalls,                      \* ChatSessions
  None

VARIABLES
  proc, file, launched, replaced, managed, managedPid, owned, gateway, stream, streamsCancelled, task, asks,
  exited,                                                    \* ChatGateway
  enabled, conversations, sessionAgents, activeSessions, currentSessionID, call, calls,
  shown, created, named, sent, forgotten, touched            \* ChatSessions

Gateway == INSTANCE ChatGateway WITH dropped <- replaced, cancelled <- streamsCancelled
Sessions == INSTANCE ChatSessions WITH Call <- WindowCall

chatVars == <<proc, file, launched, replaced, managed, managedPid, owned, gateway, stream, streamsCancelled, task,
              asks, exited>>
sessionVars == <<enabled, conversations, sessionAgents, activeSessions, currentSessionID, call, calls,
                 shown, created, named, sent, forgotten, touched>>
bridgeVars == <<chatVars, sessionVars>>

\* Processes, calls and goroutines are told apart, and None is none of them;
\* the stream's limits and the models' bounds are numbers.
ASSUME BridgeAssumption ==
  /\ Ui # {} /\ Ui \cap Stream = {} /\ Proc \cap Foreign = {}
  /\ None \notin Proc \cup Foreign \cup Stream \cup Session \cup Agent
  /\ MaxFailures \in Nat /\ MaxAuth \in Nat /\ MaxAsks \in Nat /\ MaxCalls \in Nat

BridgeInit == Gateway!Init /\ Sessions!Init

BridgeNext ==
  \/ Gateway!Next /\ UNCHANGED sessionVars
  \/ Sessions!Next /\ UNCHANGED chatVars

BridgeSpec == BridgeInit /\ [][BridgeNext]_bridgeVars

-----------------------------------------------------------------------------
BridgeTypes == Gateway!TypeOK /\ Sessions!TypeOK

\* ChatGateway's NothingEscapes: a gateway the bridge launched is always one
\* it can still stop.
NothingEscapes == Gateway!NothingEscapes

\* ChatGateway's OneLiveStream: never two event streams that both count.
OneLiveStream == Gateway!OneLiveStream

\* ChatSessions' RequestsStay: a session's requests go to its agent.
RequestsStay == Sessions!RequestsStay

\* ChatSessions' DeletedIsGone: nothing is remembered of a deleted session.
DeletedIsGone == Sessions!DeletedIsGone
=============================================================================
