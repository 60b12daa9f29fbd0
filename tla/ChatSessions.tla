---------------------------- MODULE ChatSessions ----------------------------
(***************************************************************************)
(* The sessions of the desktop chat: what the bridge remembers of each one *)
(* (agent_service.go: conversations, sessionAgents, activeSessions and     *)
(* currentSessionID) while calls of the window overlap.  A call asks the   *)
(* gateway without a lock and changes each of the four in lock sections of *)
(* its own, after the answer.  Titles, directories and the local copy of a *)
(* prompt's messages are left out.                                         *)
(***************************************************************************)
EXTENDS FiniteSets, Naturals

CONSTANTS
  Call,       \* calls of the window that may overlap
  Session, Agent, None,
  MaxCalls    \* bound of the model: calls in all

VARIABLES
  enabled,        \* the first enabled agent the gateway lists, or None
  conversations,  \* the sessions the window lists
  sessionAgents, activeSessions, currentSessionID,
  call,           \* each call: its operation, where it is, session and agent
  calls,          \* calls begun
  shown,          \* history: the sessions the window has seen listed
  created,        \* history: the agent each session was created with
  named,          \* history: the agents the user named for a session
  sent,           \* history: the agents the requests for a session went to
  forgotten,      \* history: deleted sessions
  touched         \* history: those some other call was or came to be about

known == <<conversations, sessionAgents, activeSessions, currentSessionID>>
history == <<shown, created, named, sent, forgotten, touched>>
vars == <<enabled, known, call, calls, history>>

Idle == [op |-> "none", at |-> "idle", session |-> None, agent |-> None, mode |-> None]

Init ==
  /\ enabled \in Agent \cup {None}
  /\ conversations = {} /\ activeSessions = {} /\ currentSessionID = None
  /\ sessionAgents = [s \in Session |-> None]
  /\ call = [c \in Call |-> Idle] /\ calls = 0
  /\ shown = {} /\ created = [s \in Session |-> None] /\ named = [s \in Session |-> {}] /\ sent = [s \in Session |-> {}]
  /\ forgotten = {} /\ touched = {}

\* The administrator enables or disables agents.
Administer == /\ \E a \in Agent \cup {None} : a # enabled /\ enabled' = a
              /\ UNCHANGED <<known, call, calls, history>>

-----------------------------------------------------------------------------
At(c, at) == call[c].at = at
Goto(c, at) == call' = [call EXCEPT ![c] = IF at = "done" THEN Idle ELSE [@ EXCEPT !.at = at]]
Asks(c) == call[c].op \in {"disconnect", "delete", "prompt", "cancel"}

\* A failure ends a call; DeleteSession ignores it.
Failed(c) == Goto(c, IF call[c].op = "delete" THEN "forget" ELSE "done")

Begin(c) ==
  /\ At(c, "idle") /\ calls < MaxCalls
  /\ calls' = calls + 1
  /\ \/ /\ \E m \in Agent \cup {None} :
             call' = [call EXCEPT ![c] = [Idle EXCEPT !.op = "new", !.at = "resolve", !.mode = m]]
        /\ UNCHANGED <<named, touched>>
     \/ \E s \in Session, op \in {"connect", "disconnect", "delete", "load", "prompt", "cancel", "list"} :
          \E m \in IF op = "prompt" THEN Agent \cup {None} ELSE {None} :
            /\ s \in shown
            /\ call' = [call EXCEPT ![c] =
                 [Idle EXCEPT !.op = op, !.session = s, !.mode = m,
                              !.at = CASE op = "connect" -> "read" [] op = "load" -> "look"
                                       [] op = "list" -> "current" [] OTHER -> "resolve"]]
            /\ named' = [named EXCEPT ![s] = @ \cup ({m} \ {None})]
            /\ touched' = IF s \in forgotten THEN touched \cup {s} ELSE touched
  /\ UNCHANGED <<enabled, known, shown, created, sent, forgotten>>

\* Defective variant: a session's own agent is not looked up.
ResolveListed(c) ==
  /\ At(c, "resolve")
  /\ LET s == call[c].session  m == call[c].mode IN
       /\ call' = [call EXCEPT ![c] =
            IF m # None THEN [@ EXCEPT !.agent = m, !.at = IF @ = "new" THEN "start" ELSE "request"]
            ELSE [@ EXCEPT !.at = "listed"]]
       /\ sessionAgents' = IF m # None /\ Asks(c) THEN [sessionAgents EXCEPT ![s] = m] ELSE sessionAgents
  /\ UNCHANGED <<enabled, conversations, activeSessions, currentSessionID, calls, history>>

\* resolveSessionAgentID: the agent the user names is the session's from now
\* on, whatever becomes of the request.
Resolve(c) ==
  /\ At(c, "resolve")
  /\ LET s == call[c].session
         m == call[c].mode
         a == IF m # None \/ ~Asks(c) THEN m ELSE sessionAgents[s]
     IN  /\ call' = [call EXCEPT ![c].agent = a,
                                 ![c].at = IF a = None THEN "listed" ELSE IF Asks(c) THEN "request" ELSE "start"]
         /\ sessionAgents' = IF m # None /\ Asks(c) THEN [sessionAgents EXCEPT ![s] = m] ELSE sessionAgents
  /\ UNCHANGED <<enabled, conversations, activeSessions, currentSessionID, calls, history>>

\* resolveGatewayAgentID: the first enabled agent of the gateway's list.
Listed(c) ==
  /\ At(c, "listed")
  /\ \/ Failed(c)
     \/ /\ enabled # None
        /\ call' = [call EXCEPT ![c].agent = enabled, ![c].at = IF Asks(c) THEN "request" ELSE "start"]
  /\ UNCHANGED <<enabled, known, calls, history>>

\* NewSession: start the agent, then create the session.
StartAgent(c) ==
  /\ At(c, "start")
  /\ Goto(c, "request") \/ Failed(c)
  /\ UNCHANGED <<enabled, known, calls, history>>

Create(c) ==
  /\ At(c, "request") /\ call[c].op = "new"
  /\ \/ Failed(c) /\ UNCHANGED created
     \/ \E s \in Session :
          /\ created[s] = None /\ s = CHOOSE t \in Session : created[t] = None
          /\ created' = [created EXCEPT ![s] = call[c].agent]
          /\ call' = [call EXCEPT ![c].session = s, ![c].at = "remember"]
  /\ UNCHANGED <<enabled, known, calls, shown, named, sent, forgotten, touched>>

GatewayJSON(c) ==
  /\ At(c, "request") /\ Asks(c)
  /\ sent' = [sent EXCEPT ![call[c].session] = @ \cup {call[c].agent}]
  /\ \/ Failed(c)
     \/ Goto(c, IF call[c].op \in {"disconnect", "delete"} THEN "remember" ELSE "current")
  /\ UNCHANGED <<enabled, known, calls, shown, created, named, forgotten, touched>>

\* ConnectSession reads the agent that it then remembers.
ReadAgent(c) ==
  /\ At(c, "read")
  /\ call' = [call EXCEPT ![c].agent = sessionAgents[call[c].session], ![c].at = "remember"]
  /\ UNCHANGED <<enabled, known, calls, history>>

\* rememberConversation keeps the agent it knows when it is given none.
Remember(c) ==
  /\ At(c, "remember")
  /\ LET s == call[c].session IN
       /\ conversations' = conversations \cup {s}
       /\ activeSessions' = activeSessions \cup {s}
       /\ sessionAgents' = IF call[c].agent = None THEN sessionAgents
                           ELSE [sessionAgents EXCEPT ![s] = call[c].agent]
  /\ shown' = shown \cup {call[c].session}
  /\ Goto(c, "current")
  /\ UNCHANGED <<enabled, currentSessionID, calls, created, named, sent, forgotten, touched>>

Look(c) ==
  /\ At(c, "look")
  /\ Goto(c, IF call[c].session \in conversations THEN "current" ELSE "done")
  /\ UNCHANGED <<enabled, known, calls, history>>

\* setCurrentStreamSessionID, the end of every call but a deletion's.
SetCurrent(c) ==
  /\ At(c, "current")
  /\ currentSessionID' = call[c].session
  /\ activeSessions' = activeSessions \cup {call[c].session}
  /\ Goto(c, IF call[c].op = "delete" THEN "forget" ELSE "done")
  /\ UNCHANGED <<enabled, conversations, sessionAgents, calls, history>>

Forgetting(c) ==
  LET s == call[c].session IN
  /\ forgotten' = forgotten \cup {s}
  /\ touched' = IF \E d \in Call \ {c} : call[d].session = s THEN touched \cup {s} ELSE touched
  /\ Goto(c, "done")
  /\ UNCHANGED <<enabled, calls, shown, created, named, sent>>

\* Defective variant: the stream's session is left as it is.
ForgetNotCurrent(c) ==
  /\ At(c, "forget")
  /\ conversations' = conversations \ {call[c].session}
  /\ activeSessions' = activeSessions \ {call[c].session}
  /\ sessionAgents' = [sessionAgents EXCEPT ![call[c].session] = None]
  /\ UNCHANGED currentSessionID
  /\ Forgetting(c)

\* forgetConversation
Forget(c) ==
  /\ At(c, "forget")
  /\ conversations' = conversations \ {call[c].session}
  /\ activeSessions' = activeSessions \ {call[c].session}
  /\ sessionAgents' = [sessionAgents EXCEPT ![call[c].session] = None]
  /\ currentSessionID' = IF currentSessionID = call[c].session THEN None ELSE currentSessionID
  /\ Forgetting(c)

Next ==
  \/ Administer
  \/ \E c \in Call : \/ Begin(c) \/ Resolve(c) \/ Listed(c) \/ StartAgent(c) \/ Create(c) \/ GatewayJSON(c)
                     \/ ReadAgent(c) \/ Remember(c) \/ Look(c) \/ SetCurrent(c) \/ Forget(c)

Spec == Init /\ [][Next]_vars

-----------------------------------------------------------------------------
TypeOK ==
  /\ enabled \in Agent \cup {None} /\ calls \in 0..MaxCalls
  /\ conversations \subseteq Session /\ activeSessions \subseteq Session
  /\ currentSessionID \in Session \cup {None}
  /\ sessionAgents \in [Session -> Agent \cup {None}]
  /\ call \in [Call -> [op : {"none", "new", "connect", "disconnect", "delete", "load", "prompt", "cancel", "list"},
                        at : {"idle", "resolve", "listed", "start", "request", "read", "remember", "look", "current", "forget"},
                        session : Session \cup {None}, agent : Agent \cup {None}, mode : Agent \cup {None}]]

(* A request for a session goes to the agent it was created with or to one *)
(* the user named for it, however calls overlap and whichever agent is the *)
(* gateway's first; only a deleted session's goes to the gateway's choice. *)
RequestsStay ==
  \A s \in Session \ forgotten : sent[s] \subseteq {created[s]} \cup named[s]

(* What was deleted is neither listed nor bound to an agent, and the event *)
(* stream does not ask for its events: unless another call about it was in *)
(* progress then or came later, nothing brings a session back.             *)
DeletedIsGone ==
  \A s \in forgotten \ touched :
    s \notin conversations \cup activeSessions /\ currentSessionID # s /\ sessionAgents[s] = None
=============================================================================
