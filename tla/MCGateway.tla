----------------------------- MODULE MCGateway -----------------------------
(***************************************************************************)
(* Small instances of the gateway's and the chat's modules, checked in one *)
(* run: part says which of them a behaviour is about, and the variables of *)
(* the others keep one initial value.                                      *)
(*   approvals  ApprovalBroker: the first request offers an option of two  *)
(*              kinds, the second only one that allows, so that a decision *)
(*              word may name no offered option                            *)
(*   bus        EventBus with a reader that takes and leaves at any time   *)
(*   stream     EventStream: four events overrun a ring of two and         *)
(*              channels of one                                            *)
(*   asked      ChatGateway, one process, two wishes of the user           *)
(*   shared     ChatGateway, two processes and one that somebody starts    *)
(*   store      EventStore, with a restart                                 *)
(*   sessions   ChatSessions, two calls that overlap                       *)
(***************************************************************************)
EXTENDS ApprovalBroker, EventStream, EventStore, ChatBridge

CONSTANTS r1, r2, allow, reject, approval1, runA, runB

VARIABLE part

MCRequest == {r1, r2}
MCOptionId == {allow, reject}
MCOffer ==
  [r \in MCRequest |->
     IF r = r1
     THEN <<[id |-> allow, kind |-> "allow_always"], [id |-> reject, kind |-> "reject_once"]>>
     ELSE <<[id |-> allow, kind |-> "allow_once"]>>]

Envelope(run, payload, status, type) ==
  [session |-> TRUE, run |-> run, payloadRun |-> payload, status |-> status, type |-> type,
   approval |-> IF type = "update" THEN NoText ELSE approval1, request |-> TRUE]
MCEnvelopes ==
  {Envelope(runA, NoText, "running", "update"), Envelope(runA, NoText, "pending", "requested"),
   Envelope(NoText, NoText, NoText, "approved"), Envelope(NoText, runB, "completed", "update")}

hostVars == <<part, vars, streamAllVars>>

-----------------------------------------------------------------------------
\* One initial value for what a behaviour is not about; the part asked has
\* one process and nobody else who starts a gateway.
Fixed ==
  /\ part = "sessions" \/ enabled = None
  /\ part = "shared" \/ (file = None /\ proc = [p \in Proc \cup Foreign |-> "none"])

GatewayInit ==
  /\ part \in {"approvals", "bus", "stream", "asked", "shared", "store", "sessions"}
  /\ Fixed
  /\ Init /\ StreamInit /\ StoreInit /\ BridgeInit

GatewayNext ==
  \/ part = "approvals" /\ Next /\ UNCHANGED <<part, streamAllVars, bridgeVars, storeVars>>
  \/ part = "bus" /\ BusNext /\ UNCHANGED <<part, vars, streamVars, bridgeVars, storeVars>>
  \/ part = "stream" /\ StreamNext /\ UNCHANGED <<part, vars, bridgeVars, storeVars>>
  \/ /\ part \in {"asked", "shared"} /\ Gateway!Next
     /\ part = "asked" => \A p \in (Proc \cup Foreign) \ {1} : proc'[p] = "none"
     /\ part = "shared" => asks' <= 1
     /\ UNCHANGED <<hostVars, sessionVars, storeVars>>
  \/ part = "store" /\ StoreNext /\ UNCHANGED <<hostVars, bridgeVars>>
  \/ part = "sessions" /\ Sessions!Next /\ UNCHANGED <<hostVars, chatVars, storeVars>>

GatewaySpec ==
  /\ GatewayInit
  /\ [][GatewayNext]_<<hostVars, bridgeVars, storeVars>>
  /\ Fairness /\ StreamFairness

-----------------------------------------------------------------------------
\* The types of the part that runs.
Types ==
  /\ TypeOK
  /\ StreamTypeOK /\ StoreTypeOK
  /\ part \in {"asked", "shared"} => Gateway!TypeOK
  /\ part = "sessions" => Sessions!TypeOK
=============================================================================
