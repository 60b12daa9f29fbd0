-------------------------- MODULE McpManagerProofs --------------------------
(***************************************************************************)
(* Proofs about McpManager for every set of servers, goroutines and        *)
(* connections.  IInv is the inductive invariant: its part Own says that   *)
(* each open connection is in exactly one place - an entry of the table,   *)
(* the hands of one goroutine, or Close's list - and every step but those  *)
(* that open or close one moves it from a place to another.                *)
(***************************************************************************)
EXTENDS McpManager, TLAPS

Pc == {"idle", "reread", "get", "resolve", "connect", "list", "replace", "close", "drop", "calling"}

\* The connection a call is to close or to put into the table.
GripOf(r) == IF r.pc \in {"list", "replace", "drop"} THEN r.held ELSE None
Grip(c) == GripOf(call[c])
At(s) == conns[s].client

CallOK(r) ==
  /\ r \in CallState
  /\ r.held # None <=> r.pc \in {"list", "replace", "drop", "calling"}
  /\ r.server = NoServer <=> r.pc = "idle"

Own ==
  /\ \A s \in Server : At(s) # None => client[At(s)] = "open" /\ ~closed
  /\ \A s, t \in Server : At(s) # None /\ At(s) = At(t) => s = t
  /\ \A c \in Caller : Grip(c) # None => client[Grip(c)] = "open"
  /\ \A c, d \in Caller : Grip(c) # None /\ Grip(c) = Grip(d) => c = d
  /\ \A c \in Caller, s \in Server : Grip(c) # None => At(s) # Grip(c)
  /\ \A k \in taken : client[k] = "open" /\ \A c \in Caller : Grip(c) # k
  /\ closed \/ taken = {}
  /\ \A k \in Client : client[k] = "open" =>
       \/ \E s \in Server : At(s) = k
       \/ \E c \in Caller : Grip(c) = k
       \/ k \in taken

ShutInv ==
  /\ closed <=> shut # "no"
  /\ CallsEndBeforeClose

IInv == TypeOK /\ Own /\ ShutInv /\ StatusAgrees

-----------------------------------------------------------------------------
(* Calls.                                                                  *)

\* The fields of a call.
LEMMA CallFields ==
  ASSUME NEW r \in CallState
  PROVE  /\ r.pc \in Pc /\ r.server \in Server \cup {NoServer} /\ r.row \in Row
         /\ r.held \in Client \cup {None} /\ r.tries \in 0..2
BY DEF CallState, Pc

\* A call with its place changed, alone or with another field, is a call.
LEMMA CallUpdates ==
  ASSUME NEW r \in CallState, NEW p \in Pc
  PROVE  /\ [r EXCEPT !.pc = p] \in CallState
         /\ \A s \in Server : [r EXCEPT !.pc = p, !.server = s] \in CallState
         /\ \A w \in Row : [r EXCEPT !.pc = p, !.row = w] \in CallState
         /\ \A n \in 0..2 : [r EXCEPT !.pc = p, !.tries = n] \in CallState
         /\ \A k \in Client \cup {None} : [r EXCEPT !.pc = p, !.held = k] \in CallState
         /\ \A n \in 0..2 : [r EXCEPT !.pc = p, !.held = None, !.tries = n] \in CallState
         /\ \A s \in Server, k \in Client :
              [r EXCEPT !.pc = p, !.server = s, !.held = k] \in CallState
BY DEF CallState, Pc

\* A goroutine at rest holds nothing.
LEMMA RestOK == CallOK(Rest) /\ GripOf(Rest) = None
BY McpAssumption DEF CallOK, Rest, CallState, Row, NoRow, GripOf

\* What a goroutine that is in a call knows of it.
LEMMA CallKnown ==
  ASSUME TypeOK, NEW c \in Caller
  PROVE  /\ CallOK(call[c])
         /\ call[c].pc # "idle" => call[c].server \in Server
BY CallFields DEF TypeOK, CallOK

\* The step of one call: it keeps types and the promise of Close, and every
\* other goroutine's grip.
LEMMA CallStep ==
  ASSUME IInv, NEW c \in Caller, NEW r, CallOK(r), call' = [call EXCEPT ![c] = r],
         r.pc = "calling" => ~closed,
         rows' \in [Server -> Row], ops' \in Nat, conns' \in [Server -> Entry],
         client' \in [Client -> {"unused", "open", "closed"}],
         closed' = closed, shut' = shut, taken' = taken
  PROVE  /\ TypeOK' /\ ShutInv'
         /\ Grip(c)' = GripOf(r)
         /\ \A d \in Caller \ {c} : Grip(d)' = Grip(d)
<1>1. /\ call \in [Caller -> CallState]
      /\ \A d \in Caller : CallOK(call[d])
  BY DEF IInv, TypeOK, CallOK
<1>2. call' \in [Caller -> CallState]
  BY <1>1 DEF CallOK
<1>3. call'[c] = r /\ \A d \in Caller \ {c} : call'[d] = call[d]
  BY <1>1
<1>4. \A d \in Caller : CallOK(call'[d])
  BY <1>1, <1>3
<1>5. TypeOK'
  BY <1>2, <1>4 DEF IInv, TypeOK, CallOK
<1>6. ShutInv'
  <2>1. ASSUME NEW d \in Caller, call'[d].pc = "calling", shut \in {"closing", "done"}
        PROVE  FALSE
    <3>1. closed /\ call[d].pc # "calling"
      BY <2>1 DEF IInv, ShutInv, CallsEndBeforeClose, Calling
    <3> QED BY <3>1, <2>1, <1>3
  <2> QED BY <2>1 DEF IInv, ShutInv, CallsEndBeforeClose, Calling
<1>7. Grip(c)' = GripOf(r) /\ \A d \in Caller \ {c} : Grip(d)' = Grip(d)
  BY <1>3 DEF Grip
<1> QED BY <1>5, <1>6, <1>7

-----------------------------------------------------------------------------
(* The moves of a connection.                                              *)

\* Nothing moves.
LEMMA OwnStays ==
  ASSUME Own, \A c \in Caller : Grip(c)' = Grip(c), \A s \in Server : At(s)' = At(s),
         client' = client, closed' = closed, taken' = taken
  PROVE  Own'
BY DEF Own

\* A connection is opened by goroutine c.
LEMMA OwnOpens ==
  ASSUME TypeOK, Own, NEW c \in Caller, NEW k \in Client, client[k] = "unused", Grip(c) = None,
         Grip(c)' = k, \A d \in Caller \ {c} : Grip(d)' = Grip(d), \A s \in Server : At(s)' = At(s),
         client' = [client EXCEPT ![k] = "open"], closed' = closed, taken' = taken
  PROVE  Own'
<1>1. /\ client \in [Client -> {"unused", "open", "closed"}]
      /\ None \notin Client /\ taken \subseteq Client
  BY McpAssumption DEF TypeOK
<1>2. /\ client'[k] = "open"
      /\ \A l \in Client \ {k} : client'[l] = client[l]
  BY <1>1
<1>3. /\ \A s \in Server : At(s) \in Client \cup {None}
      /\ \A d \in Caller : Grip(d) \in Client \cup {None}
  BY CallFields DEF TypeOK, At, Entry, Grip, GripOf
<1>4. /\ \A s \in Server : At(s) # k
      /\ \A d \in Caller : Grip(d) # k
      /\ k \notin taken
  BY <1>1, <1>3 DEF Own
<1> QED BY <1>1, <1>2, <1>3, <1>4 DEF Own

\* Goroutine c closes the connection it holds.
LEMMA OwnCloses ==
  ASSUME TypeOK, Own, NEW c \in Caller, Grip(c) # None,
         Grip(c)' = None, \A d \in Caller \ {c} : Grip(d)' = Grip(d), \A s \in Server : At(s)' = At(s),
         client' = [client EXCEPT ![Grip(c)] = "closed"], closed' = closed, taken' = taken
  PROVE  Own'
<1>1. /\ client \in [Client -> {"unused", "open", "closed"}]
      /\ None \notin Client /\ taken \subseteq Client
  BY McpAssumption DEF TypeOK
<1>2. /\ \A s \in Server : At(s) \in Client \cup {None}
      /\ \A d \in Caller : Grip(d) \in Client \cup {None}
  BY CallFields DEF TypeOK, At, Entry, Grip, GripOf
<1>3. /\ client'[Grip(c)] = "closed"
      /\ \A l \in Client \ {Grip(c)} : client'[l] = client[l]
  BY <1>1, <1>2
<1>4. /\ \A s \in Server : At(s) # Grip(c)
      /\ \A d \in Caller \ {c} : Grip(d) # Grip(c)
      /\ Grip(c) \notin taken
  BY DEF Own
<1> QED BY <1>1, <1>2, <1>3, <1>4 DEF Own

\* While the manager is open, goroutine c exchanges what it holds with what
\* the entry of s holds; either may be nothing.
LEMMA OwnSwaps ==
  ASSUME TypeOK, Own, NEW c \in Caller, NEW s \in Server, ~closed,
         At(s)' = Grip(c), Grip(c)' = At(s),
         \A d \in Caller \ {c} : Grip(d)' = Grip(d), \A t \in Server \ {s} : At(t)' = At(t),
         client' = client, closed' = closed, taken' = taken
  PROVE  Own'
<1>1. taken = {}
  BY DEF Own
<1>2. \A t \in Server : At(t)' # None => client'[At(t)'] = "open" /\ ~closed'
  BY DEF Own
<1>3. \A t, u \in Server : At(t)' # None /\ At(t)' = At(u)' => t = u
  BY DEF Own
<1>4. \A d \in Caller : Grip(d)' # None => client'[Grip(d)'] = "open"
  BY DEF Own
<1>5. \A d, e \in Caller : Grip(d)' # None /\ Grip(d)' = Grip(e)' => d = e
  BY DEF Own
<1>6. \A d \in Caller, t \in Server : Grip(d)' # None => At(t)' # Grip(d)'
  BY DEF Own
<1>7. ASSUME NEW k \in Client, client[k] = "open"
      PROVE  (\E t \in Server : At(t)' = k) \/ (\E d \in Caller : Grip(d)' = k)
  <2>1. CASE \E t \in Server : At(t) = k
    BY <2>1
  <2>2. CASE \E d \in Caller : Grip(d) = k
    BY <2>2
  <2> QED BY <1>1, <1>7, <2>1, <2>2 DEF Own
<1> QED BY <1>1, <1>2, <1>3, <1>4, <1>5, <1>6, <1>7 DEF Own

-----------------------------------------------------------------------------
(* The steps of a goroutine.                                               *)

\* A step that changes the call of c, not what c holds, and of the table at
\* most states.
LEMMA QuietStep ==
  ASSUME IInv, NEW c \in Caller, NEW r, CallOK(r), call' = [call EXCEPT ![c] = r],
         GripOf(r) = Grip(c), r.pc = "calling" => ~closed,
         rows' \in [Server -> Row], ops' \in Nat, conns' \in [Server -> Entry],
         \A s \in Server : At(s)' = At(s), StatusAgrees',
         client' = client, closed' = closed, shut' = shut, taken' = taken
  PROVE  IInv'
<1>1. client' \in [Client -> {"unused", "open", "closed"}]
  BY DEF IInv, TypeOK
<1>2. /\ TypeOK' /\ ShutInv'
      /\ Grip(c)' = GripOf(r)
      /\ \A d \in Caller \ {c} : Grip(d)' = Grip(d)
  BY <1>1, CallStep
<1>3. Own'
  BY <1>2, OwnStays DEF IInv
<1> QED BY <1>2, <1>3 DEF IInv

\* The same when the table does not change at all.
LEMMA PassingStep ==
  ASSUME IInv, NEW c \in Caller, NEW r, CallOK(r), call' = [call EXCEPT ![c] = r],
         GripOf(r) = Grip(c), r.pc = "calling" => ~closed,
         rows' \in [Server -> Row], ops' \in Nat,
         UNCHANGED <<conns, closed, client, shut, taken>>
  PROVE  IInv'
<1>1. /\ conns' \in [Server -> Entry]
      /\ StatusAgrees'
      /\ \A s \in Server : At(s)' = At(s)
  BY DEF IInv, TypeOK, StatusAgrees, At
<1> QED BY <1>1, QuietStep

\* A call of the service begins on server s.
LEMMA EnterStep ==
  ASSUME IInv, NEW c \in Caller, NEW s \in Server, NEW p \in {"get", "close", "reread"},
         Begin(c), Enter(c, s, p), rows' \in [Server -> Row]
  PROVE  IInv'
<1> DEFINE r == [call[c] EXCEPT !.pc = p, !.server = s]
<1>1. CallOK(call[c]) /\ call[c].pc = "idle"
  BY CallKnown DEF IInv, Begin
<1>2. r \in CallState
  BY <1>1, CallUpdates, Zenon DEF CallOK, Pc
<1>3. r.pc = p /\ r.server = s /\ r.held = None
  BY <1>1 DEF CallOK, CallState
<1>4. CallOK(r) /\ GripOf(r) = None /\ Grip(c) = None
  BY <1>1, <1>2, <1>3, McpAssumption DEF CallOK, GripOf, Grip
<1>5. call' = [call EXCEPT ![c] = r]
  BY DEF Enter
<1>6. /\ ops' \in Nat
      /\ UNCHANGED <<conns, closed, client, shut, taken>>
  BY DEF IInv, TypeOK, Begin
<1> HIDE DEF r
<1> QED BY <1>3, <1>4, <1>5, <1>6, PassingStep, Zenon

\* Save.
LEMMA SaveStep ==
  ASSUME IInv, NEW c \in Caller, NEW s \in Server, Save(c, s)
  PROVE  IInv'
<1>1. PICK row \in {r \in Row : r.present} :
        /\ rows' = [rows EXCEPT ![s] = row]
        /\ IF row.enabled THEN Enter(c, s, "get") ELSE UNCHANGED call
  BY DEF Save
<1>2. rows' \in [Server -> Row]
  BY <1>1 DEF IInv, TypeOK
<1>3. CASE row.enabled
  BY <1>1, <1>2, <1>3, EnterStep DEF Save
<1>4. CASE ~row.enabled
  <2>1. /\ UNCHANGED <<call, conns, closed, client, shut, taken>>
        /\ ops' \in Nat
    BY <1>1, <1>4 DEF Save, Begin, IInv, TypeOK
  <2>2. TypeOK'
    BY <1>2, <2>1 DEF IInv, TypeOK
  <2>3. Own'
    BY <2>1, OwnStays DEF IInv, Grip, At
  <2>4. ShutInv' /\ StatusAgrees'
    BY <2>1 DEF IInv, ShutInv, CallsEndBeforeClose, Calling, StatusAgrees
  <2> QED BY <2>2, <2>3, <2>4 DEF IInv
<1> QED BY <1>3, <1>4

\* Delete, SetStatus and Refresh.
LEMMA RowSteps ==
  ASSUME IInv, NEW c \in Caller, NEW s \in Server, Delete(c, s) \/ SetStatus(c, s) \/ Refresh(c, s)
  PROVE  IInv'
<1>1. rows \in [Server -> Row]
  BY DEF IInv, TypeOK
<1>2. CASE Delete(c, s)
  <2>1. rows' \in [Server -> Row]
    BY <1>1, <1>2 DEF Delete, Row, NoRow
  <2> QED BY <1>2, <2>1, EnterStep DEF Delete
<1>3. CASE SetStatus(c, s)
  <2>1. PICK enabled \in BOOLEAN :
          /\ rows' = [rows EXCEPT ![s].enabled = enabled]
          /\ Enter(c, s, IF enabled THEN "reread" ELSE "close")
    BY <1>3 DEF SetStatus
  <2>2. rows' \in [Server -> Row]
    BY <1>1, <2>1 DEF Row
  <2>3. (IF enabled THEN "reread" ELSE "close") \in {"get", "close", "reread"}
    OBVIOUS
  <2> QED BY <1>3, <2>1, <2>2, <2>3, EnterStep DEF SetStatus
<1>4. CASE Refresh(c, s)
  BY <1>1, <1>4, EnterStep DEF Refresh
<1> QED BY <1>2, <1>3, <1>4

\* CallTool: the connection is in use, and stays the table's.
LEMMA CallToolStep ==
  ASSUME IInv, NEW c \in Caller, NEW s \in Server, CallTool(c, s)
  PROVE  IInv'
<1> DEFINE k == conns[s].client
           r == [call[c] EXCEPT !.pc = "calling", !.server = s, !.held = k]
<1>1. CallOK(call[c]) /\ call[c].pc = "idle"
  BY CallKnown DEF IInv, CallTool, Begin
<1>2. k \in Client
  BY SMTT(30) DEF IInv, TypeOK, Entry, CallTool
<1>3. r \in CallState
  BY <1>1, <1>2, CallUpdates, Zenon DEF CallOK, Pc
<1>4. r.pc = "calling" /\ r.server = s /\ r.held = k
  BY <1>1 DEF CallOK, CallState
<1>5. CallOK(r) /\ GripOf(r) = None /\ Grip(c) = None
  BY <1>1, <1>2, <1>3, <1>4, McpAssumption DEF CallOK, GripOf, Grip
<1>6. call' = [call EXCEPT ![c] = r]
  BY DEF CallTool
<1>7. /\ ops' \in Nat /\ rows' \in [Server -> Row] /\ ~closed
      /\ UNCHANGED <<conns, closed, client, shut, taken>>
  BY DEF IInv, TypeOK, CallTool, Begin
<1> HIDE DEF r
<1> QED BY <1>5, <1>6, <1>7, PassingStep

\* A call that holds nothing to close ends.
LEMMA EndStep ==
  ASSUME IInv, NEW c \in Caller, End(c), Grip(c) = None,
         UNCHANGED <<rows, conns, closed, client, shut, taken, ops>>
  PROVE  IInv'
<1>1. rows' \in [Server -> Row] /\ ops' \in Nat
  BY DEF IInv, TypeOK
<1>2. call' = [call EXCEPT ![c] = Rest] /\ Rest.pc # "calling"
  BY DEF End, Rest
<1> QED BY <1>1, <1>2, RestOK, PassingStep

\* A call that holds nothing goes on, with nothing to hold.
LEMMA GotoStep ==
  ASSUME IInv, NEW c \in Caller, NEW p \in {"get", "close"}, call[c].pc # "idle", call[c].held = None,
         Goto(c, p), UNCHANGED <<rows, conns, closed, client, shut, taken, ops>>
  PROVE  IInv'
<1> DEFINE r == [call[c] EXCEPT !.pc = p]
<1>1. CallOK(call[c])
  BY CallKnown DEF IInv
<1>2. r \in CallState
  BY <1>1, CallUpdates, Zenon DEF CallOK, Pc
<1>3. r.pc = p /\ r.server = call[c].server /\ r.held = None
  BY <1>1 DEF CallOK, CallState
<1>4. CallOK(r) /\ GripOf(r) = None /\ Grip(c) = None
  BY <1>1, <1>2, <1>3 DEF CallOK, GripOf, Grip
<1>5. call' = [call EXCEPT ![c] = r]
  BY DEF Goto
<1>6. rows' \in [Server -> Row] /\ ops' \in Nat
  BY DEF IInv, TypeOK
<1> HIDE DEF r
<1> QED BY <1>3, <1>4, <1>5, <1>6, PassingStep, Zenon

\* Reread and Get: a row read back from the database.
LEMMA ReadSteps ==
  ASSUME IInv, NEW c \in Caller, Reread(c) \/ Get(c)
  PROVE  IInv'
<1>1. CallOK(call[c])
  BY CallKnown DEF IInv
<1>2. call[c].pc \in {"reread", "get"} /\ call[c].held = None /\ Grip(c) = None
  BY <1>1 DEF CallOK, Reread, Get, Grip, GripOf
<1>3. CASE Reread(c)
  BY <1>2, <1>3, EndStep, GotoStep DEF Reread
<1>4. CASE Get(c)
  <2> DEFINE row == rows[call[c].server]
             r == [call[c] EXCEPT !.pc = "resolve", !.row = row]
  <2>1. CASE ~row.present
    BY <1>2, <1>4, <2>1, EndStep DEF Get
  <2>2. CASE row.present
    <3>1. row \in Row /\ rows' \in [Server -> Row] /\ ops' \in Nat
      BY <1>2, <1>4, CallKnown DEF IInv, TypeOK, Get
    <3>2. r \in CallState
      BY <1>1, <3>1, CallUpdates, Zenon DEF CallOK, Pc
    <3>3. r.pc = "resolve" /\ r.server = call[c].server /\ r.held = None
      BY <1>1, <1>2 DEF CallOK, CallState
    <3>4. CallOK(r) /\ GripOf(r) = None
      BY <1>1, <1>2, <3>2, <3>3 DEF CallOK, GripOf
    <3>5. /\ call' = [call EXCEPT ![c] = r]
          /\ UNCHANGED <<conns, closed, client, shut, taken>>
      BY <1>4, <2>2 DEF Get
    <3> HIDE DEF r
    <3> QED BY <1>2, <3>1, <3>3, <3>4, <3>5, PassingStep, Zenon
  <2> QED BY <2>1, <2>2
<1> QED BY <1>3, <1>4

\* A refresh that fails: the entry keeps its client, and the call ends.
LEMMA FailureStep ==
  ASSUME IInv, NEW c \in Caller, call[c].pc # "idle", RecordFailure(c), End(c)
  PROVE  /\ Grip(c)' = None
         /\ \A s \in Server : At(s)' = At(s)
         /\ conns' \in [Server -> Entry]
         /\ StatusAgrees'
<1>1. call[c].server \in Server /\ conns \in [Server -> Entry] /\ call \in [Caller -> CallState]
  BY CallKnown DEF IInv, TypeOK
<1>2. CASE closed
  BY <1>1, <1>2, RestOK DEF RecordFailure, End, Grip, At, IInv, StatusAgrees
<1>3. CASE ~closed
  <2>1. conns' = [conns EXCEPT ![call[c].server].state = "failed"]
    BY <1>3 DEF RecordFailure
  <2>2. /\ \A s \in Server : conns'[s].client = conns[s].client
        /\ \A s \in Server \ {call[c].server} : conns'[s] = conns[s]
        /\ conns'[call[c].server].state = "failed"
    BY <1>1, <2>1 DEF Entry
  <2>3. conns' \in [Server -> Entry]
    BY <1>1, <2>1 DEF Entry, State
  <2>4. StatusAgrees'
    BY <2>2 DEF IInv, StatusAgrees
  <2> QED BY <1>1, <2>2, <2>3, <2>4, RestOK DEF End, Grip, At
<1> QED BY <1>2, <1>3

\* Resolve.
LEMMA ResolveStep ==
  ASSUME IInv, NEW c \in Caller, Resolve(c)
  PROVE  IInv'
<1>1. /\ CallOK(call[c]) /\ call[c].pc = "resolve" /\ call[c].server \in Server
      /\ rows' \in [Server -> Row] /\ ops' \in Nat
      /\ UNCHANGED <<rows, closed, client, shut, taken, ops>>
  BY CallKnown DEF IInv, TypeOK, Resolve
<1>2. call[c].held = None /\ Grip(c) = None
  BY <1>1 DEF CallOK, Grip, GripOf
<1>3. CASE RecordFailure(c) /\ End(c)
  <2>1. call' = [call EXCEPT ![c] = Rest] /\ Rest.pc # "calling"
    BY <1>3 DEF End, Rest
  <2> QED BY <1>1, <1>2, <1>3, <2>1, FailureStep, RestOK, QuietStep
<1>4. CASE Goto(c, "close") /\ UNCHANGED conns
  BY <1>1, <1>2, <1>4, GotoStep
<1>5. CASE End(c) /\ UNCHANGED conns
  BY <1>1, <1>2, <1>5, EndStep
<1>6. CASE /\ conns' = [conns EXCEPT ![call[c].server].state = "connecting"]
           /\ call' = [call EXCEPT ![c].pc = "connect", ![c].tries = 1]
  <2> DEFINE r == [call[c] EXCEPT !.pc = "connect", !.tries = 1]
  <2> HIDE DEF r
  <2>0. call[c] \in CallState /\ "connect" \in Pc /\ 1 \in 0..2
    BY <1>1 DEF CallOK, Pc
  <2>1. r \in CallState
    BY <2>0, CallUpdates, Zenon DEF r
  <2>2. r.pc = "connect" /\ r.server = call[c].server /\ r.held = None
    BY <1>1, <1>2 DEF CallOK, CallState, r
  <2>3. CallOK(r) /\ GripOf(r) = None
    BY <1>1, <2>1, <2>2 DEF CallOK, GripOf
  <2>4. call' = [call EXCEPT ![c] = r]
    BY <1>6 DEF r
  <2>5. conns \in [Server -> Entry]
    BY DEF IInv, TypeOK
  <2>6. /\ \A s \in Server : conns'[s].client = conns[s].client
        /\ \A s \in Server \ {call[c].server} : conns'[s] = conns[s]
        /\ conns'[call[c].server].state = "connecting"
    BY <1>1, <1>6, <2>5 DEF Entry
  <2>7. conns' \in [Server -> Entry]
    BY <1>6, <2>5 DEF Entry, State
  <2>8. StatusAgrees' /\ \A s \in Server : At(s)' = At(s)
    BY <2>6 DEF IInv, StatusAgrees, At
  <2> QED BY <1>1, <1>2, <2>2, <2>3, <2>4, <2>7, <2>8, QuietStep, Zenon
<1> QED BY <1>3, <1>4, <1>5, <1>6 DEF Resolve

\* Connect: a connection is opened, or none.
LEMMA ConnectStep ==
  ASSUME IInv, NEW c \in Caller, Connect(c)
  PROVE  IInv'
<1>1. /\ CallOK(call[c]) /\ call[c].pc = "connect" /\ call[c].server \in Server
      /\ rows' \in [Server -> Row] /\ ops' \in Nat
      /\ UNCHANGED <<rows, closed, shut, taken, ops>>
  BY CallKnown DEF IInv, TypeOK, Connect
<1>2. call[c].held = None /\ Grip(c) = None
  BY <1>1 DEF CallOK, Grip, GripOf
<1>3. CASE RecordFailure(c) /\ End(c) /\ UNCHANGED client
  <2>1. call' = [call EXCEPT ![c] = Rest] /\ Rest.pc # "calling"
    BY <1>3 DEF End, Rest
  <2> QED BY <1>1, <1>2, <1>3, <2>1, FailureStep, RestOK, QuietStep, Zenon
<1>4. ASSUME NEW k \in Client, client[k] = "unused", client' = [client EXCEPT ![k] = "open"],
             call' = [call EXCEPT ![c].pc = "list", ![c].held = k], UNCHANGED conns
      PROVE  IInv'
  <2> DEFINE r == [call[c] EXCEPT !.pc = "list", !.held = k]
  <2>1. r \in CallState
    BY <1>1, CallUpdates, Zenon DEF CallOK, Pc
  <2>2. r.pc = "list" /\ r.server = call[c].server /\ r.held = k
    BY <1>1 DEF CallOK, CallState
  <2>3. CallOK(r) /\ GripOf(r) = k
    BY <1>1, <2>1, <2>2, McpAssumption DEF CallOK, GripOf
  <2>4. call' = [call EXCEPT ![c] = r]
    BY <1>4
  <2>5. /\ client' \in [Client -> {"unused", "open", "closed"}]
        /\ conns' \in [Server -> Entry]
        /\ StatusAgrees'
        /\ \A s \in Server : At(s)' = At(s)
    BY <1>4 DEF IInv, TypeOK, StatusAgrees, At
  <2> HIDE DEF r
  <2>6. /\ TypeOK' /\ ShutInv'
        /\ Grip(c)' = k
        /\ \A d \in Caller \ {c} : Grip(d)' = Grip(d)
    BY <1>1, <2>2, <2>3, <2>4, <2>5, CallStep
  <2>7. Own'
    BY <1>1, <1>2, <1>4, <2>5, <2>6, OwnOpens DEF IInv
  <2> QED BY SMTT(30), <2>5, <2>6, <2>7 DEF IInv
<1> QED BY <1>3, <1>4 DEF Connect

\* A goroutine closes the connection it holds and goes on as r.
LEMMA LetGo ==
  ASSUME IInv, NEW c \in Caller, NEW r, CallOK(r), GripOf(r) = None, r.pc # "calling",
         call' = [call EXCEPT ![c] = r],
         Grip(c) # None, client' = [client EXCEPT ![Grip(c)] = "closed"],
         conns' \in [Server -> Entry], StatusAgrees', \A s \in Server : At(s)' = At(s),
         UNCHANGED <<rows, closed, shut, taken, ops>>
  PROVE  IInv'
<1>1. /\ client' \in [Client -> {"unused", "open", "closed"}]
      /\ rows' \in [Server -> Row] /\ ops' \in Nat
  BY DEF IInv, TypeOK
<1>2. /\ TypeOK' /\ ShutInv'
      /\ Grip(c)' = None
      /\ \A d \in Caller \ {c} : Grip(d)' = Grip(d)
  BY <1>1, CallStep
<1>3. Own'
  BY <1>2, OwnCloses DEF IInv
<1> QED BY <1>2, <1>3 DEF IInv

\* List.
LEMMA ListStep ==
  ASSUME IInv, NEW c \in Caller, List(c)
  PROVE  IInv'
<1>1. /\ CallOK(call[c]) /\ call[c].pc = "list" /\ call[c].server \in Server
      /\ rows' \in [Server -> Row] /\ ops' \in Nat
      /\ UNCHANGED <<rows, closed, shut, taken, ops>>
  BY CallKnown DEF IInv, TypeOK, List
<1>2. call[c].held # None /\ Grip(c) = call[c].held
  BY <1>1 DEF CallOK, Grip, GripOf
<1>3. CASE Goto(c, "replace") /\ UNCHANGED <<conns, client>>
  <2> DEFINE r == [call[c] EXCEPT !.pc = "replace"]
  <2>1. r \in CallState
    BY <1>1, CallUpdates, Zenon DEF CallOK, Pc
  <2>2. r.pc = "replace" /\ r.server = call[c].server /\ r.held = call[c].held
    BY <1>1 DEF CallOK, CallState
  <2>3. CallOK(r) /\ GripOf(r) = Grip(c)
    BY <1>1, <1>2, <2>1, <2>2 DEF CallOK, GripOf
  <2>4. call' = [call EXCEPT ![c] = r]
    BY <1>3 DEF Goto
  <2> HIDE DEF r
  <2> QED BY <1>1, <1>3, <2>2, <2>3, <2>4, PassingStep, Zenon
<1>4. CASE /\ client' = [client EXCEPT ![call[c].held] = "closed"]
           /\ call' = [call EXCEPT ![c].pc = "connect", ![c].held = None, ![c].tries = 2]
           /\ UNCHANGED conns
  <2> DEFINE r == [call[c] EXCEPT !.pc = "connect", !.held = None, !.tries = 2]
  <2> HIDE DEF r
  <2>0. call[c] \in CallState /\ "connect" \in Pc /\ 2 \in 0..2
    BY <1>1 DEF CallOK, Pc
  <2>1. r \in CallState
    BY <2>0, CallUpdates, Zenon DEF r
  <2>2. r.pc = "connect" /\ r.server = call[c].server /\ r.held = None
    BY <1>1 DEF CallOK, CallState, r
  <2>3. CallOK(r) /\ GripOf(r) = None
    BY <1>1, <2>1, <2>2 DEF CallOK, GripOf
  <2>4. call' = [call EXCEPT ![c] = r]
    BY <1>4 DEF r
  <2>5. conns' \in [Server -> Entry] /\ StatusAgrees' /\ \A s \in Server : At(s)' = At(s)
    BY <1>4 DEF IInv, TypeOK, StatusAgrees, At
  <2> QED BY <1>1, <1>2, <1>4, <2>2, <2>3, <2>4, <2>5, LetGo, Zenon
<1>5. CASE client' = [client EXCEPT ![call[c].held] = "closed"] /\ RecordFailure(c) /\ End(c)
  <2>1. call' = [call EXCEPT ![c] = Rest] /\ Rest.pc # "calling"
    BY <1>5 DEF End, Rest
  <2>2. conns' \in [Server -> Entry] /\ StatusAgrees' /\ \A s \in Server : At(s)' = At(s)
    BY <1>1, <1>5, FailureStep
  <2> QED BY <1>1, <1>2, <1>5, <2>1, <2>2, RestOK, LetGo
<1> QED BY <1>3, <1>4, <1>5 DEF List

\* Drop.
LEMMA DropStep ==
  ASSUME IInv, NEW c \in Caller, Drop(c)
  PROVE  IInv'
<1>1. /\ CallOK(call[c]) /\ call[c].pc = "drop"
      /\ UNCHANGED <<rows, conns, closed, shut, taken, ops>>
  BY CallKnown DEF IInv, Drop
<1>2. call[c].held # None /\ Grip(c) = call[c].held
  BY <1>1 DEF CallOK, Grip, GripOf
<1>3. call' = [call EXCEPT ![c] = Rest] /\ Rest.pc # "calling"
  BY DEF Drop, End, Rest
<1>4. conns' \in [Server -> Entry] /\ StatusAgrees' /\ \A s \in Server : At(s)' = At(s)
  BY <1>1 DEF IInv, TypeOK, StatusAgrees, At
<1> QED BY <1>1, <1>2, <1>3, <1>4, RestOK, LetGo DEF Drop

\* Replace and CloseServer: an open manager's entry gets what the goroutine
\* holds, and the goroutine is left with what the entry had.
LEMMA ExchangeStep ==
  ASSUME IInv, NEW c \in Caller, NEW s \in Server, NEW k, NEW e \in Entry,
         s = call[c].server, k = At(s), ~closed, call[c].pc \in {"replace", "close"},
         conns' = [conns EXCEPT ![s] = e], e.client = Grip(c),
         e.client # None <=> e.state = "connected",
         DropOf(c, k), UNCHANGED <<rows, closed, client, shut, taken, ops>>
  PROVE  IInv'
<1> DEFINE r == IF k = None THEN Rest ELSE [call[c] EXCEPT !.pc = "drop", !.held = k]
<1>1. /\ CallOK(call[c])
      /\ conns \in [Server -> Entry]
      /\ client' \in [Client -> {"unused", "open", "closed"}]
      /\ rows' \in [Server -> Row] /\ ops' \in Nat
  BY CallKnown DEF IInv, TypeOK
<1>2. k \in Client \cup {None}
  BY <1>1 DEF At, Entry
<1>3. CallOK(r) /\ GripOf(r) = k /\ r.pc # "calling" /\ call' = [call EXCEPT ![c] = r]
  <2>1. CASE k = None
    BY <2>1, RestOK DEF DropOf, End, Rest
  <2>2. CASE k # None
    <3> DEFINE q == [call[c] EXCEPT !.pc = "drop", !.held = k]
    <3>1. q \in CallState
      BY <1>1, <1>2, CallUpdates, Zenon DEF CallOK, Pc
    <3>2. q.pc = "drop" /\ q.server = s /\ q.held = k
      BY <1>1 DEF CallOK, CallState
    <3>3. CallOK(q) /\ GripOf(q) = k
      BY <1>1, <2>2, <3>1, <3>2 DEF CallOK, GripOf
    <3>4. call' = [call EXCEPT ![c] = q]
      BY <2>2 DEF DropOf
    <3> QED BY SMTT(30), <2>2, <3>2, <3>3, <3>4
  <2> QED BY <2>1, <2>2
<1>4. conns' \in [Server -> Entry]
  BY <1>1
<1>5. /\ At(s)' = Grip(c)
      /\ \A t \in Server \ {s} : At(t)' = At(t)
  BY <1>1 DEF At
<1>6. StatusAgrees'
  <2>1. /\ conns'[s] = e
        /\ \A t \in Server \ {s} : conns'[t] = conns[t]
    BY <1>1
  <2> QED BY <2>1 DEF IInv, StatusAgrees
<1> HIDE DEF r
<1>7. /\ TypeOK' /\ ShutInv'
      /\ Grip(c)' = k
      /\ \A d \in Caller \ {c} : Grip(d)' = Grip(d)
  BY <1>1, <1>3, <1>4, CallStep
<1>8. Own'
  BY <1>1, <1>5, <1>7, OwnSwaps DEF IInv
<1> QED BY <1>6, <1>7, <1>8 DEF IInv

\* Replace.
LEMMA ReplaceStep ==
  ASSUME IInv, NEW c \in Caller, Replace(c)
  PROVE  IInv'
<1>1. /\ CallOK(call[c]) /\ call[c].pc = "replace" /\ call[c].server \in Server
      /\ UNCHANGED <<rows, closed, client, shut, taken, ops>>
      /\ rows' \in [Server -> Row] /\ ops' \in Nat
  BY CallKnown DEF IInv, TypeOK, Replace
<1>2. call[c].held # None /\ Grip(c) = call[c].held
  BY <1>1 DEF CallOK, Grip, GripOf
<1>3. CASE Goto(c, "drop") /\ UNCHANGED conns
  <2> DEFINE r == [call[c] EXCEPT !.pc = "drop"]
  <2>1. r \in CallState
    BY <1>1, CallUpdates, Zenon DEF CallOK, Pc
  <2>2. r.pc = "drop" /\ r.server = call[c].server /\ r.held = call[c].held
    BY <1>1 DEF CallOK, CallState
  <2>3. CallOK(r) /\ GripOf(r) = Grip(c)
    BY <1>1, <1>2, <2>1, <2>2 DEF CallOK, GripOf
  <2>4. call' = [call EXCEPT ![c] = r]
    BY <1>3 DEF Goto
  <2> HIDE DEF r
  <2> QED BY <1>1, <1>3, <2>2, <2>3, <2>4, PassingStep
<1>4. CASE /\ ~closed
           /\ conns' = [conns EXCEPT ![call[c].server] =
                          [client |-> call[c].held, state |-> "connected"]]
           /\ DropOf(c, conns[call[c].server].client)
  <2>1. [client |-> call[c].held, state |-> "connected"] \in Entry
    BY <1>1, CallFields DEF CallOK, Entry, State
  <2> QED BY <1>1, <1>2, <1>4, <2>1, ExchangeStep DEF At
<1> QED BY <1>3, <1>4 DEF Replace

\* CloseServer.
LEMMA CloseServerStep ==
  ASSUME IInv, NEW c \in Caller, CloseServer(c)
  PROVE  IInv'
<1>1. /\ CallOK(call[c]) /\ call[c].pc = "close" /\ call[c].server \in Server
      /\ UNCHANGED <<rows, closed, client, shut, taken, ops>>
  BY CallKnown DEF IInv, CloseServer
<1>2. Grip(c) = None
  BY <1>1 DEF Grip, GripOf
<1>3. CASE closed
  BY <1>1, <1>2, <1>3, EndStep DEF CloseServer
<1>4. CASE ~closed
  <2>1. PICK state \in {"disabled", "disconnected"} :
          conns' = [conns EXCEPT ![call[c].server] = [client |-> None, state |-> state]]
    BY <1>4 DEF CloseServer
  <2>2. [client |-> None, state |-> state] \in Entry
    BY DEF Entry, State
  <2>3. DropOf(c, At(call[c].server))
    BY <1>4 DEF CloseServer, At
  <2> QED BY <1>1, <1>2, <1>4, <2>1, <2>2, <2>3, ExchangeStep
<1> QED BY <1>3, <1>4

\* A tool call ends.
LEMMA EndCallStep ==
  ASSUME IInv, NEW c \in Caller, EndCall(c)
  PROVE  IInv'
BY EndStep DEF EndCall, Grip, GripOf

-----------------------------------------------------------------------------
(* The steps of the end of the gateway.                                    *)

\* Close takes every connection of the table at once.
LEMMA CloseStep ==
  ASSUME IInv, Close
  PROVE  IInv'
<1>1. /\ ~closed /\ closed' = TRUE /\ shut' = "wait"
      /\ taken' = {At(s) : s \in Server} \ {None}
      /\ conns' = [s \in Server |->
           [client |-> None, state |-> IF conns[s].state = "none" THEN "none" ELSE "closed"]]
      /\ UNCHANGED <<rows, client, call, ops>>
  BY DEF Close, At
<1>2. /\ \A s \in Server : At(s) \in Client \cup {None} /\ conns[s].state \in State
      /\ \A s \in Server : At(s)' = None /\ conns'[s].state \in {"none", "closed"}
      /\ \A c \in Caller : Grip(c)' = Grip(c)
  BY <1>1 DEF IInv, TypeOK, Entry, At, Grip
<1>3. conns' \in [Server -> Entry]
  BY <1>1 DEF Entry, State
<1>4. TypeOK'
  BY <1>1, <1>2, <1>3 DEF IInv, TypeOK
<1>5. Own'
  <2>1. \A k \in taken' : client'[k] = "open" /\ \A c \in Caller : Grip(c)' # k
    BY <1>1, <1>2 DEF IInv, Own
  <2>2. ASSUME NEW k \in Client, client[k] = "open"
        PROVE  (\E c \in Caller : Grip(c)' = k) \/ k \in taken'
    BY <1>1, <1>2, <2>2, McpAssumption DEF IInv, Own
  <2> QED BY <1>1, <1>2, <2>1, <2>2 DEF IInv, Own
<1>6. ShutInv' /\ StatusAgrees'
  BY <1>1, <1>2 DEF ShutInv, CallsEndBeforeClose, StatusAgrees, At
<1> QED BY <1>4, <1>5, <1>6 DEF IInv

\* No call is in flight any more.
LEMMA EndWaitStep ==
  ASSUME IInv, EndWait
  PROVE  IInv'
<1>1. /\ shut = "wait" /\ shut' = "closing" /\ Calling = {}
      /\ UNCHANGED <<rows, conns, closed, client, call, taken, ops>>
  BY DEF EndWait
<1>2. TypeOK'
  BY <1>1 DEF IInv, TypeOK
<1>3. Own'
  BY <1>1, OwnStays DEF IInv, Grip, At
<1>4. ShutInv' /\ StatusAgrees'
  BY <1>1 DEF IInv, ShutInv, CallsEndBeforeClose, Calling, StatusAgrees
<1> QED BY <1>2, <1>3, <1>4 DEF IInv

\* Close closes what it took, one connection after the other.
LEMMA CloseTakenStep ==
  ASSUME IInv, CloseTaken
  PROVE  IInv'
<1>1. /\ shut = "closing" /\ shut' \in {"closing", "done"}
      /\ UNCHANGED <<rows, conns, closed, call, ops>>
  BY DEF CloseTaken, IInv, TypeOK
<1>2. ShutInv' /\ StatusAgrees'
  BY <1>1 DEF IInv, ShutInv, CallsEndBeforeClose, Calling, StatusAgrees
<1>3. /\ \A s \in Server : At(s)' = At(s)
      /\ \A c \in Caller : Grip(c)' = Grip(c)
  BY <1>1 DEF At, Grip
<1>4. CASE UNCHANGED <<client, taken>>
  <2>1. Own'
    BY <1>1, <1>3, <1>4, OwnStays DEF IInv
  <2>2. TypeOK'
    BY <1>1, <1>4 DEF IInv, TypeOK
  <2> QED BY <1>2, <2>1, <2>2 DEF IInv
<1>5. ASSUME NEW k \in taken, client' = [client EXCEPT ![k] = "closed"], taken' = taken \ {k}
      PROVE  IInv'
  <2>1. /\ client \in [Client -> {"unused", "open", "closed"}]
        /\ k \in Client /\ taken \subseteq Client
    BY DEF IInv, TypeOK
  <2>2. /\ client'[k] = "closed"
        /\ \A l \in Client \ {k} : client'[l] = client[l]
    BY <1>5, <2>1
  <2>3. TypeOK'
    BY <1>1, <1>5, <2>1 DEF IInv, TypeOK
  <2>4. closed /\ \A s \in Server : At(s) = None
    BY <1>1 DEF IInv, ShutInv, Own
  <2>5. \A c \in Caller : Grip(c) # k /\ (Grip(c) # None => Grip(c) \in Client)
    BY <2>1, CallFields DEF IInv, TypeOK, Own, Grip, GripOf
  <2>6. Own'
    BY <1>1, <1>3, <1>5, <2>1, <2>2, <2>4, <2>5 DEF IInv, Own
  <2> QED BY <1>2, <2>3, <2>6 DEF IInv
<1> QED BY <1>4, <1>5 DEF CloseTaken

-----------------------------------------------------------------------------
\* The manager starts with an empty table.
LEMMA InitIInv == Init => IInv
<1> SUFFICES ASSUME Init PROVE IInv
  OBVIOUS
<1>1. /\ \A c \in Caller : Grip(c) = None /\ call[c] = Rest
      /\ \A s \in Server : At(s) = None
  BY RestOK DEF Init, Grip, At
<1>2. TypeOK
  <2>1. rows \in [Server -> Row] /\ conns \in [Server -> Entry] /\ call \in [Caller -> CallState]
    BY McpAssumption, RestOK DEF Init, Entry, State, CallOK
  <2> QED BY <1>1, <2>1, RestOK DEF Init, TypeOK, CallOK
<1>3. Own
  BY <1>1 DEF Init, Own
<1>4. ShutInv /\ StatusAgrees
  BY DEF Init, ShutInv, CallsEndBeforeClose, StatusAgrees
<1> QED BY <1>2, <1>3, <1>4 DEF IInv

\* Every step keeps the inductive invariant.
LEMMA NextIInv == IInv /\ [Next]_vars => IInv'
<1> SUFFICES ASSUME IInv, [Next]_vars PROVE IInv'
  OBVIOUS
<1>1. ASSUME NEW c \in Caller, Serve(c) PROVE IInv'
  BY <1>1, SaveStep, RowSteps, CallToolStep DEF Serve
<1>2. ASSUME NEW c \in Caller, Step(c) PROVE IInv'
  BY <1>2, ReadSteps, ResolveStep, ReplaceStep, CloseServerStep, DropStep DEF Step
<1>3. ASSUME NEW c \in Caller, Connect(c) \/ List(c) \/ EndCall(c) PROVE IInv'
  BY <1>3, ConnectStep, ListStep, EndCallStep
<1>4. CASE Close \/ Shut
  BY <1>4, CloseStep, EndWaitStep, CloseTakenStep DEF Shut
<1>5. CASE UNCHANGED vars
  <2>1. UNCHANGED <<rows, conns, closed, client, call, shut, taken, ops>>
    BY <1>5 DEF vars
  <2>2. Own'
    BY <2>1, OwnStays DEF IInv, Grip, At
  <2>3. TypeOK' /\ ShutInv' /\ StatusAgrees'
    BY <2>1 DEF IInv, TypeOK, ShutInv, CallsEndBeforeClose, Calling, StatusAgrees
  <2> QED BY <2>2, <2>3 DEF IInv
<1> QED BY <1>1, <1>2, <1>3, <1>4, <1>5 DEF Next

\* The inductive invariant holds for ever.
THEOREM McpInvariance == Spec => []IInv
BY InitIInv, NextIInv, PTL DEF Spec

\* The variables keep their types, and a goroutine holds a connection just
\* while it lists, replaces, drops or calls.
THEOREM McpTypes == Spec => []TypeOK
<1>1. IInv => TypeOK
  BY DEF IInv
<1> QED BY <1>1, McpInvariance, PTL

\* The places of Own are those of the properties.
LEMMA GripHolds ==
  ASSUME TypeOK, NEW c \in Caller, NEW k \in Client
  PROVE  Holds(c, k) <=> Grip(c) = k
BY McpAssumption DEF TypeOK, Holds, Grip, GripOf

\* However many refreshes, deletions and retries overlap with the end of the
\* manager, an open connection is always somebody's to close.
THEOREM ClientsAreKept == Spec => []NoClientLost
<1>1. IInv => NoClientLost
  BY GripHolds DEF IInv, Own, NoClientLost, Open, At
<1> QED BY <1>1, McpInvariance, PTL

\* And it is one goroutine's, or one entry's, only.
THEOREM OneOwnerEach == Spec => []OneOwner
<1>1. ASSUME IInv PROVE OneOwner
  <2>1. ASSUME NEW s \in Server, At(s) # None
        PROVE  /\ At(s) \in Client /\ client[At(s)] = "open" /\ ~closed
               /\ \A c \in Caller : ~Holds(c, At(s))
               /\ \A t \in Server \ {s} : At(t) # At(s)
    <3>1. At(s) \in Client
      BY <2>1, <1>1 DEF IInv, TypeOK, Entry, At
    <3> QED BY <1>1, <2>1, <3>1, GripHolds DEF IInv, Own
  <2>2. ASSUME NEW k \in taken
        PROVE  client[k] = "open" /\ \A c \in Caller : ~Holds(c, k)
    BY <1>1, GripHolds DEF IInv, Own, TypeOK
  <2> QED BY <2>1, <2>2 DEF OneOwner, Open, At
<1> QED BY <1>1, McpInvariance, PTL

\* Close never closes a connection under a tool call that it waits for.
THEOREM CallsEndFirst == Spec => []CallsEndBeforeClose
<1>1. IInv => CallsEndBeforeClose
  BY DEF IInv, ShutInv
<1> QED BY <1>1, McpInvariance, PTL

\* The state an entry shows agrees with whether it has a connection.
THEOREM StatusIsTrue == Spec => []StatusAgrees
<1>1. IInv => StatusAgrees
  BY DEF IInv
<1> QED BY <1>1, McpInvariance, PTL

-----------------------------------------------------------------------------
(* The manager implements ConnectionPromise.  The places of Own are the    *)
(* lives of the promise, so a step is followed by what it moves.           *)

Use(c) == IF call[c].pc = "calling" THEN call[c].held ELSE None

Told ==
  \A k \in Client :
    /\ client[k] # "open" => LifeOf(k) = client[k]
    /\ \A s \in Server : At(s) = k => LifeOf(k) = "serving"
    /\ k \in taken => LifeOf(k) = "last"
    /\ \A c \in Caller : Grip(c) = k => LifeOf(k) = IF call[c].pc = "drop" THEN "retired" ELSE "new"

\* Where an open connection is says what life it leads.
LEMMA LivesTold == IInv => Told
<1> SUFFICES ASSUME IInv, NEW k \in Client
             PROVE  /\ client[k] # "open" => LifeOf(k) = client[k]
                    /\ \A s \in Server : At(s) = k => LifeOf(k) = "serving"
                    /\ k \in taken => LifeOf(k) = "last"
                    /\ \A c \in Caller : Grip(c) = k =>
                         LifeOf(k) = IF call[c].pc = "drop" THEN "retired" ELSE "new"
  BY DEF Told
<1>1. k # None
  BY McpAssumption
<1>2. client[k] # "open" => LifeOf(k) = client[k]
  BY DEF LifeOf, Open
<1>3. ASSUME NEW s \in Server, At(s) = k PROVE LifeOf(k) = "serving"
  BY <1>1, <1>3 DEF LifeOf, Open, At, IInv, Own
<1>4. k \in taken => LifeOf(k) = "last"
  BY <1>1 DEF LifeOf, Open, At, IInv, Own
<1>5. ASSUME NEW c \in Caller, Grip(c) = k
      PROVE  LifeOf(k) = IF call[c].pc = "drop" THEN "retired" ELSE "new"
  <2>1. /\ client[k] = "open" /\ k \notin taken
        /\ \A s \in Server : conns[s].client # k
    BY <1>1, <1>5 DEF IInv, Own, At
  <2>2. call[c].held = k /\ call[c].pc \in {"list", "replace", "drop"}
    BY <1>1, <1>5 DEF Grip, GripOf
  <2>3. ASSUME NEW d \in Caller, call[d].held = k, call[d].pc \in {"list", "replace", "drop"}
        PROVE  d = c
    BY <1>1, <1>5, <2>3 DEF Grip, GripOf, IInv, Own
  <2> QED BY <2>1, <2>2, <2>3 DEF LifeOf, Open
<1> QED BY <1>2, <1>3, <1>4, <1>5

LEMMA LivesToldNext == IInv' => Told'
BY LivesTold, PTL

\* A connection that stays where it is leads the life it led.
LEMMA LifeStays ==
  ASSUME IInv, IInv', NEW c \in Caller, \A d \in Caller \ {c} : call'[d] = call[d],
         NEW k \in Client, client'[k] = client[k], Grip(c) # k,
         \A s \in Server : At(s) = k => At(s)' = k, taken' = taken
  PROVE  LifeOf(k)' = LifeOf(k)
<1>1. Told /\ Told'
  BY LivesTold, LivesToldNext
<1>2. CASE client[k] # "open"
  BY <1>1, <1>2 DEF Told
<1>3. ASSUME NEW s \in Server, At(s) = k PROVE LifeOf(k)' = LifeOf(k)
  BY <1>1, <1>3 DEF Told
<1>4. CASE k \in taken
  BY <1>1, <1>4 DEF Told
<1>5. ASSUME NEW d \in Caller, Grip(d) = k PROVE LifeOf(k)' = LifeOf(k)
  <2>1. call'[d] = call[d] /\ Grip(d)' = k
    BY <1>5 DEF Grip
  <2> QED BY <1>1, <1>5, <2>1 DEF Told
<1> QED BY <1>2, <1>3, <1>4, <1>5 DEF IInv, Own

\* The steps of the promise, told by what they move.
LEMMA PromiseStutters ==
  ASSUME \A k \in Client : LifeOf(k)' = LifeOf(k), \A s \in Server : At(s)' = At(s),
         \A c \in Caller : Use(c)' = Use(c), closed' = closed
  PROVE  UNCHANGED Promise!vars
BY DEF Promise!vars, At, Use

LEMMA PromiseMake ==
  ASSUME NEW k \in Client, LifeOf(k) = "unused", LifeOf(k)' = "new",
         \A l \in Client \ {k} : LifeOf(l)' = LifeOf(l), \A s \in Server : At(s)' = At(s),
         \A c \in Caller : Use(c)' = Use(c), closed' = closed
  PROVE  Promise!Next
BY DEF Promise!Next, Promise!Make, At, Use

LEMMA PromiseServe ==
  ASSUME NEW s \in Server, NEW k \in Client, ~closed, LifeOf(k) = "new", LifeOf(k)' = "serving",
         \A l \in Client \ {k} : LifeOf(l)' = IF l = At(s) THEN "retired" ELSE LifeOf(l),
         At(s)' = k, \A t \in Server \ {s} : At(t)' = At(t),
         \A c \in Caller : Use(c)' = Use(c), closed' = closed
  PROVE  Promise!Next
<1>1. [l \in Client |-> LifeOf(l)]' =
        [l \in Client |-> IF l = k THEN "serving" ELSE IF l = [t \in Server |-> conns[t].client][s]
                          THEN "retired" ELSE [m \in Client |-> LifeOf(m)][l]]
  <2>1. [t \in Server |-> conns[t].client][s] = At(s)
    BY DEF At
  <2>2. \A l \in Client : LifeOf(l)' = IF l = k THEN "serving" ELSE IF l = At(s) THEN "retired" ELSE LifeOf(l)
    OBVIOUS
  <2> QED BY <2>1, <2>2
<1>2. [t \in Server |-> conns[t].client]' = [[t \in Server |-> conns[t].client] EXCEPT ![s] = k]
  <2>1. \A t \in Server : conns'[t].client = IF t = s THEN k ELSE conns[t].client
    BY DEF At
  <2> QED BY <2>1
<1>3. Promise!Serve(s, k)
  BY <1>1, <1>2 DEF Promise!Serve, Use
<1> QED BY <1>3 DEF Promise!Next

LEMMA PromiseWithdraw ==
  ASSUME NEW s \in Server, ~closed,
         \A l \in Client : LifeOf(l)' = IF l = At(s) THEN "retired" ELSE LifeOf(l),
         At(s)' = None, \A t \in Server \ {s} : At(t)' = At(t),
         \A c \in Caller : Use(c)' = Use(c), closed' = closed
  PROVE  Promise!Next
<1>1. Promise!Withdraw(s)
  BY DEF Promise!Withdraw, At, Use
<1> QED BY <1>1 DEF Promise!Next

LEMMA PromiseComeTooLate ==
  ASSUME NEW k \in Client, closed, LifeOf(k) = "new", LifeOf(k)' = "retired",
         \A l \in Client \ {k} : LifeOf(l)' = LifeOf(l), \A s \in Server : At(s)' = At(s),
         \A c \in Caller : Use(c)' = Use(c), closed' = closed
  PROVE  Promise!Next
BY DEF Promise!Next, Promise!ComeTooLate, At, Use

LEMMA PromiseDiscard ==
  ASSUME NEW k \in Client, LifeOf(k) \in {"new", "retired"}, LifeOf(k)' = "closed",
         \A l \in Client \ {k} : LifeOf(l)' = LifeOf(l), \A s \in Server : At(s)' = At(s),
         \A c \in Caller : Use(c)' = Use(c), closed' = closed
  PROVE  Promise!Next
BY DEF Promise!Next, Promise!Discard, At, Use

LEMMA PromiseCallTool ==
  ASSUME NEW c \in Caller, NEW s \in Server, ~closed, Use(c) = None, At(s) # None, Use(c)' = At(s),
         \A k \in Client : LifeOf(k)' = LifeOf(k), \A t \in Server : At(t)' = At(t),
         \A d \in Caller \ {c} : Use(d)' = Use(d), closed' = closed
  PROVE  Promise!Next
<1>1. Promise!CallTool(c, s)
  BY DEF Promise!CallTool, At, Use
<1> QED BY <1>1 DEF Promise!Next

LEMMA PromiseReturn ==
  ASSUME NEW c \in Caller, Use(c) # None, Use(c)' = None,
         \A k \in Client : LifeOf(k)' = LifeOf(k), \A t \in Server : At(t)' = At(t),
         \A d \in Caller \ {c} : Use(d)' = Use(d), closed' = closed
  PROVE  Promise!Next
<1>1. Promise!Return(c)
  BY DEF Promise!Return, At, Use
<1> QED BY <1>1 DEF Promise!Next

LEMMA PromiseEnd ==
  ASSUME ~closed, closed' = TRUE,
         \A l \in Client : LifeOf(l)' = IF LifeOf(l) = "serving" THEN "last" ELSE LifeOf(l),
         \A t \in Server : At(t)' = None, \A c \in Caller : Use(c)' = Use(c)
  PROVE  Promise!Next
<1>1. Promise!End
  BY DEF Promise!End, At, Use
<1> QED BY <1>1 DEF Promise!Next

LEMMA PromiseCloseLast ==
  ASSUME NEW k \in Client, LifeOf(k) = "last", LifeOf(k)' = "closed", \A c \in Caller : Use(c) = None,
         \A l \in Client \ {k} : LifeOf(l)' = LifeOf(l), \A s \in Server : At(s)' = At(s),
         \A c \in Caller : Use(c)' = Use(c), closed' = closed
  PROVE  Promise!Next
BY DEF Promise!Next, Promise!CloseLast, At, Use

\* What a goroutine's own steps do to the calls.
LEMMA CallsAfter ==
  ASSUME TypeOK, NEW c \in Caller
  PROVE  /\ \A p, s : Enter(c, s, p) =>
              call'[c].held = call[c].held /\ \A d \in Caller \ {c} : call'[d] = call[d]
         /\ \A p : Goto(c, p) => /\ call'[c].held = call[c].held /\ call'[c].pc = p
                                 /\ \A d \in Caller \ {c} : call'[d] = call[d]
         /\ End(c) => /\ call'[c].held = None /\ call'[c].pc = "idle"
                      /\ \A d \in Caller \ {c} : call'[d] = call[d]
<1>1. call \in [Caller -> CallState] /\ call[c] \in CallState
  BY DEF TypeOK
<1>2. ASSUME NEW p, NEW s, Enter(c, s, p)
      PROVE  call'[c].held = call[c].held /\ \A d \in Caller \ {c} : call'[d] = call[d]
  BY <1>1, <1>2 DEF Enter, CallState
<1>3. ASSUME NEW p, Goto(c, p)
      PROVE  /\ call'[c].held = call[c].held /\ call'[c].pc = p
             /\ \A d \in Caller \ {c} : call'[d] = call[d]
  BY <1>1, <1>3 DEF Goto, CallState
<1>4. ASSUME End(c)
      PROVE  /\ call'[c].held = None /\ call'[c].pc = "idle"
             /\ \A d \in Caller \ {c} : call'[d] = call[d]
  BY <1>1, <1>4 DEF End, Rest
<1> QED BY <1>2, <1>3, <1>4

\* A goroutine that holds nothing, before and after, is not seen.
LEMMA UnseenStep ==
  ASSUME IInv, IInv', NEW c \in Caller, \A d \in Caller \ {c} : call'[d] = call[d],
         call[c].held = None, call'[c].held = None, \A s \in Server : At(s)' = At(s),
         UNCHANGED <<closed, client, taken>>
  PROVE  UNCHANGED Promise!vars
<1>1. Grip(c) = None
  BY DEF Grip, GripOf
<1>2. \A k \in Client : LifeOf(k)' = LifeOf(k)
  BY <1>1, McpAssumption, LifeStays
<1>3. \A d \in Caller : Use(d)' = Use(d)
  BY DEF Use
<1> QED BY <1>2, <1>3, PromiseStutters

LEMMA EntryUnseen ==
  ASSUME IInv, IInv', NEW c \in Caller, NEW s \in Server,
         Save(c, s) \/ Delete(c, s) \/ SetStatus(c, s) \/ Refresh(c, s)
  PROVE  UNCHANGED Promise!vars
<1>1. /\ call[c].held = None
      /\ UNCHANGED <<conns, closed, client, taken>>
  BY DEF IInv, TypeOK, Save, Delete, SetStatus, Refresh, Begin
<1>2. call'[c].held = None /\ \A d \in Caller \ {c} : call'[d] = call[d]
  BY <1>1, CallsAfter DEF IInv, Save, Delete, SetStatus, Refresh
<1>3. \A t \in Server : At(t)' = At(t)
  BY <1>1 DEF At
<1> QED BY <1>1, <1>2, <1>3, UnseenStep

LEMMA ReadingUnseen ==
  ASSUME IInv, IInv', NEW c \in Caller, Reread(c) \/ Get(c)
  PROVE  UNCHANGED Promise!vars
<1>1. /\ call[c].held = None /\ call \in [Caller -> CallState]
      /\ UNCHANGED <<conns, closed, client, taken>>
  BY DEF IInv, TypeOK, Reread, Get
<1>2. CASE Goto(c, "get") \/ End(c)
  BY <1>1, <1>2, CallsAfter, UnseenStep DEF IInv, At
<1>3. CASE call' = [call EXCEPT ![c].pc = "resolve", ![c].row = rows[call[c].server]]
  <2>1. call'[c].held = None /\ \A d \in Caller \ {c} : call'[d] = call[d]
    BY <1>1, <1>3 DEF CallState
  <2> QED BY <1>1, <2>1, UnseenStep DEF At
<1> QED BY <1>2, <1>3 DEF Reread, Get

LEMMA ResolveUnseen ==
  ASSUME IInv, IInv', NEW c \in Caller, Resolve(c)
  PROVE  UNCHANGED Promise!vars
<1>1. /\ call[c].held = None /\ call \in [Caller -> CallState] /\ call[c].pc # "idle"
      /\ conns \in [Server -> Entry]
      /\ UNCHANGED <<closed, client, taken>>
  BY DEF IInv, TypeOK, Resolve
<1>2. CASE RecordFailure(c) /\ End(c)
  BY <1>1, <1>2, CallsAfter, FailureStep, UnseenStep DEF IInv
<1>3. CASE (Goto(c, "close") \/ End(c)) /\ UNCHANGED conns
  BY <1>1, <1>3, CallsAfter, UnseenStep DEF IInv, At
<1>4. CASE /\ conns' = [conns EXCEPT ![call[c].server].state = "connecting"]
           /\ call' = [call EXCEPT ![c].pc = "connect", ![c].tries = 1]
  <2>1. call'[c].held = None /\ \A d \in Caller \ {c} : call'[d] = call[d]
    BY <1>1, <1>4 DEF CallState
  <2>2. \A s \in Server : At(s)' = At(s)
    BY <1>1, <1>4 DEF Entry, At
  <2> QED BY <1>1, <2>1, <2>2, UnseenStep
<1> QED BY <1>2, <1>3, <1>4 DEF Resolve

\* A connection is made.
LEMMA ConnectKept ==
  ASSUME IInv, IInv', NEW c \in Caller, Connect(c)
  PROVE  [Promise!Next]_(Promise!vars)
<1>1. /\ call[c].held = None /\ call \in [Caller -> CallState] /\ call[c].pc = "connect"
      /\ client \in [Client -> {"unused", "open", "closed"}]
      /\ UNCHANGED <<closed, taken>>
  BY DEF IInv, TypeOK, Connect
<1>2. CASE RecordFailure(c) /\ End(c) /\ UNCHANGED client
  BY <1>1, <1>2, CallsAfter, FailureStep, UnseenStep DEF IInv
<1>3. ASSUME NEW k \in Client, client[k] = "unused", client' = [client EXCEPT ![k] = "open"],
             call' = [call EXCEPT ![c].pc = "list", ![c].held = k], UNCHANGED conns
      PROVE  Promise!Next
  <2>1. /\ call'[c].pc = "list" /\ call'[c].held = k
        /\ \A d \in Caller \ {c} : call'[d] = call[d]
    BY <1>1, <1>3 DEF CallState
  <2>2. Grip(c)' = k /\ Grip(c) = None
    BY <1>1, <2>1 DEF Grip, GripOf
  <2>3. LifeOf(k) = "unused" /\ LifeOf(k)' = "new"
    <3>1. Told /\ Told'
      BY LivesTold, LivesToldNext
    <3> QED BY <1>3, <2>1, <2>2, <3>1 DEF Told
  <2>4. \A s \in Server : At(s)' = At(s)
    BY <1>3 DEF At
  <2>5. ASSUME NEW l \in Client \ {k} PROVE LifeOf(l)' = LifeOf(l)
    <3>1. client'[l] = client[l] /\ Grip(c) # l
      BY <1>1, <1>3, <2>2, McpAssumption
    <3> QED BY <1>1, <2>1, <2>4, <3>1, LifeStays
  <2>6. \A d \in Caller : Use(d)' = Use(d)
    BY <1>1, <2>1 DEF Use
  <2> QED BY <1>1, <2>3, <2>4, <2>5, <2>6, PromiseMake
<1> QED BY <1>2, <1>3 DEF Connect

\* The connection a goroutine holds is closed.
LEMMA ClosingKept ==
  ASSUME IInv, IInv', NEW c \in Caller, NEW k, k = Grip(c), k # None, Grip(c)' = None,
         call'[c].pc # "calling", \A d \in Caller \ {c} : call'[d] = call[d],
         client' = [client EXCEPT ![k] = "closed"], \A s \in Server : At(s)' = At(s),
         UNCHANGED <<closed, taken>>
  PROVE  Promise!Next
<1>1. /\ client \in [Client -> {"unused", "open", "closed"}] /\ k \in Client
      /\ call[c].pc # "calling"
  BY CallFields DEF IInv, TypeOK, Grip, GripOf
<1>2. LifeOf(k) \in {"new", "retired"} /\ LifeOf(k)' = "closed"
  <2>1. Told /\ Told' /\ client'[k] = "closed"
    BY <1>1, LivesTold, LivesToldNext
  <2> QED BY <1>1, <2>1 DEF Told
<1>3. ASSUME NEW l \in Client \ {k} PROVE LifeOf(l)' = LifeOf(l)
  <2>1. client'[l] = client[l] /\ Grip(c) # l
    BY <1>1
  <2> QED BY <2>1, LifeStays
<1>4. \A d \in Caller : Use(d)' = Use(d)
  BY <1>1 DEF Use
<1> QED BY <1>1, <1>2, <1>3, <1>4, PromiseDiscard

LEMMA ListKept ==
  ASSUME IInv, IInv', NEW c \in Caller, List(c)
  PROVE  [Promise!Next]_(Promise!vars)
<1>1. /\ call[c].pc = "list" /\ call \in [Caller -> CallState] /\ call[c].held # None
      /\ UNCHANGED <<closed, taken>>
  BY DEF IInv, TypeOK, List
<1>2. Grip(c) = call[c].held /\ Use(c) = None
  BY <1>1 DEF Grip, GripOf, Use
<1>3. CASE Goto(c, "replace") /\ UNCHANGED <<conns, client>>
  <2>1. /\ call'[c].held = call[c].held /\ call'[c].pc = "replace"
        /\ \A d \in Caller \ {c} : call'[d] = call[d]
    BY <1>3, CallsAfter DEF IInv
  <2>2. Grip(c)' = Grip(c) /\ \A s \in Server : At(s)' = At(s)
    BY <1>2, <1>3, <2>1 DEF Grip, GripOf, At
  <2>3. ASSUME NEW k \in Client PROVE LifeOf(k)' = LifeOf(k)
    <3>1. CASE Grip(c) # k
      BY <1>1, <1>3, <2>1, <2>2, <3>1, LifeStays
    <3>2. CASE Grip(c) = k
      <4>1. Told /\ Told'
        BY LivesTold, LivesToldNext
      <4> QED BY <1>1, <2>1, <2>2, <3>2, <4>1 DEF Told
    <3> QED BY <3>1, <3>2
  <2>4. \A d \in Caller : Use(d)' = Use(d)
    BY <1>1, <2>1 DEF Use
  <2> QED BY <1>1, <2>2, <2>3, <2>4, PromiseStutters
<1>4. CASE /\ client' = [client EXCEPT ![call[c].held] = "closed"]
           /\ call' = [call EXCEPT ![c].pc = "connect", ![c].held = None, ![c].tries = 2]
           /\ UNCHANGED conns
  <2>1. /\ call'[c].pc = "connect" /\ \A d \in Caller \ {c} : call'[d] = call[d]
    BY <1>1, <1>4 DEF CallState
  <2>2. Grip(c)' = None /\ \A s \in Server : At(s)' = At(s)
    BY <1>4, <2>1 DEF Grip, GripOf, At
  <2> QED BY <1>1, <1>2, <1>4, <2>1, <2>2, ClosingKept
<1>5. CASE client' = [client EXCEPT ![call[c].held] = "closed"] /\ RecordFailure(c) /\ End(c)
  <2>1. /\ call'[c].pc = "idle" /\ \A d \in Caller \ {c} : call'[d] = call[d]
    BY <1>5, CallsAfter DEF IInv
  <2>2. Grip(c)' = None /\ \A s \in Server : At(s)' = At(s)
    BY <1>1, <1>5, FailureStep
  <2> QED BY <1>1, <1>2, <1>5, <2>1, <2>2, ClosingKept
<1> QED BY <1>3, <1>4, <1>5 DEF List

LEMMA DropKept ==
  ASSUME IInv, IInv', NEW c \in Caller, Drop(c)
  PROVE  Promise!Next
<1>1. /\ call[c].pc = "drop" /\ call[c].held # None
      /\ client' = [client EXCEPT ![call[c].held] = "closed"]
      /\ UNCHANGED <<conns, closed, taken>>
  BY DEF IInv, TypeOK, Drop
<1>2. /\ call'[c].pc = "idle" /\ \A d \in Caller \ {c} : call'[d] = call[d]
  BY CallsAfter DEF IInv, Drop
<1>3. Grip(c) = call[c].held /\ Grip(c)' = None /\ \A s \in Server : At(s)' = At(s)
  BY <1>1, <1>2 DEF Grip, GripOf, At
<1> QED BY <1>1, <1>2, <1>3, ClosingKept

\* An entry is exchanged: what it had is retired.
LEMMA ExchangeCalls ==
  ASSUME IInv, IInv', NEW c \in Caller, NEW s \in Server, call[c].pc \in {"replace", "close"},
         DropOf(c, At(s))
  PROVE  /\ Grip(c)' = At(s) /\ (At(s) # None => call'[c].pc = "drop") /\ Use(c)' = None
         /\ \A d \in Caller \ {c} : call'[d] = call[d]
<1>1. call \in [Caller -> CallState]
  BY DEF IInv, TypeOK
<1>2. CASE At(s) = None
  <2>1. /\ call'[c].pc = "idle" /\ \A d \in Caller \ {c} : call'[d] = call[d]
    BY <1>2, CallsAfter DEF DropOf, IInv
  <2> QED BY <1>2, <2>1 DEF Grip, GripOf, Use
<1>3. CASE At(s) # None
  <2>1. /\ call'[c].pc = "drop" /\ call'[c].held = At(s)
        /\ \A d \in Caller \ {c} : call'[d] = call[d]
    BY <1>1, <1>3 DEF DropOf, CallState
  <2> QED BY <1>3, <2>1 DEF Grip, GripOf, Use
<1> QED BY <1>2, <1>3

LEMMA ReplaceKept ==
  ASSUME IInv, IInv', NEW c \in Caller, Replace(c)
  PROVE  Promise!Next
<1>1. /\ call[c].pc = "replace" /\ call \in [Caller -> CallState] /\ call[c].server \in Server
      /\ call[c].held # None /\ call[c].held \in Client /\ conns \in [Server -> Entry]
      /\ UNCHANGED <<closed, client, taken>>
  BY CallKnown, CallFields DEF IInv, TypeOK, Replace
<1>2. Grip(c) = call[c].held /\ Use(c) = None
  BY <1>1 DEF Grip, GripOf, Use
<1>3. Told /\ Told'
  BY LivesTold, LivesToldNext
<1>4. LifeOf(call[c].held) = "new"
  BY <1>1, <1>2, <1>3 DEF Told
<1>5. CASE closed /\ Goto(c, "drop") /\ UNCHANGED conns
  <2>1. /\ call'[c].held = call[c].held /\ call'[c].pc = "drop"
        /\ \A d \in Caller \ {c} : call'[d] = call[d]
    BY <1>5, CallsAfter DEF IInv
  <2>2. PICK k \in Client : k = call[c].held
    BY <1>1
  <2>3. Grip(c)' = k /\ \A s \in Server : At(s)' = At(s)
    BY <1>1, <1>5, <2>1, <2>2 DEF Grip, GripOf, At
  <2>4. LifeOf(k)' = "retired"
    BY <1>3, <2>1, <2>3 DEF Told
  <2>5. ASSUME NEW l \in Client \ {k} PROVE LifeOf(l)' = LifeOf(l)
    BY <1>1, <1>2, <2>1, <2>2, <2>3, LifeStays
  <2>6. \A d \in Caller : Use(d)' = Use(d)
    BY <1>2, <2>1 DEF Use
  <2> QED BY <1>1, <1>4, <1>5, <2>2, <2>3, <2>4, <2>5, <2>6, PromiseComeTooLate
<1>6. CASE /\ ~closed
           /\ conns' = [conns EXCEPT ![call[c].server] =
                          [client |-> call[c].held, state |-> "connected"]]
           /\ DropOf(c, conns[call[c].server].client)
  <2>1. PICK s \in Server : s = call[c].server
    BY <1>1
  <2>2. PICK k \in Client : k = call[c].held
    BY <1>1
  <2>3. /\ Grip(c)' = At(s) /\ (At(s) # None => call'[c].pc = "drop") /\ Use(c)' = None
        /\ \A d \in Caller \ {c} : call'[d] = call[d]
    BY <1>1, <1>6, <2>1, ExchangeCalls DEF At
  <2>4. At(s)' = k /\ \A t \in Server \ {s} : At(t)' = At(t)
    BY <1>1, <1>6, <2>1, <2>2 DEF At
  <2>5. LifeOf(k)' = "serving"
    BY <1>3, <2>4 DEF Told
  <2>6. ASSUME NEW l \in Client \ {k}
        PROVE  LifeOf(l)' = IF l = At(s) THEN "retired" ELSE LifeOf(l)
    <3>1. CASE l = At(s)
      BY <1>3, <2>3, <3>1, McpAssumption DEF Told
    <3>2. CASE l # At(s)
      <4>1. Grip(c) # l /\ \A t \in Server : At(t) = l => At(t)' = l
        BY <1>2, <2>2, <2>4, <3>2
      <4> QED BY <1>1, <2>3, <3>2, <4>1, LifeStays
    <3> QED BY <3>1, <3>2
  <2>7. \A d \in Caller : Use(d)' = Use(d)
    BY <1>2, <2>3 DEF Use
  <2> QED BY <1>1, <1>4, <1>6, <2>2, <2>4, <2>5, <2>6, <2>7, PromiseServe
<1> QED BY <1>5, <1>6 DEF Replace

LEMMA CloseServerKept ==
  ASSUME IInv, IInv', NEW c \in Caller, CloseServer(c)
  PROVE  [Promise!Next]_(Promise!vars)
<1>1. /\ call[c].pc = "close" /\ call \in [Caller -> CallState] /\ call[c].server \in Server
      /\ call[c].held = None /\ conns \in [Server -> Entry]
      /\ UNCHANGED <<closed, client, taken>>
  BY CallKnown DEF IInv, TypeOK, CloseServer
<1>2. Grip(c) = None /\ Use(c) = None
  BY <1>1 DEF Grip, GripOf, Use
<1>3. CASE closed
  BY <1>1, <1>3, CallsAfter, UnseenStep DEF CloseServer, IInv, At
<1>4. CASE ~closed
  <2>1. PICK s \in Server : s = call[c].server
    BY <1>1
  <2>2. PICK state : conns' = [conns EXCEPT ![s] = [client |-> None, state |-> state]]
    BY <1>4, <2>1 DEF CloseServer
  <2>3. /\ Grip(c)' = At(s) /\ (At(s) # None => call'[c].pc = "drop") /\ Use(c)' = None
        /\ \A d \in Caller \ {c} : call'[d] = call[d]
    BY <1>1, <1>4, <2>1, ExchangeCalls DEF CloseServer, At
  <2>4. At(s)' = None /\ \A t \in Server \ {s} : At(t)' = At(t)
    BY <1>1, <2>2 DEF At
  <2>5. ASSUME NEW l \in Client
        PROVE  LifeOf(l)' = IF l = At(s) THEN "retired" ELSE LifeOf(l)
    <3>1. CASE l = At(s)
      <4>1. Told /\ Told'
        BY LivesTold, LivesToldNext
      <4> QED BY <2>3, <3>1, <4>1, McpAssumption DEF Told
    <3>2. CASE l # At(s)
      <4>1. Grip(c) # l /\ \A t \in Server : At(t) = l => At(t)' = l
        BY <1>2, <2>4, <3>2, McpAssumption
      <4> QED BY <1>1, <2>3, <3>2, <4>1, LifeStays
    <3> QED BY <3>1, <3>2
  <2>6. \A d \in Caller : Use(d)' = Use(d)
    BY <1>2, <2>3 DEF Use
  <2> QED BY <1>1, <1>4, <2>4, <2>5, <2>6, PromiseWithdraw
<1> QED BY <1>3, <1>4

\* Tool calls: the connections stay where they are.
LEMMA CallToolKept ==
  ASSUME IInv, IInv', NEW c \in Caller, NEW s \in Server, CallTool(c, s)
  PROVE  Promise!Next
<1>1. /\ call[c].pc = "idle" /\ call[c].held = None /\ call \in [Caller -> CallState]
      /\ ~closed /\ At(s) # None
      /\ UNCHANGED <<conns, closed, client, taken>>
  BY Zenon DEF IInv, TypeOK, CallTool, Begin, At
<1>2. /\ call'[c].pc = "calling" /\ call'[c].held = At(s)
      /\ \A d \in Caller \ {c} : call'[d] = call[d]
  BY <1>1 DEF CallTool, CallState, At
<1>3. Grip(c) = None /\ Use(c) = None /\ Use(c)' = At(s) /\ \A t \in Server : At(t)' = At(t)
  BY <1>1, <1>2 DEF Grip, GripOf, Use, At
<1>4. \A k \in Client : LifeOf(k)' = LifeOf(k)
  BY <1>1, <1>2, <1>3, McpAssumption, LifeStays
<1>5. \A d \in Caller \ {c} : Use(d)' = Use(d)
  BY <1>2 DEF Use
<1>6. UNCHANGED closed
  BY <1>1
<1> QED BY <1>1, <1>3, <1>4, <1>5, <1>6, PromiseCallTool, Zenon

LEMMA EndCallKept ==
  ASSUME IInv, IInv', NEW c \in Caller, EndCall(c)
  PROVE  Promise!Next
<1>1. /\ call[c].pc = "calling" /\ call[c].held # None
      /\ UNCHANGED <<conns, closed, client, taken>>
  BY DEF IInv, TypeOK, EndCall
<1>2. /\ call'[c].pc = "idle" /\ \A d \in Caller \ {c} : call'[d] = call[d]
  BY CallsAfter DEF IInv, EndCall
<1>3. Grip(c) = None /\ Use(c) # None /\ Use(c)' = None /\ \A t \in Server : At(t)' = At(t)
  BY <1>1, <1>2 DEF Grip, GripOf, Use, At
<1>4. \A k \in Client : LifeOf(k)' = LifeOf(k)
  BY <1>1, <1>2, <1>3, McpAssumption, LifeStays
<1>5. \A d \in Caller \ {c} : Use(d)' = Use(d)
  BY <1>2 DEF Use
<1> QED BY <1>1, <1>3, <1>4, <1>5, PromiseReturn

\* The end of the manager.
LEMMA CloseKept ==
  ASSUME IInv, IInv', Close
  PROVE  Promise!Next
<1>1. /\ ~closed /\ closed' = TRUE
      /\ taken' = {At(s) : s \in Server} \ {None}
      /\ \A s \in Server : At(s)' = None
      /\ UNCHANGED <<client, call>>
  BY DEF Close, At
<1>2. Told /\ Told' /\ taken = {}
  BY <1>1, LivesTold, LivesToldNext DEF IInv, Own
<1>3. ASSUME NEW k \in Client
      PROVE  LifeOf(k)' = IF LifeOf(k) = "serving" THEN "last" ELSE LifeOf(k)
  <2>1. CASE client[k] # "open"
    BY <1>1, <1>2, <2>1 DEF Told, IInv, TypeOK
  <2>2. ASSUME NEW s \in Server, At(s) = k
        PROVE  LifeOf(k) = "serving" /\ LifeOf(k)' = "last"
    BY <1>1, <1>2, <2>2, McpAssumption DEF Told
  <2>3. ASSUME NEW c \in Caller, Grip(c) = k
        PROVE  LifeOf(k) # "serving" /\ LifeOf(k)' = LifeOf(k)
    <3>1. Grip(c)' = k /\ call'[c].pc = call[c].pc
      BY <1>1, <2>3 DEF Grip
    <3> QED BY <1>2, <2>3, <3>1 DEF Told
  <2> QED BY <1>2, <2>1, <2>2, <2>3 DEF IInv, Own
<1>4. \A c \in Caller : Use(c)' = Use(c)
  BY <1>1 DEF Use
<1> QED BY <1>1, <1>3, <1>4, PromiseEnd

LEMMA CloseTakenKept ==
  ASSUME IInv, IInv', CloseTaken
  PROVE  [Promise!Next]_(Promise!vars)
<1>1. /\ \A s \in Server : At(s)' = At(s)
      /\ \A c \in Caller : Use(c)' = Use(c)
      /\ UNCHANGED <<conns, closed, call>>
  BY DEF CloseTaken, At, Use
<1>2. Told /\ Told'
  BY LivesTold, LivesToldNext
<1>3. CASE UNCHANGED <<client, taken>>
  <2>1. \A k \in Client : LifeOf(k)' = LifeOf(k)
    BY <1>1, <1>3 DEF LifeOf, Open
  <2> QED BY <1>1, <2>1, PromiseStutters
<1>4. ASSUME NEW k \in taken, client' = [client EXCEPT ![k] = "closed"], taken' = taken \ {k}
      PROVE  Promise!Next
  <2>1. /\ client \in [Client -> {"unused", "open", "closed"}] /\ k \in Client
        /\ client'[k] = "closed"
    BY <1>4 DEF IInv, TypeOK
  <2>2. LifeOf(k) = "last" /\ LifeOf(k)' = "closed"
    BY <1>2, <2>1 DEF Told
  <2>3. ASSUME NEW l \in Client \ {k} PROVE LifeOf(l)' = LifeOf(l)
    <3>1. client'[l] = client[l] /\ (l \in taken' <=> l \in taken)
      BY <1>4, <2>1
    <3> QED BY <1>1, <3>1 DEF LifeOf, Open
  <2>4. \A c \in Caller : Use(c) = None
    <3>1. Calling = {}
      BY DEF CloseTaken, IInv, ShutInv, CallsEndBeforeClose
    <3> QED BY <3>1 DEF Calling, Use
  <2> QED BY <1>1, <2>1, <2>2, <2>3, <2>4, PromiseCloseLast
<1> QED BY <1>3, <1>4 DEF CloseTaken

LEMMA EndWaitUnseen ==
  ASSUME EndWait
  PROVE  UNCHANGED Promise!vars
<1>1. \A k \in Client : LifeOf(k)' = LifeOf(k)
  BY DEF EndWait, LifeOf, Open
<1> QED BY <1>1, PromiseStutters DEF EndWait, At, Use

\* Every step of the manager is a step of the promise, or not seen.
LEMMA StepKept == IInv /\ IInv' /\ [Next]_vars => [Promise!Next]_(Promise!vars)
<1> SUFFICES ASSUME IInv, IInv', [Next]_vars PROVE [Promise!Next]_(Promise!vars)
  OBVIOUS
<1>1. ASSUME NEW c \in Caller, Serve(c) PROVE [Promise!Next]_(Promise!vars)
  BY <1>1, EntryUnseen, CallToolKept DEF Serve
<1>2. ASSUME NEW c \in Caller, Step(c) PROVE [Promise!Next]_(Promise!vars)
  BY <1>2, ReadingUnseen, ResolveUnseen, ReplaceKept, CloseServerKept, DropKept DEF Step
<1>3. ASSUME NEW c \in Caller, Connect(c) \/ List(c) \/ EndCall(c)
      PROVE  [Promise!Next]_(Promise!vars)
  BY <1>3, ConnectKept, ListKept, EndCallKept
<1>4. CASE Close \/ Shut
  BY <1>4, CloseKept, EndWaitUnseen, CloseTakenKept DEF Shut
<1>5. CASE UNCHANGED vars
  <2>1. \A k \in Client : LifeOf(k)' = LifeOf(k)
    BY <1>5 DEF vars, LifeOf, Open
  <2> QED BY <1>5, <2>1, PromiseStutters DEF vars, At, Use
<1> QED BY <1>1, <1>2, <1>3, <1>4, <1>5 DEF Next

\* The manager starts as the promise does.
LEMMA InitKept == Init => Promise!Init
<1> SUFFICES ASSUME Init PROVE Promise!Init
  OBVIOUS
<1>1. /\ \A k \in Client : LifeOf(k) = "unused"
      /\ \A s \in Server : conns[s].client = None
      /\ \A c \in Caller : call[c].pc = "idle"
      /\ closed = FALSE
  BY DEF Init, LifeOf, Open, Rest
<1> QED BY <1>1 DEF Promise!Init

\* The manager implements ConnectionPromise: whatever refreshes, deletions,
\* retries, tool calls and the end of the gateway overlap, a connection goes
\* from its making over the table to one closing, and none is closed last
\* under a call.
THEOREM ConnectionsArePromised == Spec => ConnectionsKeepPromise
<1>1. Spec => []IInv /\ Init /\ [][Next]_vars
  BY McpInvariance DEF Spec
<1> QED BY <1>1, StepKept, InitKept, PTL DEF ConnectionsKeepPromise, Promise!Spec
=============================================================================
