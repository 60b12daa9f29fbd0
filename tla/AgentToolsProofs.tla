-------------------------- MODULE AgentToolsProofs --------------------------
(***************************************************************************)
(* Proofs about the tools of an agent for every set of calls, requests,    *)
(* hosts, names, texts and skills: what a tool does is what the permission *)
(* mode and the user allow, no request goes to a refused target, and no    *)
(* name ever shows half a file.  Each component has an inductive invariant *)
(* of its own, GuardInv, NetInv, FileInv and SkillInv, and lemmas whose    *)
(* names begin like it; the theorems at the end put them together: a step  *)
(* of the tools is a step of one component, which leaves the others alone. *)
(***************************************************************************)
EXTENDS AgentTools, FiniteSetTheorems, SequenceTheorems, TLAPS

(* The way of a call through the policy to its effect.                     *)

GuardCall == {Guard!Idle} \cup [at : {"hook", "look", "policy", "ask", "before", "effect"}, req : Requests]

GuardVerdict(r) == Guard!Decide(mode, Guard!Risk(r))

GuardCleared(r) ==
  \/ r.tool \in Guard!Commands /\ GuardVerdict(r) = "allow"
  \/ r.tool = "run_shell" /\ GuardVerdict(r) = "request_approval" /\ r \in guardAgreed
  \/ r.tool = "read_file" /\ "inside" \in r.words /\ "secret" \notin r.words
  \/ r.tool \in Guard!Writes /\ "inside" \in r.words /\ GuardVerdict(r) # "block"

GuardTypes ==
  /\ mode \in Guard!Modes /\ hooked \in BOOLEAN /\ guardCalls \in 0..MaxCalls
  /\ guardCall \in [ToolCall -> GuardCall]
  /\ guardAgreed \subseteq Requests /\ guardDone \subseteq Requests

GuardSound ==
  /\ \A c \in ToolCall : guardCall[c].at \in {"before", "effect"} => GuardCleared(guardCall[c].req)
  /\ \A c \in ToolCall : guardCall[c].at = "ask" => guardCall[c].req.tool = "run_shell"
       /\ GuardVerdict(guardCall[c].req) = "request_approval"
  /\ \A r \in guardAgreed : r.tool = "run_shell" /\ GuardVerdict(r) = "request_approval"
  /\ \A k \in guardApproved : \E r \in guardAgreed : Guard!ApprovalKey(r) = k
  /\ \A r \in guardDone : GuardCleared(r)

GuardInv == GuardTypes /\ GuardSound

-----------------------------------------------------------------------------
\* What cleared a request is what its mode allows.
LEMMA GuardHonoured ==
  ASSUME mode \in Guard!Modes, NEW r \in Requests, r.tool \in Guard!Tools, GuardCleared(r)
  PROVE  LET words == r.words  command == r.tool \in Guard!Commands IN
         /\ mode = "readonly" => r.tool \notin Guard!Writes
         /\ command => "destroy" \notin words
         /\ command /\ mode = "readonly" =>
              words \cap {"delete", "system", "install", "network", "write"} = {}
         /\ command /\ mode \in {"suggest", "workspace-write"}
              /\ words \cap {"delete", "system"} # {} => r \in guardAgreed
         /\ command /\ mode = "suggest" /\ words \cap {"install", "network", "write"} # {} => r \in guardAgreed
         /\ ~command => "inside" \in words /\ (r.tool = "read_file" => "secret" \notin words)
  <1>1. CASE r.tool \in Guard!Commands
      <2>1. Guard!Risk(r) = Guard!AssessCommand(r.words) /\ r.tool \notin Guard!Writes
          BY <1>1 DEF Guard!Risk, Guard!Commands, Guard!Writes
      <2>2. GuardVerdict(r) = "allow" \/ (GuardVerdict(r) = "request_approval" /\ r \in guardAgreed)
          BY <1>1 DEF GuardCleared, Guard!Commands, Guard!Writes
      <2>3. "destroy" \notin r.words
          BY <2>1, <2>2 DEF GuardVerdict, Guard!AssessCommand, Guard!Decide, Guard!Modes
      <2>4. mode = "readonly" => r.words \cap {"delete", "system", "install", "network", "write"} = {}
          BY <2>1, <2>2 DEF GuardVerdict, Guard!AssessCommand, Guard!Decide, Guard!Modes
      <2>5. mode \in {"suggest", "workspace-write"} /\ r.words \cap {"delete", "system"} # {} => r \in guardAgreed
          BY <2>1, <2>2 DEF GuardVerdict, Guard!AssessCommand, Guard!Decide, Guard!Modes
      <2>6. mode = "suggest" /\ r.words \cap {"install", "network", "write"} # {} => r \in guardAgreed
          BY <2>1, <2>2 DEF GuardVerdict, Guard!AssessCommand, Guard!Decide, Guard!Modes
      <2> QED BY <1>1, <2>1, <2>3, <2>4, <2>5, <2>6
  <1>2. CASE r.tool \notin Guard!Commands
      BY <1>2 DEF GuardCleared, GuardVerdict, Guard!Risk, Guard!AssessPath, Guard!Decide, Guard!Modes, Guard!Tools,
         Guard!Commands, Guard!Writes
  <1> QED BY <1>1, <1>2

\* An approval for always is for one request.
LEMMA GuardKeys ==
  /\ \A r \in Requests : r.tool \in Guard!Tools
  /\ \A r, q \in Requests : Guard!ApprovalKey(r) = Guard!ApprovalKey(q) => r = q
  BY GuardAssumption DEF Guard!ApprovalKey

LEMMA GuardInitInv == ASSUME Guard!Init PROVE GuardInv
  <1>1. guardCalls \in 0..MaxCalls /\ guardAgreed \subseteq Requests /\ guardDone \subseteq Requests
      BY GuardAssumption DEF Guard!Init
  <1>2. guardCall \in [ToolCall -> GuardCall] /\ \A c \in ToolCall : guardCall[c].at = "idle"
      BY DEF Guard!Init, GuardCall, Guard!Idle
  <1> QED BY <1>1, <1>2 DEF Guard!Init, GuardInv, GuardTypes, GuardSound

\* A call under way has a request, which stays when the call moves on.
LEMMA GuardMovedOn ==
  ASSUME GuardTypes, NEW c \in ToolCall, guardCall[c].at # "idle",
         NEW a \in {"hook", "look", "policy", "ask", "before", "effect"}
  PROVE  /\ guardCall[c].req \in Requests
         /\ [guardCall[c] EXCEPT !.at = a] \in GuardCall
         /\ [guardCall[c] EXCEPT !.at = a].at = a
         /\ [guardCall[c] EXCEPT !.at = a].req = guardCall[c].req
  <1>1. guardCall[c] \in [at : {"hook", "look", "policy", "ask", "before", "effect"}, req : Requests]
      BY DEF GuardTypes, GuardCall, Guard!Idle
  <1> QED BY <1>1 DEF GuardCall

LEMMA GuardIdle == Guard!Idle \in GuardCall /\ Guard!Idle.at = "idle"
  BY DEF Guard!Idle, GuardCall

\* A step that moves one call keeps the invariant when what it says of the
\* call's new place, of what it agreed to and of what it did is true.
LEMMA GuardOneMoves ==
  ASSUME GuardInv, mode' = mode, hooked' = hooked, guardCalls' \in 0..MaxCalls,
         NEW c \in ToolCall, NEW n \in GuardCall, guardCall' = [guardCall EXCEPT ![c] = n],
         guardAgreed \subseteq guardAgreed', guardAgreed' \subseteq Requests, guardDone' \subseteq Requests,
         \A r \in guardAgreed' : r.tool = "run_shell" /\ GuardVerdict(r) = "request_approval",
         \A k \in guardApproved' : \E r \in guardAgreed' : Guard!ApprovalKey(r) = k,
         n.at \in {"before", "effect"} => (GuardCleared(n.req) \/ n.req \in guardAgreed'),
         n.at = "ask" => n.req.tool = "run_shell" /\ GuardVerdict(n.req) = "request_approval",
         \A r \in guardDone' : r \in guardDone \/ GuardCleared(r)
  PROVE  GuardInv'
  <1>1. \A r : GuardVerdict(r)' = GuardVerdict(r)
      BY DEF GuardVerdict, Guard!Risk
  <1>2. \A r : GuardCleared(r) => GuardCleared(r)'
      BY <1>1 DEF GuardCleared
  <1>3. \A r \in guardAgreed' : GuardCleared(r)'
      BY <1>1 DEF GuardCleared
  <1>4. \A d \in ToolCall : guardCall'[d] = IF d = c THEN n ELSE guardCall[d]
      BY DEF GuardInv, GuardTypes
  <1>5. GuardTypes'
      BY <1>4 DEF GuardInv, GuardTypes
  <1>6. (\A d \in ToolCall : guardCall[d].at \in {"before", "effect"} => GuardCleared(guardCall[d].req))'
      <2> SUFFICES ASSUME NEW d \in ToolCall, guardCall'[d].at \in {"before", "effect"}
                   PROVE  GuardCleared(guardCall[d].req)'
          OBVIOUS
      <2>1. CASE d = c
          <3>1. guardCall'[d] = n
              BY <2>1, <1>4
          <3>2. GuardCleared(n.req) \/ n.req \in guardAgreed'
              BY <3>1
          <3>3. (GuardCleared(guardCall[d].req))' <=> (GuardCleared(n.req))'
              BY <3>1 DEF GuardCleared, GuardVerdict, Guard!Risk
          <3> QED BY <3>2, <3>3, <1>2, <1>3
      <2>2. CASE d # c
          <3>1. guardCall'[d] = guardCall[d]
              BY <2>2, <1>4
          <3>2. GuardCleared(guardCall[d].req)
              BY <3>1 DEF GuardInv, GuardSound
          <3> QED BY <3>1, <3>2 DEF GuardCleared, GuardVerdict, Guard!Risk
      <2> QED BY <2>1, <2>2
  <1>7. (\A d \in ToolCall : guardCall[d].at = "ask" =>
            guardCall[d].req.tool = "run_shell" /\ GuardVerdict(guardCall[d].req) = "request_approval")'
      <2> SUFFICES ASSUME NEW d \in ToolCall, guardCall'[d].at = "ask"
                   PROVE  guardCall'[d].req.tool = "run_shell" /\ GuardVerdict(guardCall[d].req)' = "request_approval"
          OBVIOUS
      <2>1. CASE d = c
          <3>1. guardCall'[d] = n
              BY <2>1, <1>4
          <3> QED BY <3>1 DEF GuardVerdict, Guard!Risk
      <2>2. CASE d # c
          <3>1. guardCall'[d] = guardCall[d]
              BY <2>2, <1>4
          <3>2. guardCall[d].req.tool = "run_shell" /\ GuardVerdict(guardCall[d].req) = "request_approval"
              BY <3>1 DEF GuardInv, GuardSound
          <3> QED BY <3>1, <3>2 DEF GuardVerdict, Guard!Risk
      <2> QED BY <2>1, <2>2
  <1>8. (\A r \in guardAgreed : r.tool = "run_shell" /\ GuardVerdict(r) = "request_approval")'
      BY DEF GuardVerdict, Guard!Risk
  <1>9. (\A r \in guardDone : GuardCleared(r))'
      BY DEF GuardInv, GuardSound, GuardCleared, GuardVerdict, Guard!Risk
  <1> QED BY <1>5, <1>6, <1>7, <1>8, <1>9 DEF GuardInv, GuardSound

\* The common case: the call goes to a place that promises nothing new, or to
\* one where what it promises is known, and nothing else changes.
LEMMA GuardOnlyMoves ==
  ASSUME GuardInv, UNCHANGED <<mode, hooked, guardApproved, guardAgreed, guardDone>>, guardCalls' \in 0..MaxCalls,
         NEW c \in ToolCall, NEW n \in GuardCall, guardCall' = [guardCall EXCEPT ![c] = n],
         n.at \in {"before", "effect"} => GuardCleared(n.req),
         n.at = "ask" => n.req.tool = "run_shell" /\ GuardVerdict(n.req) = "request_approval"
  PROVE  GuardInv'
  BY GuardOneMoves DEF GuardInv, GuardTypes, GuardSound

LEMMA GuardRefused ==
  ASSUME GuardInv, UNCHANGED <<mode, hooked, guardApproved, guardCalls, guardAgreed, guardDone>>,
         NEW c \in ToolCall, Guard!Refused(c)
  PROVE  GuardInv'
  <1>1. guardCall' = [guardCall EXCEPT ![c] = Guard!Idle] /\ guardCalls' \in 0..MaxCalls
      BY DEF Guard!Refused, Guard!Goto, GuardInv, GuardTypes
  <1> QED BY <1>1, GuardIdle, GuardOnlyMoves

LEMMA GuardGoesTo ==
  ASSUME GuardInv, UNCHANGED <<mode, hooked, guardApproved, guardCalls, guardAgreed, guardDone>>,
         NEW c \in ToolCall, guardCall[c].at # "idle",
         NEW a \in {"hook", "look", "policy", "ask", "before", "effect"}, Guard!Goto(c, a),
         a \in {"before", "effect"} => GuardCleared(guardCall[c].req),
         a = "ask" => guardCall[c].req.tool = "run_shell" /\ GuardVerdict(guardCall[c].req) = "request_approval"
  PROVE  GuardInv'
  <1>1. GuardTypes /\ guardCalls' \in 0..MaxCalls
      BY DEF GuardInv, GuardTypes
  <1>2. guardCall' = [guardCall EXCEPT ![c] = [guardCall[c] EXCEPT !.at = a]]
      BY DEF Guard!Goto
  <1>3. /\ [guardCall[c] EXCEPT !.at = a] \in GuardCall
        /\ [guardCall[c] EXCEPT !.at = a].at = a
        /\ [guardCall[c] EXCEPT !.at = a].req = guardCall[c].req
      BY <1>1, GuardMovedOn
  <1> QED BY <1>1, <1>2, <1>3, GuardOnlyMoves

LEMMA GuardNext == GuardInv /\ [Guard!Next]_(Guard!vars) => GuardInv'
  <1> SUFFICES ASSUME GuardInv, [Guard!Next]_(Guard!vars) PROVE GuardInv'
      OBVIOUS
  <1>1. CASE UNCHANGED Guard!vars
      <2>1. \A r : GuardVerdict(r)' = GuardVerdict(r) /\ (GuardCleared(r) => GuardCleared(r)')
          BY <1>1 DEF Guard!vars, GuardVerdict, Guard!Risk, GuardCleared
      <2> QED BY <1>1, <2>1 DEF Guard!vars, GuardInv, GuardTypes, GuardSound
  <1>2. CASE Guard!Next
      <2> PICK c \in ToolCall : \/ Guard!Begin(c) \/ Guard!BeforeToolCall(c) \/ Guard!Look(c)
                                \/ Guard!EvaluateShell(c) \/ Guard!EvaluateGit(c) \/ Guard!EvaluateRead(c)
                                \/ Guard!EvaluateWrite(c)
                                \/ Guard!Approve(c) \/ Guard!BeforeEffect(c) \/ Guard!Effect(c)
          BY <1>2 DEF Guard!Next
      <2>1. CASE Guard!Begin(c)
          <3>1. PICK r \in Requests : guardCall' = [guardCall EXCEPT ![c] = [at |-> IF hooked THEN "hook" ELSE "look",
                  req |-> r]]
              BY <2>1 DEF Guard!Begin
          <3> DEFINE w == IF hooked THEN "hook" ELSE "look"
                     n == [at |-> w, req |-> r]
          <3>2. w \in {"hook", "look"} /\ guardCall' = [guardCall EXCEPT ![c] = n]
              BY <3>1
          <3> HIDE DEF w
          <3>3. n \in GuardCall /\ n.at \in {"hook", "look"}
              BY <3>2 DEF GuardCall
          <3>4. guardCalls' \in 0..MaxCalls
              BY <2>1, GuardAssumption DEF Guard!Begin, GuardInv, GuardTypes
          <3> HIDE DEF n
          <3> QED BY <2>1, <3>2, <3>3, <3>4, GuardOnlyMoves DEF Guard!Begin
      <2>2. CASE Guard!BeforeToolCall(c)
          <3>1. CASE Guard!Refused(c)
              BY <2>2, <3>1, GuardRefused DEF Guard!BeforeToolCall
          <3>2. CASE \E r \in Requests : guardCall' = [guardCall EXCEPT ![c].req = r, ![c].at = "look"]
              <4>1. PICK r \in Requests : guardCall' = [guardCall EXCEPT ![c].req = r, ![c].at = "look"]
                  BY <3>2
              <4>2. guardCall[c] \in [at : {"hook", "look", "policy", "ask", "before", "effect"}, req : Requests]
                  BY <2>2 DEF Guard!BeforeToolCall, Guard!At, GuardInv, GuardTypes, GuardCall, Guard!Idle
              <4> DEFINE n == [[guardCall[c] EXCEPT !.req = r] EXCEPT !.at = "look"]
              <4>3. n \in GuardCall /\ n.at = "look"
                  BY <4>2 DEF GuardCall
              <4>4. guardCall' = [guardCall EXCEPT ![c] = n]
                  BY <4>1 DEF GuardInv, GuardTypes
              <4>5. guardCalls' \in 0..MaxCalls
                  BY <2>2 DEF Guard!BeforeToolCall, GuardInv, GuardTypes
              <4> HIDE DEF n
              <4> QED BY <2>2, <4>3, <4>4, <4>5, GuardOnlyMoves DEF Guard!BeforeToolCall
          <3> QED BY <2>2, <3>1, <3>2 DEF Guard!BeforeToolCall
      <2>3. CASE Guard!Look(c)
          <3>1. guardCall[c].at # "idle" /\ guardCall[c].req \in Requests
              BY <2>3, GuardMovedOn DEF Guard!Look, Guard!At, GuardInv
          <3>2. CASE guardCall[c].req.tool = "run_shell" /\ Guard!ApprovalKey(guardCall[c].req) \in guardApproved
              <4>1. PICK r \in guardAgreed : Guard!ApprovalKey(r) = Guard!ApprovalKey(guardCall[c].req)
                  BY <3>2 DEF GuardInv, GuardSound
              <4>2. guardCall[c].req \in guardAgreed
                  BY <3>1, <4>1, GuardKeys DEF GuardInv, GuardTypes
              <4>3. GuardCleared(guardCall[c].req)
                  BY <4>2 DEF GuardCleared, GuardInv, GuardSound
              <4> QED BY <2>3, <3>1, <3>2, <4>3, GuardGoesTo DEF Guard!Look
          <3>3. CASE ~(guardCall[c].req.tool = "run_shell" /\ Guard!ApprovalKey(guardCall[c].req) \in guardApproved)
              BY <2>3, <3>1, <3>3, GuardGoesTo DEF Guard!Look
          <3> QED BY <3>2, <3>3
      <2>4. CASE Guard!EvaluateShell(c)
          <3>1. /\ guardCall[c].at # "idle" /\ guardCall[c].req.tool = "run_shell"
                /\ Guard!Decision(c) = GuardVerdict(guardCall[c].req)
              BY <2>4 DEF Guard!EvaluateShell, Guard!Asked, Guard!At, Guard!Decision, GuardVerdict
          <3>2. CASE Guard!Refused(c)
              BY <2>4, <3>2, GuardRefused DEF Guard!EvaluateShell, Guard!Unchanged
          <3>3. CASE Guard!Decision(c) = "allow" /\ Guard!Goto(c, "before")
              <4>1. GuardCleared(guardCall[c].req)
                  BY <3>1, <3>3 DEF GuardCleared, Guard!Commands
              <4> QED BY <2>4, <3>1, <3>3, <4>1, GuardGoesTo DEF Guard!EvaluateShell, Guard!Unchanged
          <3>4. CASE Guard!Decision(c) = "request_approval" /\ Guard!Goto(c, "ask")
              BY <2>4, <3>1, <3>4, GuardGoesTo DEF Guard!EvaluateShell, Guard!Unchanged
          <3> QED BY <2>4, <3>2, <3>3, <3>4 DEF Guard!EvaluateShell
      <2>5. CASE Guard!EvaluateGit(c)
          <3>1. CASE Guard!Refused(c)
              BY <2>5, <3>1, GuardRefused DEF Guard!EvaluateGit, Guard!Unchanged
          <3>2. CASE Guard!Decision(c) = "allow" /\ Guard!Goto(c, "effect")
              <4>1. guardCall[c].at # "idle" /\ GuardCleared(guardCall[c].req)
                  BY <2>5, <3>2 DEF Guard!EvaluateGit, Guard!Asked, Guard!At, Guard!Decision, GuardVerdict,
                     GuardCleared, Guard!Commands
              <4> QED BY <2>5, <3>2, <4>1, GuardGoesTo DEF Guard!EvaluateGit, Guard!Unchanged
          <3> QED BY <2>5, <3>1, <3>2 DEF Guard!EvaluateGit
      <2>6. CASE Guard!EvaluateRead(c)
          <3>1. CASE Guard!Refused(c)
              BY <2>6, <3>1, GuardRefused DEF Guard!EvaluateRead, Guard!Unchanged
          <3>2. CASE ~Guard!Refused(c)
              <4>1. guardCall[c].at # "idle" /\ GuardCleared(guardCall[c].req) /\ Guard!Goto(c, "effect")
                  BY <2>6, <3>2 DEF Guard!EvaluateRead, Guard!Asked, Guard!At, GuardCleared
              <4> QED BY <2>6, <4>1, GuardGoesTo DEF Guard!EvaluateRead, Guard!Unchanged
          <3> QED BY <3>1, <3>2
      <2>7. CASE Guard!EvaluateWrite(c)
          <3>1. CASE Guard!Refused(c)
              BY <2>7, <3>1, GuardRefused DEF Guard!EvaluateWrite, Guard!Unchanged
          <3>2. CASE ~Guard!Refused(c)
              <4>1. guardCall[c].at # "idle" /\ GuardCleared(guardCall[c].req) /\ Guard!Goto(c, "before")
                  BY <2>7, <3>2
                     DEF Guard!EvaluateWrite, Guard!Asked, Guard!At, GuardCleared, Guard!Decision, GuardVerdict
              <4> QED BY <2>7, <4>1, GuardGoesTo DEF Guard!EvaluateWrite, Guard!Unchanged
          <3> QED BY <3>1, <3>2
      <2>8. CASE Guard!Approve(c)
          <3>1. /\ guardCall[c].at # "idle" /\ guardCall[c].req \in Requests /\ guardCalls' \in 0..MaxCalls
                /\ guardCall[c].req.tool = "run_shell" /\ GuardVerdict(guardCall[c].req) = "request_approval"
              BY <2>8, GuardMovedOn DEF Guard!Approve, Guard!At, GuardInv, GuardSound, GuardTypes
          <3>2. CASE Guard!Refused(c) /\ UNCHANGED <<guardApproved, guardAgreed>>
              BY <2>8, <3>2, GuardRefused DEF Guard!Approve
          <3>3. CASE /\ guardApproved' \in {guardApproved, guardApproved \cup {Guard!ApprovalKey(guardCall[c].req)}}
                     /\ guardAgreed' = guardAgreed \cup {guardCall[c].req}
                     /\ Guard!Goto(c, "before")
              <4> DEFINE n == [guardCall[c] EXCEPT !.at = "before"]
              <4>1. n \in GuardCall /\ n.at = "before" /\ n.req = guardCall[c].req
                  BY <3>1, GuardMovedOn DEF GuardInv
              <4>2. guardCall' = [guardCall EXCEPT ![c] = n]
                  BY <3>3 DEF Guard!Goto
              <4>3. \A k \in guardApproved' : \E r \in guardAgreed' : Guard!ApprovalKey(r) = k
                  BY <3>3 DEF GuardInv, GuardSound
              <4>4. /\ guardAgreed \subseteq guardAgreed' /\ guardAgreed' \subseteq Requests
                    /\ \A r \in guardAgreed' : r.tool = "run_shell" /\ GuardVerdict(r) = "request_approval"
                  BY <3>1, <3>3 DEF GuardInv, GuardSound, GuardTypes
              <4>5. n.req \in guardAgreed' /\ mode' = mode /\ hooked' = hooked /\ guardDone' = guardDone
                      /\ guardDone' \subseteq Requests
                  BY <2>8, <3>3, <4>1 DEF Guard!Approve, GuardInv, GuardTypes
              <4> HIDE DEF n
              <4> QED BY <3>1, <4>1, <4>2, <4>3, <4>4, <4>5, GuardOneMoves
          <3> QED BY <2>8, <3>2, <3>3 DEF Guard!Approve
      <2>9. CASE Guard!BeforeEffect(c)
          <3>1. CASE Guard!Refused(c)
              BY <2>9, <3>1, GuardRefused DEF Guard!BeforeEffect
          <3>2. CASE ~Guard!Refused(c)
              <4>1. guardCall[c].at # "idle" /\ GuardCleared(guardCall[c].req) /\ Guard!Goto(c, "effect")
                  BY <2>9, <3>2 DEF Guard!BeforeEffect, Guard!At, GuardInv, GuardSound
              <4> QED BY <2>9, <4>1, GuardGoesTo DEF Guard!BeforeEffect
          <3> QED BY <3>1, <3>2
      <2>10. CASE Guard!Effect(c)
          <3>1. guardCall[c].req \in Requests /\ GuardCleared(guardCall[c].req)
              BY <2>10, GuardMovedOn DEF Guard!Effect, Guard!At, GuardInv, GuardSound
          <3>2. guardCall' = [guardCall EXCEPT ![c] = Guard!Idle]
              BY <2>10 DEF Guard!Effect, Guard!Goto
          <3>3. guardDone' \subseteq Requests /\ \A r \in guardDone' : r \in guardDone \/ GuardCleared(r)
              BY <2>10, <3>1 DEF Guard!Effect, GuardInv, GuardTypes
          <3>4. mode' = mode /\ hooked' = hooked /\ guardCalls' \in 0..MaxCalls /\ guardAgreed' = guardAgreed
                  /\ guardApproved' = guardApproved
              BY <2>10 DEF Guard!Effect, GuardInv, GuardTypes
          <3> QED BY <3>2, <3>3, <3>4, GuardIdle, GuardOneMoves DEF GuardInv, GuardSound, GuardTypes
      <2> QED BY <2>1, <2>2, <2>3, <2>4, <2>5, <2>6, <2>7, <2>8, <2>9, <2>10
  <1> QED BY <1>1, <1>2

-----------------------------------------------------------------------------
(* The network tools.                                                      *)

\* A host that neither its name nor its own address refuses.
Allowed(h) == h \notin Local \cup Blocked

NetCall ==
  [at : {"new", "dial", "answer", "page", "failed", "refused"}, tool : {"web_fetch", "web_search"},
   url : Network!Host, target : Network!Host, hops : 0..Redirects, attempt : 1..Attempts, bad : BOOLEAN]

NetTypes ==
  /\ proxy \in Proxies \cup {NoProxy} /\ direct \subseteq Name
  /\ netOpen \subseteq [client : {<<>>} \cup {<<c>> : c \in ToolCall}, host : Network!Host]
  /\ netCall \in [ToolCall -> NetCall]
  /\ netSent \subseteq [call : ToolCall, target : Network!Host, address : Address]

\* A call that is under way was allowed its first URL and the one it is at.
Judged(n) == n.at \in {"dial", "answer"} => Allowed(n.url) /\ Allowed(n.target)

NetInv == NetTypes /\ (\A c \in ToolCall : Judged(netCall[c])) /\ Network!OnlyAllowedTargets

-----------------------------------------------------------------------------
\* What one look-up may find, and what it must have found to be let through.
LEMMA NetLookups ==
  ASSUME NEW h, NEW found \in Network!Lookups(h)
  PROVE  /\ found \subseteq Address
         /\ Network!Blocks(h, found) \in BOOLEAN
         /\ ~Network!Blocks(h, found) => /\ \A a \in found : a \notin Blocked
                                         /\ Allowed(h)
  <1>1. found \subseteq Address
      BY DEF Network!Lookups
  <1>2. ~Network!Blocks(h, found) => h \notin Local /\ \A a \in found : a \notin Blocked
      BY DEF Network!Blocks, Network!AssessNetwork, Network!Decide
  <1>3. h \in Address => found = {h}
      BY DEF Network!Lookups
  <1>4. ~Network!Blocks(h, found) => Allowed(h)
      BY <1>2, <1>3, NetworkAssumption DEF Allowed
  <1> QED BY <1>1, <1>2, <1>4 DEF Network!Blocks

\* The connection goes to the host, or to the proxy, which is a host.
LEMMA NetVia ==
  ASSUME NetTypes, NEW h \in Network!Host PROVE Network!Via(h) \in Network!Host
  BY NetworkAssumption DEF NetTypes, Network!Via, Network!Host

LEMMA NetClient ==
  ASSUME NEW c \in ToolCall PROVE Network!Client(c) \in {<<>>} \cup {<<d>> : d \in ToolCall}
  BY DEF Network!Client

\* A step of one call.
LEMMA NetOneCall ==
  ASSUME NetInv, NEW c \in ToolCall, NEW n \in NetCall, netCall' = [netCall EXCEPT ![c] = n], Judged(n),
         UNCHANGED <<proxy, direct>>,
         netOpen' \subseteq [client : {<<>>} \cup {<<d>> : d \in ToolCall}, host : Network!Host],
         netSent' \subseteq [call : ToolCall, target : Network!Host, address : Address],
         \A s \in netSent' : s.address \notin Blocked /\ Allowed(s.target)
  PROVE  NetInv'
  <1>1. NetTypes'
      BY DEF NetInv, NetTypes
  <1>2. \A d \in ToolCall : Judged(netCall'[d])
      BY DEF NetInv, NetTypes
  <1>3. Network!OnlyAllowedTargets'
      BY DEF Network!OnlyAllowedTargets, Allowed
  <1> QED BY <1>1, <1>2, <1>3 DEF NetInv

LEMMA NetOnlyCall ==
  ASSUME NetInv, NEW c \in ToolCall, NEW n \in NetCall, netCall' = [netCall EXCEPT ![c] = n], Judged(n),
         UNCHANGED <<proxy, direct, netOpen, netSent>>
  PROVE  NetInv'
  <1>1. \A s \in netSent' : s.address \notin Blocked /\ Allowed(s.target)
      BY DEF NetInv, Network!OnlyAllowedTargets, Allowed
  <1>2. /\ netOpen' \subseteq [client : {<<>>} \cup {<<d>> : d \in ToolCall}, host : Network!Host]
        /\ netSent' \subseteq [call : ToolCall, target : Network!Host, address : Address]
      BY DEF NetInv, NetTypes
  <1> QED BY <1>1, <1>2, NetOneCall

\* Another attempt goes back to the first URL, which was allowed.
LEMMA NetRetried ==
  ASSUME NetInv, NEW c \in ToolCall, netCall[c].at \in {"dial", "answer"},
         NEW why \in {"refused", "failed"}, NEW bad \in BOOLEAN, Network!Retried(c, why, bad),
         UNCHANGED <<proxy, direct, netOpen, netSent>>
  PROVE  NetInv'
  <1>1. netCall[c] \in NetCall /\ Judged(netCall[c])
      BY DEF NetInv, NetTypes
  <1>2. CASE netCall[c].attempt = Attempts
      <2> DEFINE n == [netCall[c] EXCEPT !.at = why, !.bad = bad]
      <2>1. netCall' = [netCall EXCEPT ![c] = n]
          BY <1>2 DEF Network!Retried
      <2>2. n \in NetCall /\ Judged(n)
          BY <1>1 DEF NetCall, Judged
      <2> HIDE DEF n
      <2> QED BY <2>1, <2>2, NetOnlyCall
  <1>3. CASE netCall[c].attempt # Attempts
      <2> DEFINE n == [netCall[c] EXCEPT !.at = "dial", !.target = netCall[c].url, !.hops = 0,
                                         !.attempt = netCall[c].attempt + 1, !.bad = bad]
      <2>1. netCall' = [netCall EXCEPT ![c] = n]
          BY <1>3 DEF Network!Retried
      <2>2. netCall[c].attempt + 1 \in 1..Attempts /\ 0 \in 0..Redirects
          BY <1>1, <1>3, NetworkAssumption DEF NetCall
      <2>3. n \in NetCall /\ Judged(n)
          BY <1>1, <2>2 DEF NetCall, Judged
      <2> HIDE DEF n
      <2> QED BY <2>1, <2>3, NetOnlyCall
  <1> QED BY <1>2, <1>3

LEMMA NetInitInv == Network!Init => NetInv
  <1> SUFFICES ASSUME Network!Init PROVE NetInv
      OBVIOUS
  <1>1. Network!Waiting \in NetCall /\ Network!Waiting.at = "new"
      BY NetworkAssumption DEF Network!Waiting, NetCall, Network!Host
  <1>2. NetTypes
      BY <1>1 DEF Network!Init, NetTypes
  <1>3. \A c \in ToolCall : Judged(netCall[c])
      BY <1>1 DEF Network!Init, Judged
  <1> QED BY <1>2, <1>3 DEF Network!Init, NetInv, Network!OnlyAllowedTargets

LEMMA NetBegin ==
  ASSUME NetInv, NEW c \in ToolCall, NEW tool \in {"web_fetch", "web_search"}, NEW h \in Network!Host,
         Network!Begin(c, tool, h)
  PROVE  NetInv'
  <1>1. PICK found \in Network!Lookups(h) :
          netCall' = [netCall EXCEPT ![c] =
            [netCall[c] EXCEPT !.tool = tool, !.url = h, !.target = h, !.bad = Network!Noted(c, h, found),
                               !.at = IF Network!Authorised(h, found) THEN "dial" ELSE "refused"]]
      BY DEF Network!Begin
  <1> DEFINE n == [netCall[c] EXCEPT !.tool = tool, !.url = h, !.target = h, !.bad = Network!Noted(c, h, found),
                                     !.at = IF Network!Authorised(h, found) THEN "dial" ELSE "refused"]
  <1>2. netCall[c] \in NetCall
      BY DEF NetInv, NetTypes
  <1>3. Network!Noted(c, h, found) \in BOOLEAN
      BY <1>2, NetLookups DEF Network!Noted, NetCall
  <1>4. n \in NetCall
      BY <1>2, <1>3 DEF NetCall
  <1>5. Judged(n)
      <2>1. Network!Authorised(h, found) => Allowed(h)
          BY NetLookups DEF Network!Authorised
      <2>2. n.url = h /\ n.target = h /\ n.at = IF Network!Authorised(h, found) THEN "dial" ELSE "refused"
          BY <1>2 DEF NetCall
      <2> QED BY <2>1, <2>2 DEF Judged
  <1>6. UNCHANGED <<proxy, direct, netOpen, netSent>>
      BY DEF Network!Begin
  <1> HIDE DEF n
  <1> QED BY <1>1, <1>4, <1>5, <1>6, NetOnlyCall DEF n

\* A request leaves: its target was judged, and its address is allowed.
LEMMA NetSends ==
  ASSUME NetInv, NEW c \in ToolCall, Network!At(c, "dial"), NEW a \in Address, a \notin Blocked,
         netSent' = netSent \cup {[call |-> c, target |-> netCall[c].target, address |-> a]},
         netCall' = [netCall EXCEPT ![c].at = "answer"], UNCHANGED <<proxy, direct>>,
         netOpen' \subseteq [client : {<<>>} \cup {<<d>> : d \in ToolCall}, host : Network!Host]
  PROVE  NetInv'
  <1> DEFINE n == [netCall[c] EXCEPT !.at = "answer"]
  <1>1. netCall[c] \in NetCall /\ Judged(netCall[c]) /\ netCall[c].at = "dial"
      BY DEF NetInv, NetTypes, Network!At
  <1>2. n \in NetCall /\ Judged(n) /\ netCall[c].target \in Network!Host /\ Allowed(netCall[c].target)
      BY <1>1 DEF NetCall, Judged
  <1>3. netSent' \subseteq [call : ToolCall, target : Network!Host, address : Address]
      BY <1>2 DEF NetInv, NetTypes
  <1>4. \A s \in netSent' : s.address \notin Blocked /\ Allowed(s.target)
      BY <1>2 DEF NetInv, Network!OnlyAllowedTargets, Allowed
  <1>5. netCall' = [netCall EXCEPT ![c] = n]
      OBVIOUS
  <1> HIDE DEF n
  <1> QED BY <1>2, <1>3, <1>4, <1>5, NetOneCall

LEMMA NetDial == ASSUME NetInv, NEW c \in ToolCall, Network!Dial(c) PROVE NetInv'
  <1> DEFINE h == Network!Via(netCall[c].target)
  <1>1. netCall[c] \in NetCall /\ netCall[c].at = "dial" /\ Network!At(c, "dial") /\ UNCHANGED <<proxy, direct>>
      BY DEF NetInv, NetTypes, Network!Dial, Network!At
  <1>2. h \in Network!Host
      BY <1>1, NetVia DEF NetInv, NetCall
  <1>3. PICK found \in Network!Lookups(h) :
          \/ /\ found # {} /\ Network!Judge(h, found)
             /\ \E a \in found : netSent' = netSent \cup {[call |-> c, target |-> netCall[c].target, address |-> a]}
             /\ netOpen' = netOpen \cup {[client |-> Network!Client(c), host |-> h]}
             /\ netCall' = [netCall EXCEPT ![c].at = "answer"]
          \/ /\ Network!Retried(c, IF found # {} /\ ~Network!Judge(h, found) THEN "refused" ELSE "failed",
                                IF h = netCall[c].target THEN Network!Noted(c, h, found) ELSE netCall[c].bad)
             /\ UNCHANGED <<netOpen, netSent>>
      BY DEF Network!Dial
  <1>4. found \subseteq Address /\ (Network!Judge(h, found) => \A a \in found : a \notin Blocked)
      BY NetLookups DEF Network!Judge
  <1>5. Network!Noted(c, h, found) \in BOOLEAN /\ netCall[c].bad \in BOOLEAN
      BY <1>1, NetLookups DEF Network!Noted, NetCall
  <1> HIDE DEF h
  <1>6. CASE /\ Network!Judge(h, found)
             /\ \E a \in found : netSent' = netSent \cup {[call |-> c, target |-> netCall[c].target, address |-> a]}
             /\ netOpen' = netOpen \cup {[client |-> Network!Client(c), host |-> h]}
             /\ netCall' = [netCall EXCEPT ![c].at = "answer"]
      <2>1. netOpen' \subseteq [client : {<<>>} \cup {<<d>> : d \in ToolCall}, host : Network!Host]
          BY <1>2, <1>6, NetClient DEF NetInv, NetTypes
      <2> QED BY <1>1, <1>4, <1>6, <2>1, NetSends
  <1>7. CASE /\ Network!Retried(c, IF found # {} /\ ~Network!Judge(h, found) THEN "refused" ELSE "failed",
                                IF h = netCall[c].target THEN Network!Noted(c, h, found) ELSE netCall[c].bad)
             /\ UNCHANGED <<netOpen, netSent>>
      BY <1>1, <1>5, <1>7, NetRetried
  <1> QED BY <1>3, <1>6, <1>7

LEMMA NetReuse == ASSUME NetInv, NEW c \in ToolCall, Network!Reuse(c) PROVE NetInv'
  <1>1. PICK old \in netSent : netSent' = netSent \cup {[call |-> c, target |-> netCall[c].target,
          address |-> old.address]}
      BY DEF Network!Reuse
  <1>2. old.address \in Address /\ old.address \notin Blocked
      BY DEF NetInv, NetTypes, Network!OnlyAllowedTargets
  <1>3. netOpen' \subseteq [client : {<<>>} \cup {<<d>> : d \in ToolCall}, host : Network!Host]
      BY DEF Network!Reuse, NetInv, NetTypes
  <1> QED BY <1>1, <1>2, <1>3, NetSends DEF Network!Reuse

LEMMA NetDisconnect == ASSUME NetInv, Network!Disconnect PROVE NetInv'
  BY DEF Network!Disconnect, NetInv, NetTypes, Network!OnlyAllowedTargets, Judged, NetCall

LEMMA NetRedirect == ASSUME NetInv, NEW c \in ToolCall, Network!Redirect(c) PROVE NetInv'
  <1>1. /\ netCall[c] \in NetCall /\ netCall[c].at = "answer" /\ Judged(netCall[c])
        /\ UNCHANGED <<proxy, direct, netOpen, netSent>>
      BY DEF NetInv, NetTypes, Network!Redirect, Network!At
  <1>2. PICK h \in Network!Host : \E found \in Network!Lookups(h) :
          IF netCall[c].hops >= Redirects THEN Network!Retried(c, "failed", netCall[c].bad)
                                          ELSE Network!Follow(c, h, found)
      BY DEF Network!Redirect
  <1> PICK found \in Network!Lookups(h) :
        IF netCall[c].hops >= Redirects THEN Network!Retried(c, "failed", netCall[c].bad)
                                        ELSE Network!Follow(c, h, found)
      BY <1>2
  <1>3. Network!Noted(c, h, found) \in BOOLEAN /\ netCall[c].bad \in BOOLEAN
      BY <1>1, NetLookups DEF Network!Noted, NetCall
  <1>4. CASE netCall[c].hops >= Redirects
      BY <1>1, <1>2, <1>3, <1>4, NetRetried
  <1>5. CASE ~(netCall[c].hops >= Redirects) /\ ~Network!Authorised(h, found)
      BY <1>1, <1>2, <1>3, <1>5, NetRetried DEF Network!Follow
  <1>6. CASE ~(netCall[c].hops >= Redirects) /\ Network!Authorised(h, found)
      <2> DEFINE n == [netCall[c] EXCEPT !.at = "dial", !.target = h, !.hops = netCall[c].hops + 1,
            !.bad = Network!Noted(c, h, found)]
      <2>1. netCall' = [netCall EXCEPT ![c] = n]
          BY <1>2, <1>6 DEF Network!Follow, NetInv, NetTypes
      <2>2. netCall[c].hops + 1 \in 0..Redirects
          BY <1>1, <1>6, NetworkAssumption DEF NetCall
      <2>3. n \in NetCall
          BY <1>1, <1>3, <2>2 DEF NetCall
      <2>4. Allowed(h)
          BY <1>6, NetLookups DEF Network!Authorised
      <2>5. Judged(n)
          BY <1>1, <2>4 DEF NetCall, Judged
      <2> HIDE DEF n
      <2> QED BY <1>1, <2>1, <2>3, <2>5, NetOnlyCall
  <1> QED BY <1>4, <1>5, <1>6

LEMMA NetEnds ==
  ASSUME NetInv, NEW c \in ToolCall, NEW end \in {"page", "failed"}, netCall' = [netCall EXCEPT ![c].at = end],
         UNCHANGED <<proxy, direct, netOpen, netSent>>
  PROVE  NetInv'
  <1> DEFINE n == [netCall[c] EXCEPT !.at = end]
  <1>1. n \in NetCall /\ Judged(n)
      BY DEF NetInv, NetTypes, NetCall, Judged
  <1>2. netCall' = [netCall EXCEPT ![c] = n]
      OBVIOUS
  <1> HIDE DEF n
  <1> QED BY <1>1, <1>2, NetOnlyCall

LEMMA NetAnswer == ASSUME NetInv, NEW c \in ToolCall, Network!Answer(c) PROVE NetInv'
  <1>1. netCall[c].at = "answer" /\ netCall[c].bad \in BOOLEAN /\ UNCHANGED <<proxy, direct, netOpen, netSent>>
      BY DEF Network!Answer, Network!At, NetInv, NetTypes, NetCall
  <1>2. CASE \E end \in {"page", "failed"} : netCall' = [netCall EXCEPT ![c].at = end]
      BY <1>1, <1>2, NetEnds
  <1>3. CASE Network!Retried(c, "failed", netCall[c].bad)
      BY <1>1, <1>3, NetRetried
  <1> QED BY <1>2, <1>3 DEF Network!Answer

LEMMA NetEndContext == ASSUME NetInv, NEW c \in ToolCall, Network!EndContext(c) PROVE NetInv'
  BY NetEnds DEF Network!EndContext

LEMMA NetNext == NetInv /\ [Network!Next]_(Network!vars) => NetInv'
  <1> SUFFICES ASSUME NetInv, [Network!Next]_(Network!vars) PROVE NetInv'
      OBVIOUS
  <1>1. CASE UNCHANGED Network!vars
      BY <1>1 DEF Network!vars, NetInv, NetTypes, Network!OnlyAllowedTargets, Judged
  <1>2. ASSUME NEW c \in ToolCall,
               Network!BeginFetch(c) \/ Network!BeginSearch(c) \/ Network!Dial(c) \/ Network!Reuse(c)
                 \/ Network!Redirect(c) \/ Network!Answer(c) \/ Network!EndContext(c)
        PROVE  NetInv'
      <2>1. CASE Network!BeginFetch(c)
          BY <2>1, NetBegin DEF Network!BeginFetch
      <2>2. CASE Network!BeginSearch(c)
          BY <2>2, NetBegin, NetworkAssumption DEF Network!BeginSearch, Network!Host
      <2> QED BY <1>2, <2>1, <2>2, NetDial, NetReuse, NetRedirect, NetAnswer, NetEndContext
  <1> QED BY <1>1, <1>2, NetDisconnect DEF Network!Next

-----------------------------------------------------------------------------
(* The file tools.                                                         *)

FileCalls ==
  {Files!New, Files!Over}
  \cup [at : {"walk"}, tool : {"list_files", "search_files"}, hidden : BOOLEAN, query : Piece, hits : Nat,
        left : SUBSET (Path \cup Inode)]
  \cup [at : {"binary", "stat"}, tool : {"read_file"}, path : Path]
  \cup [at : {"open"}, tool : {"read_file"}, path : Path, size : Nat]
  \cup [at : {"read"}, tool : {"read_file"}, path : Path, size : Nat, file : Inode]
  \cup [at : {"binary", "patch"}, tool : {"apply_patch"}, path : Path, old : Piece, new : Piece]
  \cup [at : {"write"}, tool : {"write_file", "apply_patch"}, path : Path, text : Seq(Piece)]
  \cup [at : {"fill", "rename"}, tool : {"write_file", "apply_patch"}, path : Path, text : Seq(Piece), file : Inode]

FileTypes ==
  /\ name \in [Path -> Inode \cup {NoFile}] /\ temp \subseteq Inode
  /\ data = [i \in Inode |-> data[i]] /\ used \in Nat
  /\ Text \subseteq whole /\ whole \subseteq Seq(Piece)
  /\ fileCall \in [ToolCall -> FileCalls]

\* What is under a name was there from the start or renamed when it was done.
NamesWhole == \A p \in Path : name[p] # NoFile => name[p] <= used /\ data[name[p]] \in whole

\* A file not created yet is empty.
Spare == \A i \in Inode : i > used => data[i] = <<>>

FileWrites(n) == n.at \in {"fill", "rename"}

\* A file that is written holds the beginning of its text, all of it before
\* it is renamed, and nobody else has it: no name, no reader, no writer.
WriterSound(n) ==
  /\ n.text \in whole /\ n.file <= used
  /\ \A p \in Path : name[p] # n.file
  /\ data[n.file] \in Seq(Piece) /\ Len(data[n.file]) <= Len(n.text)
  /\ \A k \in 1..Len(data[n.file]) : data[n.file][k] = n.text[k]
  /\ n.at = "rename" => data[n.file] = n.text

Writers ==
  /\ \A c \in ToolCall : FileWrites(fileCall[c]) => WriterSound(fileCall[c])
  /\ \A c, d \in ToolCall : FileWrites(fileCall[c]) /\ FileWrites(fileCall[d])
       /\ fileCall[c].file = fileCall[d].file => c = d

\* A reader holds a finished file, which no writer has.
Readers ==
  /\ \A c \in ToolCall : fileCall[c].at = "read" => fileCall[c].file <= used /\ data[fileCall[c].file] \in whole
  /\ \A c, d \in ToolCall : fileCall[c].at = "read" /\ FileWrites(fileCall[d]) => fileCall[c].file # fileCall[d].file

FileInv ==
  /\ FileTypes /\ NamesWhole /\ Spare /\ Writers /\ Readers
  /\ \A c \in ToolCall : fileCall[c].at = "write" => fileCall[c].text \in whole
  /\ \A s \in shown : s.ok

-----------------------------------------------------------------------------
\* A call has the record of where it is.
LEMMA FileShapes ==
  ASSUME NEW n \in FileCalls
  PROVE  /\ n.at = "walk" =>
              n \in [at : {"walk"}, tool : {"list_files", "search_files"}, hidden : BOOLEAN, query : Piece, hits : Nat,
                     left : SUBSET (Path \cup Inode)]
         /\ n.at \in {"binary", "stat", "open", "read", "patch", "write", "fill", "rename"} => n.path \in Path
         /\ n.at \in {"open", "read"} => n.size \in Nat
         /\ n.at = "patch" => n.old \in Piece /\ n.new \in Piece
         /\ n.at \in {"write", "fill", "rename"} => n.text \in Seq(Piece) /\ n.tool \in {"write_file", "apply_patch"}
         /\ n.at \in {"read", "fill", "rename"} => n.file \in Inode
         /\ n.at \in {"new", "over", "walk", "binary", "stat", "open", "read", "patch", "write", "fill", "rename"}
  BY DEF FileCalls, Files!New, Files!Over

LEMMA FileRest ==
  /\ Files!New \in FileCalls /\ Files!New.at = "new" /\ Files!Over \in FileCalls /\ Files!Over.at = "over"
  /\ Files!New # Files!Over
  BY DEF FileCalls, Files!New, Files!Over

LEMMA FileFields ==
  ASSUME FileTypes, NEW c \in ToolCall
  PROVE  fileCall[c] \in FileCalls
  BY DEF FileTypes

\* A step that moves one call to where it has no file.
LEMMA FileOnlyCall ==
  ASSUME FileInv, NEW c \in ToolCall, NEW n \in FileCalls, fileCall' = [fileCall EXCEPT ![c] = n],
         n.at \notin {"read", "fill", "rename"}, n.at = "write" => n.text \in whole',
         UNCHANGED <<name, data, used>>, temp' \subseteq Inode, whole \subseteq whole', whole' \subseteq Seq(Piece),
         \A s \in shown' : s.ok
  PROVE  FileInv'
  <1>1. FileTypes'
      BY DEF FileInv, FileTypes
  <1>2. \A d \in ToolCall : fileCall'[d] = IF d = c THEN n ELSE fileCall[d]
      BY DEF FileInv, FileTypes
  <1>3. NamesWhole' /\ Spare'
      BY DEF FileInv, NamesWhole, Spare
  <1>4. Writers'
      BY <1>2 DEF FileInv, Writers, WriterSound, FileWrites
  <1>5. Readers'
      BY <1>2 DEF FileInv, Readers, FileWrites
  <1>6. \A d \in ToolCall : fileCall'[d].at = "write" => fileCall'[d].text \in whole'
      BY <1>2 DEF FileInv
  <1> QED BY <1>1, <1>3, <1>4, <1>5, <1>6 DEF FileInv

LEMMA FileQuiet ==
  ASSUME FileInv, NEW c \in ToolCall, NEW n \in FileCalls, fileCall' = [fileCall EXCEPT ![c] = n],
         n.at \notin {"read", "fill", "rename", "write"}, UNCHANGED <<name, temp, data, used, whole>>,
         \A s \in shown' : s.ok
  PROVE  FileInv'
  <1>1. temp' \subseteq Inode /\ whole \subseteq whole' /\ whole' \subseteq Seq(Piece)
      BY DEF FileInv, FileTypes
  <1> QED BY <1>1, FileOnlyCall

LEMMA FileEnds ==
  ASSUME FileInv, NEW c \in ToolCall, Files!End(c), UNCHANGED <<name, temp, data, used, whole>>, \A s \in shown' : s.ok
  PROVE  FileInv'
  BY FileRest, FileQuiet DEF Files!End

\* The cardinality FileTools counts with is FiniteSets' own.
LEMMA FileCardinality == \A S : Files!Cardinality(S) = Cardinality(S)
  BY DEF Files!Cardinality, Cardinality

\* The files under names at the start are the first n.
Placed(n, there, place) ==
  \E text \in [there -> Text] :
    /\ \A p, q \in there : place[p] = place[q] => p = q
    /\ name = [p \in Path |-> IF p \in there THEN place[p] ELSE NoFile]
    /\ data = [i \in Inode |-> IF i > n THEN <<>> ELSE text[CHOOSE p \in there : place[p] = i]]
    /\ used = n

LEMMA FilesPlaced ==
  Files!Init => \E there \in SUBSET Path : \E place \in [there -> 1..Cardinality(there)] :
                  Placed(Cardinality(there), there, place)
  <1>1. Files!Init => \E there \in SUBSET Path : \E place \in [there -> 1..Files!Cardinality(there)] :
                        Placed(Files!Cardinality(there), there, place)
      BY DEF Files!Init, Placed
  <1> QED BY <1>1, FileCardinality

LEMMA FileInitInv == Files!Init => FileInv
  <1> SUFFICES ASSUME Files!Init PROVE FileInv
      OBVIOUS
  <1>01. PICK there \in SUBSET Path :
           \E place \in [there -> 1..Cardinality(there)] : Placed(Cardinality(there), there, place)
      BY FilesPlaced
  <1>02. PICK place \in [there -> 1..Cardinality(there)] : Placed(Cardinality(there), there, place)
      BY <1>01
  <1>1. PICK text \in [there -> Text] :
          /\ \A p, q \in there : place[p] = place[q] => p = q
          /\ name = [p \in Path |-> IF p \in there THEN place[p] ELSE NoFile]
          /\ data = [i \in Inode |-> IF i > Cardinality(there) THEN <<>>
                                     ELSE text[CHOOSE p \in there : place[p] = i]]
          /\ used = Cardinality(there)
      BY <1>02 DEF Placed
  <1>2. Cardinality(there) \in Nat /\ Cardinality(there) <= Cardinality(Path) /\ Cardinality(Path) \in Nat
      BY FileAssumption, FS_Subset, FS_CardinalityType
  <1>3. \A p \in there : place[p] \in 1..Cardinality(there) /\ place[p] \in Inode
      BY <1>2, FileAssumption
  <1>4. \A p \in Path : name[p] # NoFile => p \in there /\ name[p] = place[p]
      BY <1>1
  <1>5. FileTypes
      <2>1. name \in [Path -> Inode \cup {NoFile}]
          BY <1>1, <1>3
      <2>2. data = [i \in Inode |-> data[i]]
          BY <1>1
      <2>3. whole \subseteq Seq(Piece)
          BY FileAssumption DEF Files!Init
      <2> QED BY <1>1, <1>2, <2>1, <2>2, <2>3, FileRest DEF Files!Init, FileTypes
  <1>6. NamesWhole
      <2> SUFFICES ASSUME NEW p \in Path, name[p] # NoFile
                   PROVE  name[p] <= used /\ data[name[p]] \in whole
          BY DEF NamesWhole
      <2>1. p \in there /\ name[p] = place[p] /\ place[p] \in 1..Cardinality(there) /\ place[p] \in Inode
          BY <1>3, <1>4
      <2>2. data[place[p]] = text[CHOOSE q \in there : place[q] = place[p]]
          BY <1>1, <1>2, <2>1
      <2>3. (CHOOSE q \in there : place[q] = place[p]) \in there
          BY <2>1
      <2>4. data[place[p]] \in Text
          BY <2>2, <2>3
      <2> QED BY <1>1, <1>2, <2>1, <2>4 DEF Files!Init
  <1>7. Spare
      BY <1>1 DEF Spare
  <1>8. Writers /\ Readers /\ \A c \in ToolCall : fileCall[c].at # "write"
      BY FileRest DEF Files!Init, Writers, Readers, FileWrites
  <1> QED BY <1>5, <1>6, <1>7, <1>8 DEF Files!Init, FileInv

-----------------------------------------------------------------------------
\* A walk that goes on.
LEMMA FileWalkOn ==
  ASSUME NEW n \in [at : {"walk"}, tool : {"list_files", "search_files"}, hidden : BOOLEAN, query : Piece,
                    hits : Nat, left : SUBSET (Path \cup Inode)], NEW h \in Nat, NEW l \in SUBSET (Path \cup Inode)
  PROVE  [n EXCEPT !.left = l, !.hits = h]
           \in [at : {"walk"}, tool : {"list_files", "search_files"}, hidden : BOOLEAN, query : Piece,
                hits : Nat, left : SUBSET (Path \cup Inode)]
  <1> DEFINE m == [n EXCEPT !.left = l]
  <1>1. m \in [at : {"walk"}, tool : {"list_files", "search_files"}, hidden : BOOLEAN, query : Piece,
               hits : Nat, left : SUBSET (Path \cup Inode)]
      OBVIOUS
  <1>2. [n EXCEPT !.left = l, !.hits = h] = [m EXCEPT !.hits = h]
      OBVIOUS
  <1> HIDE DEF m
  <1>3. [m EXCEPT !.hits = h] \in [at : {"walk"}, tool : {"list_files", "search_files"}, hidden : BOOLEAN,
          query : Piece,
                                   hits : Nat, left : SUBSET (Path \cup Inode)]
      BY <1>1
  <1> QED BY <1>2, <1>3

\* A walk only shows entries.
LEMMA FileWalk ==
  ASSUME FileInv, NEW c \in ToolCall, Files!BeginWalk(c) \/ Files!Visit(c) \/ Files!WalkEnds(c)
  PROVE  FileInv'
  <1>1. CASE Files!BeginWalk(c)
      <2>1. PICK tool \in {"list_files", "search_files"}, hidden \in BOOLEAN, query \in Piece :
              fileCall' = [fileCall EXCEPT ![c] =
                [at |-> "walk", tool |-> tool, hidden |-> hidden, query |-> query, hits |-> 0,
                 left |-> {p \in Path : name[p] # NoFile} \cup (IF hidden THEN temp ELSE {})]]
          BY <1>1 DEF Files!BeginWalk
      <2> DEFINE left == {p \in Path : name[p] # NoFile} \cup (IF hidden THEN temp ELSE {})
                 n == [at |-> "walk", tool |-> tool, hidden |-> hidden, query |-> query, hits |-> 0, left |-> left]
      <2>2. left \subseteq Path \cup Inode
          BY DEF FileInv, FileTypes
      <2> HIDE DEF left
      <2>3. n \in FileCalls /\ n.at = "walk"
          BY <2>2 DEF FileCalls
      <2>4. fileCall' = [fileCall EXCEPT ![c] = n]
          BY <2>1 DEF left
      <2> HIDE DEF n
      <2> QED BY <1>1, <2>3, <2>4, FileQuiet DEF Files!BeginWalk, Files!Quiet
  <1>2. CASE Files!Visit(c)
      <2>1. PICK n \in Files!Names(c) :
              IF ~Files!Wanted(c, n)
              THEN fileCall' = [fileCall EXCEPT ![c].left = @ \ {n}] /\ shown' = {}
              ELSE IF Files!FileOf(n) = NoFile \/ fileCall[c].hits >= MaxHits
              THEN Files!End(c) /\ shown' = {}
              ELSE /\ shown' = Files!Hit(c, n)
                   /\ fileCall' = [fileCall EXCEPT ![c].left = @ \ {n}, ![c].hits = @ + Cardinality(Files!Hit(c, n))]
          BY <1>2, FileCardinality DEF Files!Visit
      <2>2. fileCall[c] \in [at : {"walk"}, tool : {"list_files", "search_files"}, hidden : BOOLEAN, query : Piece,
                             hits : Nat, left : SUBSET (Path \cup Inode)]
          BY <1>2, FileFields, FileShapes DEF Files!Visit, Files!At, FileInv
      <2>3. \A s \in Files!Hit(c, n) : s.ok
          BY DEF Files!Hit
      <2>4. Cardinality(Files!Hit(c, n)) \in Nat
          <3>1. CASE fileCall[c].tool = "list_files"
              <4> DEFINE hit == [path |-> n, text |-> <<>>, cut |-> FALSE, ok |-> TRUE]
              <4>1. Files!Hit(c, n) = {hit}
                  BY <3>1 DEF Files!Hit
              <4> HIDE DEF hit
              <4>2. Cardinality(Files!Hit(c, n)) = 1
                  BY <4>1, FS_Singleton
              <4> QED BY <4>2
          <3>2. CASE fileCall[c].tool # "list_files"
              <4> DEFINE hit == [path |-> n, text |-> <<fileCall[c].query>>, cut |-> FALSE, ok |-> TRUE]
              <4>1. Files!Hit(c, n) \subseteq {hit}
                  BY <3>2 DEF Files!Hit
              <4> HIDE DEF hit
              <4>2. Files!Hit(c, n) = {} \/ Files!Hit(c, n) = {hit}
                  BY <4>1
              <4>3. Cardinality(Files!Hit(c, n)) = 0 \/ Cardinality(Files!Hit(c, n)) = 1
                  BY <4>2, FS_EmptySet, FS_Singleton
              <4> QED BY <4>3
          <3> QED BY <3>1, <3>2
      <2>5. CASE ~Files!Wanted(c, n)
          <3> DEFINE m == [fileCall[c] EXCEPT !.left = @ \ {n}]
          <3>1. m \in FileCalls /\ m.at = "walk"
              BY <2>2 DEF FileCalls
          <3>2. fileCall' = [fileCall EXCEPT ![c] = m] /\ shown' = {}
              BY <2>1, <2>5 DEF FileInv, FileTypes
          <3> HIDE DEF m
          <3> QED BY <1>2, <3>1, <3>2, FileQuiet DEF Files!Visit
      <2>6. CASE Files!Wanted(c, n) /\ (Files!FileOf(n) = NoFile \/ fileCall[c].hits >= MaxHits)
          BY <1>2, <2>1, <2>6, FileEnds DEF Files!Visit
      <2>7. CASE Files!Wanted(c, n) /\ ~(Files!FileOf(n) = NoFile \/ fileCall[c].hits >= MaxHits)
          <3> DEFINE more == Cardinality(Files!Hit(c, n))
                     m == [fileCall[c] EXCEPT !.left = @ \ {n}, !.hits = @ + more]
          <3>0. more \in Nat
              BY <2>4
          <3>1. shown' = Files!Hit(c, n) /\ fileCall' = [fileCall EXCEPT ![c].left = @ \ {n}, ![c].hits = @ + more]
              BY <2>1, <2>7
          <3> HIDE DEF more
          <3>2. m \in FileCalls /\ m.at = "walk"
              <4>1. fileCall[c].hits + more \in Nat /\ fileCall[c].left \ {n} \subseteq Path \cup Inode
                  BY <2>2, <3>0
              <4>2. m \in [at : {"walk"}, tool : {"list_files", "search_files"}, hidden : BOOLEAN, query : Piece,
                           hits : Nat, left : SUBSET (Path \cup Inode)]
                  BY <2>2, <4>1, FileWalkOn
              <4> HIDE DEF m
              <4> QED BY <4>2 DEF FileCalls
          <3>3. fileCall' = [fileCall EXCEPT ![c] = m]
              BY <3>1 DEF FileInv, FileTypes
          <3> HIDE DEF m
          <3> QED BY <1>2, <2>3, <3>1, <3>2, <3>3, FileQuiet DEF Files!Visit
      <2> QED BY <2>5, <2>6, <2>7
  <1>3. CASE Files!WalkEnds(c)
      BY <1>3, FileEnds DEF Files!WalkEnds, Files!Quiet
  <1> QED BY <1>1, <1>2, <1>3

\* The steps of a call before it has a file.
LEMMA FileLook ==
  ASSUME FileInv, NEW c \in ToolCall, Files!BeginRead(c) \/ Files!BeginPatch(c) \/ Files!Fail(c) \/ Files!CheckBinary(c)
  PROVE  FileInv'
  <1>1. CASE Files!BeginRead(c)
      <2>1. PICK p \in Path : fileCall' = [fileCall EXCEPT ![c] = [at |-> "binary", tool |-> "read_file", path |-> p]]
          BY <1>1 DEF Files!BeginRead
      <2> DEFINE n == [at |-> "binary", tool |-> "read_file", path |-> p]
      <2>2. n \in FileCalls /\ n.at = "binary"
          BY DEF FileCalls
      <2> HIDE DEF n
      <2>3. fileCall' = [fileCall EXCEPT ![c] = n]
          BY <2>1 DEF n
      <2> QED BY <1>1, <2>2, <2>3, FileQuiet DEF Files!BeginRead, Files!Quiet
  <1>2. CASE Files!BeginPatch(c)
      <2>1. PICK p \in Path, old \in Piece, new \in Piece :
              fileCall' = [fileCall EXCEPT ![c] = [at |-> "binary", tool |-> "apply_patch", path |-> p, old |-> old,
                new |-> new]]
          BY <1>2 DEF Files!BeginPatch
      <2> DEFINE n == [at |-> "binary", tool |-> "apply_patch", path |-> p, old |-> old, new |-> new]
      <2>2. n \in FileCalls /\ n.at = "binary"
          BY DEF FileCalls
      <2> HIDE DEF n
      <2>3. fileCall' = [fileCall EXCEPT ![c] = n]
          BY <2>1 DEF n
      <2> QED BY <1>2, <2>2, <2>3, FileQuiet DEF Files!BeginPatch, Files!Quiet
  <1>3. CASE Files!Fail(c)
      BY <1>3, FileEnds DEF Files!Fail, Files!Quiet
  <1>4. CASE Files!CheckBinary(c)
      <2>1. CASE Files!End(c)
          BY <1>4, <2>1, FileEnds DEF Files!CheckBinary, Files!Quiet
      <2>2. CASE ~Files!End(c)
          <3>1. fileCall' = [fileCall EXCEPT ![c].at = IF fileCall[c].tool = "read_file" THEN "stat" ELSE "patch"]
              BY <1>4, <2>2 DEF Files!CheckBinary, Files!Goto
          <3>2. fileCall[c] \in FileCalls /\ fileCall[c].at = "binary"
              BY <1>4, FileFields DEF Files!CheckBinary, Files!At, FileInv
          <3>3. CASE fileCall[c].tool = "read_file"
              <4> DEFINE n == [fileCall[c] EXCEPT !.at = "stat"]
              <4>1. n \in FileCalls /\ n.at = "stat"
                  BY <3>2, <3>3 DEF FileCalls, Files!New, Files!Over
              <4>2. fileCall' = [fileCall EXCEPT ![c] = n]
                  BY <3>1, <3>3 DEF FileInv, FileTypes
              <4> HIDE DEF n
              <4> QED BY <1>4, <4>1, <4>2, FileQuiet DEF Files!CheckBinary, Files!Quiet
          <3>4. CASE fileCall[c].tool # "read_file"
              <4> DEFINE n == [fileCall[c] EXCEPT !.at = "patch"]
              <4>1. n \in FileCalls /\ n.at = "patch"
                  BY <3>2, <3>4 DEF FileCalls, Files!New, Files!Over
              <4>2. fileCall' = [fileCall EXCEPT ![c] = n]
                  BY <3>1, <3>4 DEF FileInv, FileTypes
              <4> HIDE DEF n
              <4> QED BY <1>4, <4>1, <4>2, FileQuiet DEF Files!CheckBinary, Files!Quiet
          <3> QED BY <3>3, <3>4
      <2> QED BY <2>1, <2>2
  <1> QED BY <1>1, <1>2, <1>3, <1>4

\* What is under a name was created, holds what a writer meant, and belongs to
\* no writer.
LEMMA FileNamed ==
  ASSUME FileInv, NEW p \in Path, name[p] # NoFile
  PROVE  /\ name[p] \in Inode /\ name[p] <= used /\ data[name[p]] \in whole /\ data[name[p]] \in Seq(Piece)
         /\ \A d \in ToolCall : FileWrites(fileCall[d]) => fileCall[d].file # name[p]
  BY DEF FileInv, FileTypes, NamesWhole, Writers, WriterSound

LEMMA FileRead ==
  ASSUME FileInv, NEW c \in ToolCall, Files!Stat(c) \/ Files!OpenFile(c) \/ Files!ReadAll(c)
  PROVE  FileInv'
  <1>0. fileCall[c] \in FileCalls
      BY FileFields DEF FileInv
  <1>1. CASE Files!Stat(c)
      <2>1. CASE Files!End(c)
          BY <1>1, <2>1, FileEnds DEF Files!Stat, Files!Quiet
      <2>2. CASE ~Files!End(c)
          <3> DEFINE i == name[fileCall[c].path]
                     n == [at |-> "open", tool |-> "read_file", path |-> fileCall[c].path, size |-> Len(data[i])]
          <3>1. i # NoFile /\ fileCall' = [fileCall EXCEPT ![c] = n]
              BY <1>1, <2>2 DEF Files!Stat
          <3>2. fileCall[c].path \in Path
              BY <1>0, <1>1, FileShapes DEF Files!Stat, Files!At
          <3>3. Len(data[i]) \in Nat
              BY <3>1, <3>2, FileNamed, LenProperties
          <3> HIDE DEF i
          <3>4. n \in FileCalls /\ n.at = "open"
              BY <3>2, <3>3 DEF FileCalls
          <3> HIDE DEF n
          <3> QED BY <1>1, <3>1, <3>4, FileQuiet DEF Files!Stat, Files!Quiet
      <2> QED BY <2>1, <2>2
  <1>2. CASE Files!OpenFile(c)
      <2>1. CASE Files!End(c)
          BY <1>2, <2>1, FileEnds DEF Files!OpenFile, Files!Quiet
      <2>2. CASE ~Files!End(c)
          <3> DEFINE i == name[fileCall[c].path]
                     n == [at |-> "read", tool |-> "read_file", path |-> fileCall[c].path, size |-> fileCall[c].size,
                       file |-> i]
          <3>1. i # NoFile /\ fileCall' = [fileCall EXCEPT ![c] = n]
              BY <1>2, <2>2 DEF Files!OpenFile
          <3>2. fileCall[c].path \in Path /\ fileCall[c].size \in Nat
              BY <1>0, <1>2, FileShapes DEF Files!OpenFile, Files!At
          <3>3. /\ i \in Inode /\ i <= used /\ data[i] \in whole
                /\ \A d \in ToolCall : FileWrites(fileCall[d]) => fileCall[d].file # i
              BY <3>1, <3>2, FileNamed
          <3> HIDE DEF i
          <3>4. n \in FileCalls /\ n.at = "read" /\ n.file = i
              BY <3>2, <3>3 DEF FileCalls
          <3> HIDE DEF n
          <3>5. \A d \in ToolCall : fileCall'[d] = IF d = c THEN n ELSE fileCall[d]
              BY <3>1 DEF FileInv, FileTypes
          <3>6. UNCHANGED <<name, temp, data, used, whole>> /\ shown' = {}
              BY <1>2 DEF Files!OpenFile, Files!Quiet
          <3>7. FileTypes'
              BY <3>1, <3>4, <3>6 DEF FileInv, FileTypes
          <3>8. NamesWhole' /\ Spare'
              BY <3>6 DEF FileInv, NamesWhole, Spare
          <3>9. Writers'
              BY <3>4, <3>5, <3>6 DEF FileInv, Writers, WriterSound, FileWrites
          <3>10. Readers'
              BY <3>3, <3>4, <3>5, <3>6 DEF FileInv, Readers, FileWrites
          <3>11. \A d \in ToolCall : fileCall'[d].at = "write" => fileCall'[d].text \in whole'
              BY <3>4, <3>5, <3>6 DEF FileInv
          <3> QED BY <3>6, <3>7, <3>8, <3>9, <3>10, <3>11 DEF FileInv
      <2> QED BY <2>1, <2>2
  <1>3. CASE Files!ReadAll(c)
      <2>1. data[fileCall[c].file] \in whole
          BY <1>3 DEF Files!ReadAll, Files!At, FileInv, Readers
      <2>2. \A s \in shown' : s.ok
          BY <1>3, <2>1 DEF Files!ReadAll
      <2> QED BY <1>3, <2>2, FileEnds DEF Files!ReadAll
  <1> QED BY <1>1, <1>2, <1>3

-----------------------------------------------------------------------------
\* A replacement keeps a text a text.
LEMMA FilePatched ==
  ASSUME NEW text \in Seq(Piece), NEW old \in Piece, NEW new \in Piece
  PROVE  Files!Patched(text, old, new) \in Seq(Piece)
  <1>1. \A i \in 1..Len(text) : Files!Patched(text, old, new)[i] \in Piece
      BY DEF Files!Patched
  <1>2. Files!Patched(text, old, new) = [i \in 1..Len(text) |-> Files!Patched(text, old, new)[i]]
      BY DEF Files!Patched
  <1> QED BY <1>1, <1>2, LenProperties, SeqDef

LEMMA FileBegin ==
  ASSUME FileInv, NEW c \in ToolCall, Files!BeginWrite(c) \/ Files!ReadFile(c)
  PROVE  FileInv'
  <1>0. fileCall[c] \in FileCalls
      BY FileFields DEF FileInv
  <1>1. CASE Files!BeginWrite(c)
      <2>1. PICK p \in Path, text \in Text :
              fileCall' = [fileCall EXCEPT ![c] = [at |-> "write", tool |-> "write_file", path |-> p, text |-> text]]
          BY <1>1 DEF Files!BeginWrite
      <2> DEFINE n == [at |-> "write", tool |-> "write_file", path |-> p, text |-> text]
      <2>2. text \in whole /\ text \in Seq(Piece)
          BY DEF FileInv, FileTypes
      <2>3. n \in FileCalls /\ n.at = "write" /\ n.text = text
          BY <2>2 DEF FileCalls
      <2> HIDE DEF n
      <2>4. fileCall' = [fileCall EXCEPT ![c] = n]
          BY <2>1 DEF n
      <2>5. UNCHANGED <<name, data, used, temp, whole>> /\ shown' = {}
          BY <1>1 DEF Files!BeginWrite, Files!Quiet
      <2>6. temp' \subseteq Inode /\ whole \subseteq whole' /\ whole' \subseteq Seq(Piece)
          BY <2>5 DEF FileInv, FileTypes
      <2> QED BY <2>2, <2>3, <2>4, <2>5, <2>6, FileOnlyCall
  <1>2. CASE Files!ReadFile(c)
      <2> DEFINE i == name[fileCall[c].path]
                 text == Files!Patched(data[i], fileCall[c].old, fileCall[c].new)
      <2>1. CASE i = NoFile \/ Files!Count(data[i], fileCall[c].old) # 1
          BY <1>2, <2>1, FileEnds DEF Files!ReadFile
      <2>2. CASE ~(i = NoFile \/ Files!Count(data[i], fileCall[c].old) # 1)
          <3> DEFINE n == [at |-> "write", tool |-> "apply_patch", path |-> fileCall[c].path, text |-> text]
          <3>1. fileCall[c].path \in Path /\ fileCall[c].old \in Piece /\ fileCall[c].new \in Piece
              BY <1>0, <1>2, FileShapes DEF Files!ReadFile, Files!At
          <3>2. data[i] \in Seq(Piece)
              BY <2>2, <3>1, FileNamed
          <3>3. text \in Seq(Piece)
              BY <3>1, <3>2, FilePatched
          <3>4. fileCall' = [fileCall EXCEPT ![c] = n] /\ whole' = whole \cup {text}
              BY <1>2, <2>2 DEF Files!ReadFile
          <3>5. UNCHANGED <<name, data, used, temp>> /\ shown' = {}
              BY <1>2 DEF Files!ReadFile
          <3> HIDE DEF text
          <3>6. n \in FileCalls /\ n.at = "write" /\ n.text = text
              BY <3>1, <3>3 DEF FileCalls
          <3> HIDE DEF n
          <3>7. temp' \subseteq Inode /\ whole \subseteq whole' /\ whole' \subseteq Seq(Piece) /\ n.text \in whole'
              BY <3>3, <3>4, <3>5, <3>6 DEF FileInv, FileTypes
          <3> QED BY <3>4, <3>5, <3>6, <3>7, FileOnlyCall
      <2> QED BY <2>1, <2>2
  <1> QED BY <1>1, <1>2

\* The temporary file is a file nobody has.
LEMMA FileCreate ==
  ASSUME FileInv, NEW c \in ToolCall, Files!CreateTemp(c)
  PROVE  FileInv'
  <1> DEFINE i == used + 1
             n == [at |-> "fill", tool |-> fileCall[c].tool, path |-> fileCall[c].path, text |-> fileCall[c].text,
               file |-> i]
  <1>1. fileCall[c] \in FileCalls /\ fileCall[c].at = "write" /\ fileCall[c].text \in whole
      BY FileFields DEF Files!CreateTemp, Files!At, FileInv
  <1>2. /\ fileCall[c].path \in Path /\ fileCall[c].text \in Seq(Piece)
        /\ fileCall[c].tool \in {"write_file", "apply_patch"}
      BY <1>1, FileShapes
  <1>3. used \in Nat /\ i \in Nat /\ i > used /\ i \in Inode /\ i # NoFile
      BY FileAssumption DEF Files!CreateTemp, FileInv, FileTypes
  <1>4. data[i] = <<>> /\ \A p \in Path : name[p] # i
      <2>1. data[i] = <<>>
          BY <1>3 DEF FileInv, Spare
      <2>2. \A p \in Path : name[p] # i
          BY <1>3, FileNamed
      <2> QED BY <2>1, <2>2
  <1>5. /\ used' = i /\ fileCall' = [fileCall EXCEPT ![c] = n] /\ temp' = temp \cup {i}
        /\ UNCHANGED <<name, data, whole>> /\ shown' = {}
      BY DEF Files!CreateTemp
  <1>51. \A d \in ToolCall : fileCall[d].at \in {"read", "fill", "rename"} => fileCall[d].file <= used
           /\ fileCall[d].file \in Inode
      <2> SUFFICES ASSUME NEW d \in ToolCall, fileCall[d].at \in {"read", "fill", "rename"}
                   PROVE  fileCall[d].file <= used /\ fileCall[d].file \in Inode
          OBVIOUS
      <2>1. fileCall[d].file \in Inode
          BY FileFields, FileShapes DEF FileInv
      <2>2. CASE fileCall[d].at = "read"
          BY <2>1, <2>2 DEF FileInv, Readers
      <2>3. CASE fileCall[d].at # "read"
          BY <2>1, <2>3 DEF FileInv, Writers, WriterSound, FileWrites
      <2> QED BY <2>2, <2>3
  <1>52. \A d \in ToolCall : fileCall[d].at \in {"read", "fill", "rename"} => fileCall[d].file # i
           /\ fileCall[d].file \in Nat
      <2> SUFFICES ASSUME NEW d \in ToolCall, fileCall[d].at \in {"read", "fill", "rename"}
                   PROVE  fileCall[d].file # i /\ fileCall[d].file \in Nat
          OBVIOUS
      <2>1. fileCall[d].file <= used /\ fileCall[d].file \in Nat
          BY <1>51, FileAssumption
      <2> QED BY <1>3, <2>1
  <1> HIDE DEF i
  <1>6. n \in FileCalls /\ n.at = "fill" /\ n.file = i /\ n.text = fileCall[c].text
      BY <1>2, <1>3 DEF FileCalls
  <1> HIDE DEF n
  <1>7. \A d \in ToolCall : fileCall'[d] = IF d = c THEN n ELSE fileCall[d]
      BY <1>5 DEF FileInv, FileTypes
  <1>8. FileTypes'
      BY <1>3, <1>5, <1>6 DEF FileInv, FileTypes
  <1>9. NamesWhole' /\ Spare'
      <2>1. NamesWhole'
          <3> SUFFICES ASSUME NEW p \in Path, name'[p] # NoFile
                       PROVE  name'[p] <= used' /\ data'[name'[p]] \in whole'
              BY DEF NamesWhole
          <3>1. name[p] \in Nat /\ name[p] <= used /\ data[name[p]] \in whole
              BY <1>5, FileNamed, FileAssumption
          <3> QED BY <1>3, <1>5, <3>1
      <2>2. Spare'
          <3> SUFFICES ASSUME NEW j \in Inode, j > used' PROVE data'[j] = <<>>
              BY DEF Spare
          <3>1. j \in Nat /\ j > used
              BY <1>3, <1>5, FileAssumption
          <3> QED BY <1>5, <3>1 DEF FileInv, Spare
      <2> QED BY <2>1, <2>2
  <1>10. Writers'
      <2>1. WriterSound(fileCall[c])'
          <3>1. data'[n.file] = <<>> /\ n.text \in whole' /\ n.file <= used' /\ \A p \in Path : name'[p] # n.file
              <4>1. i <= i
                  BY <1>3
              <4> QED BY <1>1, <1>4, <1>5, <1>6, <4>1
          <3>2. n.text \in Seq(Piece) /\ Len(n.text) \in Nat /\ Len(<<>>) = 0 /\ <<>> \in Seq(Piece)
              BY <1>2, <1>6
          <3>3. fileCall'[c] = n /\ n.at # "rename"
              BY <1>6, <1>7
          <3>4. /\ n.text \in whole' /\ n.file <= used' /\ \A p \in Path : name'[p] # n.file
                /\ data'[n.file] \in Seq(Piece) /\ Len(data'[n.file]) <= Len(n.text)
                /\ \A k \in 1..Len(data'[n.file]) : data'[n.file][k] = n.text[k]
                /\ n.at = "rename" => data'[n.file] = n.text
              BY <3>1, <3>2, <3>3
          <3> HIDE DEF n
          <3> QED BY <3>3, <3>4 DEF WriterSound
      <2>2. ASSUME NEW d \in ToolCall, d # c, FileWrites(fileCall[d])
            PROVE  WriterSound(fileCall[d])'
          <3>1. WriterSound(fileCall[d])
              BY <2>2 DEF FileInv, Writers
          <3>2. fileCall[d].file \in Nat
              BY <1>52, <2>2 DEF FileWrites
          <3> QED BY <1>3, <1>5, <1>7, <2>2, <3>1, <3>2 DEF WriterSound
      <2>3. ASSUME NEW d \in ToolCall, NEW e \in ToolCall, FileWrites(fileCall'[d]), FileWrites(fileCall'[e]),
                   fileCall'[d].file = fileCall'[e].file
            PROVE  d = e
          BY <1>52, <1>6, <1>7, <2>3 DEF FileInv, Writers, FileWrites
      <2>4. ASSUME NEW d \in ToolCall, FileWrites(fileCall'[d])
            PROVE  WriterSound(fileCall[d])'
          <3>1. CASE d = c
              BY <2>1, <3>1
          <3>2. CASE d # c
              BY <1>7, <2>2, <2>4, <3>2
          <3> QED BY <3>1, <3>2
      <2> QED BY <2>3, <2>4 DEF Writers
  <1>11. Readers'
      <2>1. ASSUME NEW d \in ToolCall, fileCall'[d].at = "read"
            PROVE  fileCall'[d].file <= used' /\ data'[fileCall'[d].file] \in whole'
          <3>1. d # c /\ fileCall'[d] = fileCall[d]
              BY <1>6, <1>7, <2>1
          <3>2. fileCall[d].file <= used /\ data[fileCall[d].file] \in whole /\ fileCall[d].file \in Nat
              BY <1>52, <2>1, <3>1 DEF FileInv, Readers
          <3> QED BY <1>3, <1>5, <3>1, <3>2
      <2>2. ASSUME NEW d \in ToolCall, NEW e \in ToolCall, fileCall'[d].at = "read", FileWrites(fileCall'[e])
            PROVE  fileCall'[d].file # fileCall'[e].file
          BY <1>52, <1>6, <1>7, <2>2 DEF FileInv, Readers, FileWrites
      <2> QED BY <2>1, <2>2 DEF Readers
  <1>12. \A d \in ToolCall : fileCall'[d].at = "write" => fileCall'[d].text \in whole'
      BY <1>5, <1>6, <1>7 DEF FileInv
  <1> QED BY <1>5, <1>8, <1>9, <1>10, <1>11, <1>12 DEF FileInv

\* A writer's file grows by the next piece of its text and nobody else sees it.
LEMMA FileFill ==
  ASSUME FileInv, NEW c \in ToolCall, Files!Fill(c)
  PROVE  FileInv'
  <1> DEFINE i == fileCall[c].file
             text == fileCall[c].text
  <1>1. fileCall[c] \in FileCalls /\ fileCall[c].at = "fill" /\ FileWrites(fileCall[c])
      BY FileFields DEF Files!Fill, Files!At, FileInv, FileWrites
  <1>2. i \in Inode /\ text \in Seq(Piece) /\ Len(text) \in Nat
      BY <1>1, FileShapes
  <1>3. WriterSound(fileCall[c])
      BY <1>1 DEF FileInv, Writers
  <1>4. /\ data[i] \in Seq(Piece) /\ Len(data[i]) \in Nat /\ Len(data[i]) <= Len(text)
        /\ \A k \in 1..Len(data[i]) : data[i][k] = text[k]
      BY <1>3 DEF WriterSound
  <1>5. UNCHANGED <<name, temp, used, whole>> /\ shown' = {}
      BY DEF Files!Fill
  <1>6. CASE Len(data[i]) < Len(text)
      <2> DEFINE more == Append(data[i], text[Len(data[i]) + 1])
      <2>1. data' = [data EXCEPT ![i] = more] /\ fileCall' = fileCall
          BY <1>6 DEF Files!Fill
      <2>2. /\ more \in Seq(Piece) /\ Len(more) = Len(data[i]) + 1
            /\ \A k \in 1..Len(more) : more[k] = text[k]
          <3>1. text[Len(data[i]) + 1] \in Piece
              BY <1>2, <1>4, <1>6
          <3> QED BY <1>4, <3>1, AppendProperties
      <2> HIDE DEF more
      <2>3. data'[i] = more /\ \A j \in Inode : j # i => data'[j] = data[j]
          BY <1>2, <2>1 DEF FileInv, FileTypes
      <2>31. data' = [j \in Inode |-> data'[j]]
          BY <2>1 DEF FileInv, FileTypes
      <2>4. FileTypes'
          BY <1>5, <2>1, <2>31 DEF FileInv, FileTypes
      <2>5. NamesWhole'
          <3> SUFFICES ASSUME NEW p \in Path, name'[p] # NoFile
                       PROVE  name'[p] <= used' /\ data'[name'[p]] \in whole'
              BY DEF NamesWhole
          <3>1. name[p] # i /\ name[p] \in Inode /\ name[p] <= used /\ data[name[p]] \in whole
              BY <1>1, <1>5, FileNamed
          <3> QED BY <1>5, <2>3, <3>1
      <2>6. Spare'
          <3> SUFFICES ASSUME NEW j \in Inode, j > used PROVE data'[j] = <<>>
              BY <1>5 DEF Spare
          <3>1. i <= used
              BY <1>3 DEF WriterSound
          <3>2. j # i
              BY <1>2, <3>1, FileAssumption DEF FileInv, FileTypes
          <3> QED BY <2>3, <3>2 DEF FileInv, Spare
      <2>7. Writers'
          <3>1. ASSUME NEW d \in ToolCall, FileWrites(fileCall[d])
                PROVE  WriterSound(fileCall[d])'
              <4>1. CASE d = c
                  <5>1. Len(more) <= Len(text)
                      BY <1>2, <1>4, <1>6, <2>2
                  <5> QED BY <1>1, <1>3, <1>5, <2>1, <2>2, <2>3, <4>1, <5>1 DEF WriterSound
              <4>2. CASE d # c
                  <5>1. fileCall[d].file # i /\ fileCall[d].file \in Inode
                      BY <1>1, <3>1, <4>2, FileFields, FileShapes DEF FileInv, Writers, FileWrites
                  <5>2. WriterSound(fileCall[d]) /\ data'[fileCall[d].file] = data[fileCall[d].file]
                      BY <2>3, <3>1, <5>1 DEF FileInv, Writers
                  <5> QED BY <1>5, <2>1, <5>2 DEF WriterSound
              <4> QED BY <4>1, <4>2
          <3> QED BY <2>1, <3>1 DEF FileInv, Writers
      <2>8. Readers'
          <3>1. ASSUME NEW d \in ToolCall, fileCall[d].at = "read"
                PROVE  fileCall[d].file <= used /\ data'[fileCall[d].file] \in whole
              <4>1. fileCall[d].file # i /\ fileCall[d].file \in Inode /\ fileCall[d].file <= used
                      /\ data[fileCall[d].file] \in whole
                  BY <1>1, <3>1, FileFields, FileShapes DEF FileInv, Readers
              <4> QED BY <2>3, <4>1
          <3> QED BY <1>5, <2>1, <3>1 DEF FileInv, Readers
      <2> QED BY <1>5, <2>1, <2>4, <2>5, <2>6, <2>7, <2>8 DEF FileInv
  <1>7. CASE ~(Len(data[i]) < Len(text))
      <2> DEFINE n == [fileCall[c] EXCEPT !.at = "rename"]
      <2>1. data' = data /\ fileCall' = [fileCall EXCEPT ![c] = n]
          BY <1>7 DEF Files!Fill, Files!Goto, FileInv, FileTypes
      <2>2. data[i] = text
          BY <1>2, <1>4, <1>7, SeqEqual
      <2>3. n \in FileCalls /\ n.at = "rename" /\ n.file = i /\ n.text = text
          BY <1>1 DEF FileCalls, Files!New, Files!Over
      <2> HIDE DEF n
      <2>4. \A d \in ToolCall : fileCall'[d] = IF d = c THEN n ELSE fileCall[d]
          BY <2>1 DEF FileInv, FileTypes
      <2>5. FileTypes'
          BY <1>5, <2>1, <2>3 DEF FileInv, FileTypes
      <2>6. NamesWhole' /\ Spare'
          BY <1>5, <2>1 DEF FileInv, NamesWhole, Spare
      <2>7. Writers'
          <3>1. ASSUME NEW d \in ToolCall, FileWrites(fileCall'[d])
                PROVE  WriterSound(fileCall[d])'
              <4>1. CASE d = c
                  BY <1>3, <1>5, <2>1, <2>2, <2>3, <2>4, <4>1 DEF WriterSound
              <4>2. CASE d # c
                  <5>1. WriterSound(fileCall[d]) /\ fileCall'[d] = fileCall[d]
                      BY <2>4, <3>1, <4>2 DEF FileInv, Writers
                  <5> QED BY <1>5, <2>1, <5>1 DEF WriterSound
              <4> QED BY <4>1, <4>2
          <3>2. ASSUME NEW d \in ToolCall, NEW e \in ToolCall, FileWrites(fileCall'[d]), FileWrites(fileCall'[e]),
                       fileCall'[d].file = fileCall'[e].file
                PROVE  d = e
              BY <1>1, <2>3, <2>4, <3>2 DEF FileInv, Writers, FileWrites
          <3> QED BY <3>1, <3>2 DEF Writers
      <2>8. Readers'
          BY <1>1, <1>5, <2>1, <2>3, <2>4 DEF FileInv, Readers, FileWrites
      <2>9. \A d \in ToolCall : fileCall'[d].at = "write" => fileCall'[d].text \in whole'
          BY <1>5, <2>3, <2>4 DEF FileInv
      <2> QED BY <1>5, <2>5, <2>6, <2>7, <2>8, <2>9 DEF FileInv
  <1> QED BY <1>6, <1>7

\* The new file under the name is the whole text, and its writer is done.
LEMMA FileRename ==
  ASSUME FileInv, NEW c \in ToolCall, Files!Rename(c)
  PROVE  FileInv'
  <1> DEFINE i == fileCall[c].file
             p == fileCall[c].path
  <1>1. fileCall[c] \in FileCalls /\ fileCall[c].at = "rename" /\ FileWrites(fileCall[c])
      BY FileFields DEF Files!Rename, Files!At, FileInv, FileWrites
  <1>2. i \in Inode /\ p \in Path /\ i # NoFile
      BY <1>1, FileShapes, FileAssumption
  <1>3. WriterSound(fileCall[c]) /\ data[i] \in whole /\ i <= used
      BY <1>1 DEF FileInv, Writers, WriterSound
  <1>4. /\ name' = [name EXCEPT ![p] = i] /\ temp' = temp \ {i} /\ fileCall' = [fileCall EXCEPT ![c] = Files!Over]
        /\ UNCHANGED <<data, used, whole>> /\ shown' = {}
      BY DEF Files!Rename, Files!End
  <1>5. \A d \in ToolCall : fileCall'[d] = IF d = c THEN Files!Over ELSE fileCall[d]
      BY <1>4 DEF FileInv, FileTypes
  <1>6. \A q \in Path : name'[q] = IF q = p THEN i ELSE name[q]
      BY <1>4 DEF FileInv, FileTypes
  <1>7. FileTypes'
      BY <1>2, <1>4, FileRest DEF FileInv, FileTypes
  <1>8. NamesWhole' /\ Spare'
      BY <1>3, <1>4, <1>6 DEF FileInv, NamesWhole, Spare
  <1>9. \A d \in ToolCall : FileWrites(fileCall'[d]) =>
          d # c /\ fileCall'[d] = fileCall[d] /\ FileWrites(fileCall[d]) /\ fileCall[d].file # i
      BY <1>1, <1>5, FileRest DEF FileInv, Writers, FileWrites
  <1>10. Writers'
      <2>1. ASSUME NEW d \in ToolCall, FileWrites(fileCall'[d])
            PROVE  WriterSound(fileCall[d])'
          <3>1. fileCall'[d] = fileCall[d] /\ fileCall[d].file # i /\ WriterSound(fileCall[d])
              BY <1>9, <2>1 DEF FileInv, Writers
          <3>2. \A q \in Path : name'[q] # fileCall[d].file
              BY <1>6, <3>1 DEF WriterSound
          <3> QED BY <1>4, <3>1, <3>2 DEF WriterSound
      <2>2. \A d, e \in ToolCall : FileWrites(fileCall'[d]) /\ FileWrites(fileCall'[e])
              /\ fileCall'[d].file = fileCall'[e].file => d = e
          BY <1>9 DEF FileInv, Writers
      <2> QED BY <2>1, <2>2 DEF Writers
  <1>11. Readers'
      <2>1. \A d \in ToolCall : fileCall'[d].at = "read" => fileCall'[d] = fileCall[d]
          BY <1>5, FileRest
      <2> QED BY <1>4, <1>9, <2>1 DEF FileInv, Readers
  <1>12. \A d \in ToolCall : fileCall'[d].at = "write" => fileCall'[d].text \in whole'
      BY <1>4, <1>5, FileRest DEF FileInv
  <1> QED BY <1>4, <1>7, <1>8, <1>10, <1>11, <1>12 DEF FileInv

LEMMA FileRemove ==
  ASSUME FileInv, NEW c \in ToolCall, Files!RemoveTemp(c)
  PROVE  FileInv'
  <1>1. temp' \subseteq Inode /\ whole \subseteq whole' /\ whole' \subseteq Seq(Piece)
      BY DEF Files!RemoveTemp, FileInv, FileTypes
  <1> QED BY <1>1, FileRest, FileOnlyCall DEF Files!RemoveTemp, Files!End

\* A crash leaves the names and what is under them as they are.
LEMMA FileCrash ==
  ASSUME FileInv, Files!Crash
  PROVE  FileInv'
  <1>1. /\ fileCall' = [c \in ToolCall |-> IF fileCall[c] = Files!New THEN Files!New ELSE Files!Over]
        /\ UNCHANGED <<name, temp, data, used, whole>> /\ shown' = {}
      BY DEF Files!Crash, Files!Quiet
  <1>2. \A c \in ToolCall : fileCall'[c].at \in {"new", "over"}
      BY <1>1, FileRest
  <1>3. FileTypes'
      BY <1>1, FileRest DEF FileInv, FileTypes
  <1>4. NamesWhole' /\ Spare'
      BY <1>1 DEF FileInv, NamesWhole, Spare
  <1>5. Writers' /\ Readers'
      BY <1>2 DEF Writers, Readers, FileWrites
  <1> QED BY <1>1, <1>2, <1>3, <1>4, <1>5 DEF FileInv

LEMMA FileStep == FileInv /\ [Files!Next]_(Files!vars) => FileInv'
  <1> SUFFICES ASSUME FileInv, [Files!Next]_(Files!vars) PROVE FileInv'
      OBVIOUS
  <1>1. CASE Files!Crash
      BY <1>1, FileCrash
  <1>2. CASE UNCHANGED Files!vars
      BY <1>2 DEF Files!vars, FileInv, FileTypes, NamesWhole, Spare, Writers, WriterSound, Readers, FileWrites
  <1>3. CASE \E c \in ToolCall :
               \/ Files!BeginWalk(c) \/ Files!BeginRead(c) \/ Files!BeginWrite(c) \/ Files!BeginPatch(c)
               \/ Files!Fail(c)
               \/ Files!Visit(c) \/ Files!WalkEnds(c) \/ Files!CheckBinary(c) \/ Files!Stat(c) \/ Files!OpenFile(c)
               \/ Files!ReadAll(c)
               \/ Files!ReadFile(c) \/ Files!CreateTemp(c) \/ Files!Fill(c) \/ Files!Rename(c) \/ Files!RemoveTemp(c)
      BY <1>3, FileWalk, FileLook, FileRead, FileBegin, FileCreate, FileFill, FileRename, FileRemove
  <1> QED BY <1>1, <1>2, <1>3 DEF Files!Next

-----------------------------------------------------------------------------
(* The file tools implement FilePromise.                                   *)

\* The promise's variables under the mapping of FileTools.
Store == [p \in {q \in Path : name[q] # NoFile} |-> data[name[p]]]
Jobs == [c \in ToolCall |-> Files!JobOf(fileCall[c])]
Told == {[path |-> s.path, text |-> s.text] : s \in {t \in shown : t.path \in Path}}

\* The promise's steps, written with them.
LEMMA PromisePass ==
  ASSUME Told' = {}, Store' = Store, Jobs' = Jobs
  PROVE  Files!Promise!Next
  BY DEF Files!Promise!Next, Files!Promise!Pass, Store, Jobs, Told

LEMMA PromiseNext ==
  ASSUME NEW c \in ToolCall,
         \/ Files!Promise!Start(c) \/ Files!Promise!Leave(c) \/ Files!Promise!Look(c) \/ Files!Promise!Take(c)
         \/ Files!Promise!Tell(c) \/ Files!Promise!Patch(c) \/ Files!Promise!Write(c)
  PROVE  Files!Promise!Next
  BY Zenon DEF Files!Promise!Next

LEMMA PromiseStart ==
  ASSUME NEW c \in ToolCall, Jobs[c] = Files!New, NEW j, Jobs' = [Jobs EXCEPT ![c] = j],
         \/ j = [at |-> "looks"]
         \/ \E p \in Path \ Secret : j = [at |-> "reads", path |-> p]
         \/ \E p \in Path, text \in Text : j = [at |-> "writes", path |-> p, text |-> text]
         \/ \E p \in Path, old, new \in Piece : j = [at |-> "patches", path |-> p, old |-> old, new |-> new],
         Told' = {}, Store' = Store
  PROVE  Files!Promise!Next
  <1> DEFINE Becomes(m) == Jobs' = [Jobs EXCEPT ![c] = m]
  <1>2. \/ Becomes([at |-> "looks"])
        \/ \E p \in Path \ Secret : Becomes([at |-> "reads", path |-> p])
        \/ \E p \in Path, text \in Text : Becomes([at |-> "writes", path |-> p, text |-> text])
        \/ \E p \in Path, old, new \in Piece : Becomes([at |-> "patches", path |-> p, old |-> old, new |-> new])
      OBVIOUS
  <1>3. \A m : Becomes(m) <=> Files!Promise!Becomes(c, m)
      BY DEF Files!Promise!Becomes, Jobs
  <1> HIDE DEF Becomes
  <1>1. Files!Promise!Start(c)
      <2>1. Files!Promise!Start(c) <=>
              /\ Jobs[c] = Files!Promise!New
              /\ \/ Files!Promise!Becomes(c, [at |-> "looks"])
                 \/ \E p \in Path \ Secret : Files!Promise!Becomes(c, [at |-> "reads", path |-> p])
                 \/ \E p \in Path, text \in Text :
                      Files!Promise!Becomes(c, [at |-> "writes", path |-> p, text |-> text])
                 \/ \E p \in Path, old, new \in Piece :
                      Files!Promise!Becomes(c, [at |-> "patches", path |-> p, old |-> old, new |-> new])
              /\ Told' = {} /\ Store' = Store
          BY DEF Files!Promise!Start, Store, Jobs, Told
      <2> QED BY <1>2, <1>3, <2>1 DEF Files!Promise!New, Files!New
  <1> QED BY <1>1, PromiseNext, Zenon

LEMMA PromiseLeave ==
  ASSUME NEW c \in ToolCall, Jobs[c] \notin {Files!New, Files!Over}, Jobs' = [Jobs EXCEPT ![c] = Files!Over],
         Told' = {}, Store' = Store
  PROVE  Files!Promise!Next
  <1>1. Files!Promise!Leave(c)
      BY DEF Files!Promise!Leave, Files!Promise!Becomes, Files!Promise!New, Files!New, Files!Promise!Over, Files!Over,
             Store, Jobs, Told
  <1> QED BY <1>1, PromiseNext, Zenon

LEMMA PromiseLook ==
  ASSUME NEW c \in ToolCall, Jobs[c].at = "looks", NEW p \in DOMAIN Store, NEW text, p \in Path,
         text = <<>> \/ (p \notin Secret /\ \E i \in DOMAIN Store[p] : text = <<Store[p][i]>>),
         Told' = {[path |-> p, text |-> text]}, Store' = Store, Jobs' = Jobs
  PROVE  Files!Promise!Next
  <1>1. text \in Files!Promise!Glimpses(p)
      BY DEF Files!Promise!Glimpses, Store
  <1>2. Files!Promise!Look(c)
      BY <1>1 DEF Files!Promise!Look, Store, Jobs, Told
  <1> QED BY <1>2, PromiseNext, Zenon

LEMMA PromiseTake ==
  ASSUME NEW c \in ToolCall, Jobs[c].at = "reads", Jobs[c].path \in DOMAIN Store,
         Jobs' = [Jobs EXCEPT ![c] = [at |-> "holds", path |-> Jobs[c].path, text |-> Store[Jobs[c].path]]],
         Told' = {}, Store' = Store
  PROVE  Files!Promise!Next
  <1>1. Files!Promise!Take(c)
      BY DEF Files!Promise!Take, Files!Promise!Becomes, Store, Jobs, Told
  <1> QED BY <1>1, PromiseNext, Zenon

LEMMA PromiseTell ==
  ASSUME NEW c \in ToolCall, Jobs[c].at = "holds",
         Told' = {[path |-> Jobs[c].path, text |-> Files!Limited(Jobs[c].text)]},
         Jobs' = [Jobs EXCEPT ![c] = Files!Over], Store' = Store
  PROVE  Files!Promise!Next
  <1>1. Files!Promise!Tell(c)
      BY DEF Files!Promise!Tell, Files!Promise!Becomes, Files!Promise!Over, Files!Over, Files!Promise!Beginning,
             Files!Limited, Store, Jobs, Told
  <1> QED BY <1>1, PromiseNext, Zenon

LEMMA PromisePatch ==
  ASSUME NEW c \in ToolCall, Jobs[c].at = "patches", Jobs[c].path \in DOMAIN Store,
         NEW text, text = Store[Jobs[c].path], NEW i \in DOMAIN text,
         \A k \in DOMAIN text : text[k] = Jobs[c].old <=> k = i,
         NEW more, more = [text EXCEPT ![i] = Jobs[c].new],
         Jobs' = [Jobs EXCEPT ![c] = [at |-> "writes", path |-> Jobs[c].path, text |-> more]],
         Told' = {}, Store' = Store
  PROVE  Files!Promise!Next
  <1>1. Files!Promise!Patch(c)
      BY Zenon DEF Files!Promise!Patch, Files!Promise!Becomes, Store, Jobs, Told
  <1> QED BY <1>1, PromiseNext, Zenon

LEMMA PromiseWrite ==
  ASSUME NEW c \in ToolCall, Jobs[c].at = "writes", NEW p, p = Jobs[c].path,
         Store' = [q \in DOMAIN Store \cup {p} |-> IF q = p THEN Jobs[c].text ELSE Store[q]],
         Jobs' = [Jobs EXCEPT ![c] = Files!Over], Told' = {}
  PROVE  Files!Promise!Next
  <1>1. Files!Promise!Write(c)
      BY DEF Files!Promise!Write, Files!Promise!Becomes, Files!Promise!Over, Files!Over, Store, Jobs, Told
  <1> QED BY <1>1, PromiseNext, Zenon

LEMMA PromiseCrash ==
  ASSUME Jobs' = [c \in ToolCall |-> IF Jobs[c] = Files!New THEN Files!New ELSE Files!Over],
         Told' = {}, Store' = Store
  PROVE  Files!Promise!Next
  <1>1. Files!Promise!Crash
      BY DEF Files!Promise!Crash, Files!Promise!New, Files!New, Files!Promise!Over, Files!Over, Store, Jobs, Told
  <1> QED BY <1>1 DEF Files!Promise!Next

-----------------------------------------------------------------------------
\* A step that moves one call and changes no file.
LEMMA FileJob ==
  ASSUME FileInv, NEW c \in ToolCall, NEW n, fileCall' = [fileCall EXCEPT ![c] = n], UNCHANGED <<name, data>>
  PROVE  Jobs' = [Jobs EXCEPT ![c] = Files!JobOf(n)] /\ Store' = Store
  <1>1. \A d \in ToolCall : fileCall'[d] = IF d = c THEN n ELSE fileCall[d]
      BY DEF FileInv, FileTypes
  <1>2. \A m : Files!JobOf(m)' = Files!JobOf(m)
      BY DEF Files!JobOf
  <1>3. \A d \in ToolCall : Jobs'[d] = IF d = c THEN Files!JobOf(n) ELSE Files!JobOf(fileCall[d])
      BY <1>1 DEF Jobs, Files!JobOf
  <1>4. Jobs' = [Jobs EXCEPT ![c] = Files!JobOf(n)]
      BY <1>3 DEF Jobs
  <1> QED BY <1>4 DEF Store

\* It means nothing to the promise when the call is about the same as before.
LEMMA FileSameJob ==
  ASSUME FileInv, NEW c \in ToolCall, NEW n, fileCall' = [fileCall EXCEPT ![c] = n], UNCHANGED <<name, data>>,
         Files!JobOf(n) = Files!JobOf(fileCall[c]), shown' = {}
  PROVE  Files!Promise!Next
  <1>1. Jobs' = [Jobs EXCEPT ![c] = Files!JobOf(n)] /\ Store' = Store
      BY FileJob
  <1>2. Jobs' = Jobs
      BY <1>1 DEF Jobs
  <1>3. Told' = {}
      BY DEF Told
  <1> QED BY <1>1, <1>2, <1>3, PromisePass

LEMMA FileJobs ==
  ASSUME NEW n \in FileCalls
  PROVE  /\ n.at \notin {"new", "over"} => Files!JobOf(n) \notin {Files!New, Files!Over}
         /\ n.at = "new" <=> n = Files!New
         /\ n.at = "over" <=> n = Files!Over
  BY DEF FileCalls, Files!JobOf, Files!New, Files!Over

LEMMA FileRestJobs == Files!JobOf(Files!New) = Files!New /\ Files!JobOf(Files!Over) = Files!Over
  BY DEF Files!JobOf, Files!New, Files!Over

\* A call that ends without a word leaves.
LEMMA FileLeaves ==
  ASSUME FileInv, NEW c \in ToolCall, fileCall[c].at \notin {"new", "over"}, Files!End(c),
         UNCHANGED <<name, data>>, shown' = {}
  PROVE  Files!Promise!Next
  <1>1. fileCall' = [fileCall EXCEPT ![c] = Files!Over]
      BY DEF Files!End
  <1>2. Jobs' = [Jobs EXCEPT ![c] = Files!Over] /\ Store' = Store
      BY <1>1, FileJob, FileRestJobs
  <1>3. Jobs[c] \notin {Files!New, Files!Over}
      BY FileFields, FileJobs DEF FileInv, Jobs
  <1>4. Told' = {}
      BY DEF Told
  <1> QED BY <1>2, <1>3, <1>4, PromiseLeave

LEMMA FileBeginsJob ==
  ASSUME FileInv, NEW c \in ToolCall,
         Files!BeginWalk(c) \/ Files!BeginRead(c) \/ Files!BeginWrite(c) \/ Files!BeginPatch(c)
  PROVE  Files!Promise!Next
  <1>1. Jobs[c] = Files!New /\ Told' = {} /\ UNCHANGED <<name, data>>
      BY FileFields, FileJobs, FileRestJobs DEF FileInv, Jobs, Told, Files!BeginWalk, Files!BeginRead, Files!BeginWrite,
         Files!BeginPatch, Files!At, Files!Quiet
  <1>2. CASE Files!BeginWalk(c)
      <2>1. PICK tool \in {"list_files", "search_files"}, hidden \in BOOLEAN, query \in Piece :
              fileCall' = [fileCall EXCEPT ![c] =
                [at |-> "walk", tool |-> tool, hidden |-> hidden, query |-> query, hits |-> 0,
                 left |-> {p \in Path : name[p] # NoFile} \cup (IF hidden THEN temp ELSE {})]]
          BY <1>2 DEF Files!BeginWalk
      <2> DEFINE n == [at |-> "walk", tool |-> tool, hidden |-> hidden, query |-> query, hits |-> 0,
                       left |-> {p \in Path : name[p] # NoFile} \cup (IF hidden THEN temp ELSE {})]
      <2>2. Files!JobOf(n) = [at |-> "looks"]
          BY DEF Files!JobOf
      <2> HIDE DEF n
      <2>3. fileCall' = [fileCall EXCEPT ![c] = n]
          BY <2>1 DEF n
      <2> QED BY <1>1, <2>2, <2>3, FileJob, PromiseStart
  <1>3. CASE Files!BeginRead(c)
      <2>1. PICK p \in Path \ Secret :
              fileCall' = [fileCall EXCEPT ![c] = [at |-> "binary", tool |-> "read_file", path |-> p]]
          BY <1>3 DEF Files!BeginRead, Files!MayRead
      <2>2. Files!JobOf([at |-> "binary", tool |-> "read_file", path |-> p]) = [at |-> "reads", path |-> p]
          BY DEF Files!JobOf
      <2>3. Jobs' = [Jobs EXCEPT ![c] = [at |-> "reads", path |-> p]] /\ Store' = Store
          BY <1>1, <2>1, <2>2, FileJob
      <2> QED BY <1>1, <2>1, <2>3, PromiseStart
  <1>4. CASE Files!BeginWrite(c)
      <2>1. PICK p \in Path, text \in Text :
              fileCall' = [fileCall EXCEPT ![c] = [at |-> "write", tool |-> "write_file", path |-> p, text |-> text]]
          BY <1>4 DEF Files!BeginWrite
      <2>2. Files!JobOf([at |-> "write", tool |-> "write_file", path |-> p, text |-> text])
              = [at |-> "writes", path |-> p, text |-> text]
          BY DEF Files!JobOf
      <2>3. Jobs' = [Jobs EXCEPT ![c] = [at |-> "writes", path |-> p, text |-> text]] /\ Store' = Store
          BY <1>1, <2>1, <2>2, FileJob
      <2> QED BY <1>1, <2>3, PromiseStart
  <1>5. CASE Files!BeginPatch(c)
      <2>1. PICK p \in Path, old \in Piece, new \in Piece :
              fileCall' = [fileCall EXCEPT ![c] =
                [at |-> "binary", tool |-> "apply_patch", path |-> p, old |-> old, new |-> new]]
          BY <1>5 DEF Files!BeginPatch
      <2>2. Files!JobOf([at |-> "binary", tool |-> "apply_patch", path |-> p, old |-> old, new |-> new])
              = [at |-> "patches", path |-> p, old |-> old, new |-> new]
          BY DEF Files!JobOf
      <2>3. Jobs' = [Jobs EXCEPT ![c] = [at |-> "patches", path |-> p, old |-> old, new |-> new]] /\ Store' = Store
          BY <1>1, <2>1, <2>2, FileJob
      <2> QED BY <1>1, <2>3, PromiseStart
  <1> QED BY <1>2, <1>3, <1>4, <1>5

\* What is told of one name.
LEMMA ToldOne ==
  ASSUME NEW p \in Path, NEW text, NEW cut, NEW ok,
         shown' = {[path |-> p, text |-> text, cut |-> cut, ok |-> ok]}
  PROVE  Told' = {[path |-> p, text |-> text]}
  <1> DEFINE s == [path |-> p, text |-> text, cut |-> cut, ok |-> ok]
  <1>1. s.path = p /\ s.text = text
      OBVIOUS
  <1>2. shown' = {s}
      OBVIOUS
  <1> HIDE DEF s
  <1>3. {t \in shown' : t.path \in Path} = {s}
      BY <1>1, <1>2
  <1>4. Told' = {[path |-> t.path, text |-> t.text] : t \in {s}}
      BY <1>3 DEF Told
  <1> QED BY <1>1, <1>4

\* A walk tells what a name holds while it passes it, or nothing: the files
\* under temporary names are not the promise's.
LEMMA FileWalksJob ==
  ASSUME FileInv, NEW c \in ToolCall, Files!Visit(c) \/ Files!WalkEnds(c)
  PROVE  Files!Promise!Next
  <1>0. /\ fileCall[c] \in FileCalls /\ fileCall[c].at = "walk"
        /\ UNCHANGED <<name, data>>
      BY FileFields DEF Files!Visit, Files!WalkEnds, Files!At, Files!Quiet, FileInv
  <1>1. CASE Files!WalkEnds(c)
      BY <1>0, <1>1, FileLeaves DEF Files!WalkEnds, Files!Quiet
  <1>2. CASE Files!Visit(c)
      <2>1. PICK n \in Files!Names(c) :
              IF ~Files!Wanted(c, n)
              THEN fileCall' = [fileCall EXCEPT ![c].left = @ \ {n}] /\ shown' = {}
              ELSE IF Files!FileOf(n) = NoFile \/ fileCall[c].hits >= MaxHits
              THEN Files!End(c) /\ shown' = {}
              ELSE /\ shown' = Files!Hit(c, n)
                   /\ fileCall' = [fileCall EXCEPT ![c].left = @ \ {n}, ![c].hits = @ + Cardinality(Files!Hit(c, n))]
          BY <1>2, FileCardinality DEF Files!Visit
      <2>2. fileCall[c] \in [at : {"walk"}, tool : {"list_files", "search_files"}, hidden : BOOLEAN, query : Piece,
                             hits : Nat, left : SUBSET (Path \cup Inode)]
          BY <1>0, FileShapes
      <2>3. CASE ~Files!Wanted(c, n)
          <3> DEFINE m == [fileCall[c] EXCEPT !.left = @ \ {n}]
          <3>1. fileCall' = [fileCall EXCEPT ![c] = m] /\ shown' = {}
              BY <2>1, <2>3 DEF FileInv, FileTypes
          <3>2. Files!JobOf(m) = Files!JobOf(fileCall[c])
              BY <1>0, <2>2 DEF Files!JobOf
          <3> HIDE DEF m
          <3> QED BY <1>0, <3>1, <3>2, FileSameJob
      <2>4. CASE Files!Wanted(c, n) /\ (Files!FileOf(n) = NoFile \/ fileCall[c].hits >= MaxHits)
          BY <1>0, <2>1, <2>4, FileLeaves
      <2>5. CASE Files!Wanted(c, n) /\ ~(Files!FileOf(n) = NoFile \/ fileCall[c].hits >= MaxHits)
          <3> DEFINE more == Cardinality(Files!Hit(c, n))
                     m == [fileCall[c] EXCEPT !.left = @ \ {n}, !.hits = @ + more]
          <3>1. shown' = Files!Hit(c, n) /\ fileCall' = [fileCall EXCEPT ![c].left = @ \ {n}, ![c].hits = @ + more]
              BY <2>1, <2>5
          <3> HIDE DEF more
          <3>2. fileCall' = [fileCall EXCEPT ![c] = m]
              BY <3>1 DEF FileInv, FileTypes
          <3>3. Files!JobOf(m) = Files!JobOf(fileCall[c]) /\ Files!JobOf(fileCall[c]) = [at |-> "looks"]
              BY <1>0, <2>2 DEF Files!JobOf
          <3> HIDE DEF m
          <3>4. Jobs' = [Jobs EXCEPT ![c] = Files!JobOf(m)] /\ Store' = Store
              BY <1>0, <3>2, FileJob
          <3>5. Jobs' = Jobs /\ Jobs[c] = [at |-> "looks"]
              BY <3>3, <3>4 DEF Jobs
          <3>6. CASE n \notin Path
              <4>1. \A s \in Files!Hit(c, n) : s.path = n
                  BY DEF Files!Hit
              <4>2. Told' = {}
                  BY <3>1, <3>6, <4>1 DEF Told
              <4> QED BY <3>4, <3>5, <4>2, PromisePass
          <3>7. CASE n \in Path
              <4>1. name[n] # NoFile /\ Files!FileOf(n) = name[n]
                  BY <2>5, <3>7 DEF Files!FileOf
              <4>2. n \in DOMAIN Store /\ Store[n] = data[name[n]]
                  BY <3>7, <4>1 DEF Store
              <4>3. CASE fileCall[c].tool = "list_files"
                  <5>1. shown' = {[path |-> n, text |-> <<>>, cut |-> FALSE, ok |-> TRUE]}
                      BY <3>1, <4>3 DEF Files!Hit
                  <5>2. Told' = {[path |-> n, text |-> <<>>]}
                      BY <3>7, <5>1, ToldOne
                  <5> QED BY <3>4, <3>5, <3>7, <4>2, <5>2, PromiseLook
              <4>4. CASE fileCall[c].tool # "list_files"
                  <5> DEFINE q == fileCall[c].query
                             hit == [path |-> n, text |-> <<q>>, cut |-> FALSE, ok |-> TRUE]
                  <5>1. \/ shown' = {}
                        \/ /\ shown' = {hit} /\ n \notin Secret
                           /\ \E i \in DOMAIN data[name[n]] : data[name[n]][i] = q
                      <6>1. Files!Hit(c, n) \subseteq {hit}
                          BY <4>4 DEF Files!Hit
                      <6>2. hit \in Files!Hit(c, n) =>
                              n \notin Secret /\ \E i \in DOMAIN data[name[n]] : data[name[n]][i] = q
                          BY <4>1, <4>4 DEF Files!Hit
                      <6> HIDE DEF hit
                      <6> QED BY <3>1, <6>1, <6>2
                  <5>2. CASE shown' = {}
                      <6>1. Told' = {}
                          BY <5>2 DEF Told
                      <6> QED BY <3>4, <3>5, <6>1, PromisePass
                  <5>3. CASE /\ shown' = {hit} /\ n \notin Secret
                             /\ \E i \in DOMAIN data[name[n]] : data[name[n]][i] = q
                      <6>1. Told' = {[path |-> n, text |-> <<q>>]}
                          BY <3>7, <5>3, ToldOne
                      <6>2. n \notin Secret /\ \E i \in DOMAIN Store[n] : <<q>> = <<Store[n][i]>>
                          BY <4>2, <5>3
                      <6>3. Jobs[c].at = "looks"
                          BY <3>5
                      <6> DEFINE text == <<q>>
                      <6>4. n \notin Secret /\ \E i \in DOMAIN Store[n] : text = <<Store[n][i]>>
                          BY <6>2
                      <6>5. Told' = {[path |-> n, text |-> text]}
                          BY <6>1
                      <6> HIDE DEF text
                      <6> QED BY <3>4, <3>5, <3>7, <4>2, <6>3, <6>4, <6>5, PromiseLook
                  <5> QED BY <5>1, <5>2, <5>3
              <4> QED BY <4>3, <4>4
          <3> QED BY <3>6, <3>7
      <2> QED BY <2>3, <2>4, <2>5
  <1> QED BY <1>1, <1>2

\* Looking at a file before it is opened is no step of the promise; opening it
\* takes the text, and the answer is of that text.
LEMMA FileReadsJob ==
  ASSUME FileInv, NEW c \in ToolCall,
         Files!Fail(c) \/ Files!CheckBinary(c) \/ Files!Stat(c) \/ Files!OpenFile(c) \/ Files!ReadAll(c)
  PROVE  Files!Promise!Next
  <1>0. /\ fileCall[c] \in FileCalls /\ fileCall[c].at \notin {"new", "over"}
        /\ UNCHANGED <<name, data>>
      BY FileFields DEF Files!Fail, Files!CheckBinary, Files!Stat, Files!OpenFile, Files!ReadAll,
         Files!At, Files!Quiet, FileInv
  <1>1. CASE Files!End(c) /\ ~Files!ReadAll(c)
      <2>1. shown' = {}
          BY <1>1 DEF Files!Fail, Files!CheckBinary, Files!Stat, Files!OpenFile, Files!Quiet
      <2> QED BY <1>0, <1>1, <2>1, FileLeaves
  <1>2. CASE Files!CheckBinary(c) /\ ~Files!End(c)
      <2>1. /\ fileCall' = [fileCall EXCEPT ![c].at = IF fileCall[c].tool = "read_file" THEN "stat" ELSE "patch"]
            /\ shown' = {} /\ fileCall[c].at = "binary"
          BY <1>2 DEF Files!CheckBinary, Files!Goto, Files!At, Files!Quiet
      <2> DEFINE n == [fileCall[c] EXCEPT !.at = IF fileCall[c].tool = "read_file" THEN "stat" ELSE "patch"]
      <2>2. fileCall' = [fileCall EXCEPT ![c] = n]
          BY <2>1 DEF FileInv, FileTypes
      <2>3. Files!JobOf(n) = Files!JobOf(fileCall[c])
          BY <1>0, <2>1 DEF FileCalls, Files!JobOf, Files!New, Files!Over
      <2> HIDE DEF n
      <2> QED BY <1>0, <2>1, <2>2, <2>3, FileSameJob
  <1>3. CASE Files!Stat(c) /\ ~Files!End(c)
      <2> DEFINE n == [at |-> "open", tool |-> "read_file", path |-> fileCall[c].path,
                       size |-> Len(data[name[fileCall[c].path]])]
      <2>1. fileCall' = [fileCall EXCEPT ![c] = n] /\ shown' = {} /\ fileCall[c].at = "stat"
          BY <1>3 DEF Files!Stat, Files!At, Files!Quiet
      <2>2. Files!JobOf(n) = Files!JobOf(fileCall[c])
          BY <1>0, <2>1 DEF FileCalls, Files!JobOf, Files!New, Files!Over
      <2> HIDE DEF n
      <2> QED BY <1>0, <2>1, <2>2, FileSameJob
  <1>4. CASE Files!OpenFile(c) /\ ~Files!End(c)
      <2> DEFINE p == fileCall[c].path
                 n == [at |-> "read", tool |-> "read_file", path |-> p, size |-> fileCall[c].size, file |-> name[p]]
      <2>1. name[p] # NoFile /\ fileCall' = [fileCall EXCEPT ![c] = n] /\ shown' = {} /\ fileCall[c].at = "open"
          BY <1>4 DEF Files!OpenFile, Files!At, Files!Quiet
      <2>2. Jobs[c] = [at |-> "reads", path |-> p] /\ p \in Path
          BY <1>0, <2>1 DEF FileCalls, Jobs, Files!JobOf, Files!New, Files!Over
      <2>3. p \in DOMAIN Store /\ Store[p] = data[name[p]]
          BY <2>1, <2>2 DEF Store
      <2>4. Files!JobOf(n) = [at |-> "holds", path |-> p, text |-> data[name[p]]]
          BY DEF Files!JobOf
      <2> HIDE DEF n, p
      <2>5. Jobs' = [Jobs EXCEPT ![c] = [at |-> "holds", path |-> p, text |-> Store[p]]] /\ Store' = Store /\ Told' = {}
          <3>1. Jobs' = [Jobs EXCEPT ![c] = Files!JobOf(n)] /\ Store' = Store
              BY <1>0, <2>1, FileJob
          <3>2. Files!JobOf(n) = [at |-> "holds", path |-> p, text |-> Store[p]]
              BY <2>3, <2>4
          <3> QED BY <2>1, <3>1, <3>2 DEF Told
      <2>6. Jobs[c].at = "reads" /\ Jobs[c].path = p
          BY <2>2
      <2> QED BY <2>3, <2>5, <2>6, PromiseTake
  <1>5. CASE Files!ReadAll(c)
      <2> DEFINE p == fileCall[c].path
                 text == data[fileCall[c].file]
      <2>1. /\ fileCall[c].at = "read" /\ fileCall' = [fileCall EXCEPT ![c] = Files!Over]
            /\ \E cut, ok : shown' = {[path |-> p, text |-> Files!Limited(text), cut |-> cut, ok |-> ok]}
          BY <1>5 DEF Files!ReadAll, Files!At, Files!End
      <2>2. Jobs[c] = [at |-> "holds", path |-> p, text |-> text] /\ p \in Path
          BY <1>0, <2>1 DEF FileCalls, Jobs, Files!JobOf, Files!New, Files!Over
      <2> HIDE DEF p, text
      <2>3. Told' = {[path |-> p, text |-> Files!Limited(text)]}
          BY <2>1, <2>2, ToldOne
      <2>4. Jobs' = [Jobs EXCEPT ![c] = Files!Over] /\ Store' = Store
          BY <1>0, <2>1, FileJob, FileRestJobs
      <2>5. Jobs[c].at = "holds" /\ Jobs[c].path = p /\ Jobs[c].text = text
          BY <2>2
      <2> QED BY <2>3, <2>4, <2>5, PromiseTell
  <1> QED BY <1>1, <1>2, <1>3, <1>4, <1>5 DEF Files!Fail

\* The only occurrence is exchanged.
LEMMA OnlyOccurrence ==
  ASSUME NEW text \in Seq(Piece), NEW old \in Piece, NEW new \in Piece, Files!Count(text, old) = 1
  PROVE  \E i \in DOMAIN text : /\ \A k \in DOMAIN text : text[k] = old <=> k = i
                                /\ Files!Patched(text, old, new) = [text EXCEPT ![i] = new]
  <1> DEFINE S == {k \in DOMAIN text : text[k] = old}
  <1>1. Cardinality(S) = 1
      BY FileCardinality DEF Files!Count
  <1>2. IsFiniteSet(S)
      <2>1. DOMAIN text = 1..Len(text) /\ Len(text) \in Nat
          OBVIOUS
      <2>2. IsFiniteSet(DOMAIN text)
          BY <2>1, FS_Interval
      <2> QED BY <2>2, FS_Subset
  <1>3. PICK i : S = {i}
      BY <1>1, <1>2, FS_Singleton
  <1>4. i \in DOMAIN text /\ \A k \in DOMAIN text : text[k] = old <=> k = i
      BY <1>3
  <1>5. Files!Patched(text, old, new) = [text EXCEPT ![i] = new]
      BY <1>4 DEF Files!Patched
  <1> QED BY <1>4, <1>5

\* A patch is made of one text; the file is written and renamed as one step.
LEMMA FileWritesJob ==
  ASSUME FileInv, NEW c \in ToolCall,
         \/ Files!ReadFile(c) \/ Files!CreateTemp(c) \/ Files!Fill(c) \/ Files!Rename(c) \/ Files!RemoveTemp(c)
  PROVE  Files!Promise!Next
  <1>0. fileCall[c] \in FileCalls
      BY FileFields DEF FileInv
  <1>1. CASE Files!ReadFile(c)
      <2> DEFINE p == fileCall[c].path
                 old == fileCall[c].old
                 new == fileCall[c].new
                 text == data[name[p]]
      <2>1. fileCall[c].at = "patch" /\ UNCHANGED <<name, data>> /\ shown' = {}
          BY <1>1 DEF Files!ReadFile, Files!At
      <2>2. CASE Files!End(c)
          BY <2>1, <2>2, FileLeaves
      <2>3. CASE ~Files!End(c)
          <3> DEFINE n == [at |-> "write", tool |-> "apply_patch", path |-> p, text |-> Files!Patched(text, old, new)]
          <3>1. name[p] # NoFile /\ Files!Count(text, old) = 1 /\ fileCall' = [fileCall EXCEPT ![c] = n]
              BY <1>1, <2>3 DEF Files!ReadFile
          <3>2. p \in Path /\ old \in Piece /\ new \in Piece
              BY <1>0, <2>1, FileShapes
          <3>3. Jobs[c] = [at |-> "patches", path |-> p, old |-> old, new |-> new]
              BY <1>0, <2>1 DEF FileCalls, Jobs, Files!JobOf, Files!New, Files!Over
          <3>4. text \in Seq(Piece)
              BY <3>1, <3>2, FileNamed
          <3>5. p \in DOMAIN Store /\ text = Store[p]
              BY <3>1, <3>2 DEF Store
          <3> HIDE DEF text, old, new
          <3>6. PICK i \in DOMAIN text : /\ \A k \in DOMAIN text : text[k] = old <=> k = i
                                         /\ Files!Patched(text, old, new) = [text EXCEPT ![i] = new]
              BY <3>1, <3>2, <3>4, OnlyOccurrence
          <3> DEFINE more == [text EXCEPT ![i] = new]
          <3>7. Files!JobOf(n) = [at |-> "writes", path |-> p, text |-> more]
              BY <3>6 DEF Files!JobOf
          <3>8. Jobs[c].at = "patches" /\ Jobs[c].path = p /\ Jobs[c].old = old /\ Jobs[c].new = new
              BY <3>3
          <3>9. more = [text EXCEPT ![i] = Jobs[c].new]
              BY <3>8
          <3> HIDE DEF n, p, more
          <3>10. /\ Jobs' = [Jobs EXCEPT ![c] = [at |-> "writes", path |-> Jobs[c].path, text |-> more]]
                 /\ Store' = Store /\ Told' = {}
              <4>1. Jobs' = [Jobs EXCEPT ![c] = Files!JobOf(n)] /\ Store' = Store
                  BY <2>1, <3>1, FileJob
              <4>2. Files!JobOf(n) = [at |-> "writes", path |-> Jobs[c].path, text |-> more]
                  BY <3>7, <3>8
              <4>3. Told' = {}
                  BY <2>1 DEF Told
              <4> QED BY <4>1, <4>2, <4>3
          <3>11. Jobs[c].path \in DOMAIN Store /\ text = Store[Jobs[c].path]
              BY <3>5, <3>8
          <3>12. \A k \in DOMAIN text : text[k] = Jobs[c].old <=> k = i
              BY <3>6, <3>8
          <3> QED BY <3>6, <3>8, <3>9, <3>10, <3>11, <3>12, PromisePatch
      <2> QED BY <2>2, <2>3
  <1>2. CASE Files!CreateTemp(c)
      <2> DEFINE n == [at |-> "fill", tool |-> fileCall[c].tool, path |-> fileCall[c].path, text |-> fileCall[c].text,
                       file |-> used + 1]
      <2>1. /\ fileCall[c].at = "write" /\ fileCall' = [fileCall EXCEPT ![c] = n]
            /\ UNCHANGED <<name, data>> /\ shown' = {}
          BY <1>2 DEF Files!CreateTemp, Files!At
      <2>2. Files!JobOf(n) = Files!JobOf(fileCall[c])
          BY <1>0, <2>1 DEF Files!JobOf
      <2> HIDE DEF n
      <2> QED BY <2>1, <2>2, FileSameJob
  <1>3. CASE Files!Fill(c)
      <2>0. fileCall[c].at = "fill" /\ UNCHANGED name /\ shown' = {}
          BY <1>3 DEF Files!Fill, Files!At
      <2>1. CASE data' = data
          <3>1. CASE fileCall' = fileCall
              BY <2>0, <2>1, <3>1, PromisePass DEF Jobs, Store, Told, Files!JobOf
          <3>2. CASE fileCall' # fileCall
              <4> DEFINE n == [fileCall[c] EXCEPT !.at = "rename"]
              <4>1. fileCall' = [fileCall EXCEPT ![c] = n]
                  BY <1>3, <3>2 DEF Files!Fill, Files!Goto, FileInv, FileTypes
              <4>2. Files!JobOf(n) = Files!JobOf(fileCall[c])
                  BY <1>0, <2>0 DEF FileCalls, Files!JobOf, Files!New, Files!Over
              <4> HIDE DEF n
              <4> QED BY <2>0, <2>1, <4>1, <4>2, FileSameJob
          <3> QED BY <3>1, <3>2
      <2>2. CASE data' # data
          <3> DEFINE i == fileCall[c].file
          <3>1. fileCall' = fileCall /\ \E more : data' = [data EXCEPT ![i] = more]
              BY <1>3, <2>2 DEF Files!Fill
          <3>2. \A j \in Inode : j # i => data'[j] = data[j]
              BY <3>1 DEF FileInv, FileTypes
          <3>3. FileWrites(fileCall[c])
              BY <2>0 DEF FileWrites
          <3>4. \A p \in Path : name[p] # NoFile => data'[name[p]] = data[name[p]]
              BY <3>2, <3>3, FileNamed
          <3>5. Store' = Store
              BY <2>0, <3>4 DEF Store
          <3>6. ASSUME NEW d \in ToolCall PROVE Jobs'[d] = Jobs[d]
              <4>1. CASE fileCall[d].at = "read"
                  <5>1. fileCall[d].file # i /\ fileCall[d].file \in Inode
                      BY <3>3, <4>1, FileFields, FileShapes DEF FileInv, Readers
                  <5>2. data'[fileCall[d].file] = data[fileCall[d].file]
                      BY <3>2, <5>1
                  <5> QED BY <3>1, <4>1, <5>2 DEF Jobs, Files!JobOf
              <4>2. CASE fileCall[d].at # "read"
                  BY <3>1, <4>2 DEF Jobs, Files!JobOf
              <4> QED BY <4>1, <4>2
          <3>7. Jobs' = Jobs
              BY <3>6 DEF Jobs
          <3> QED BY <2>0, <3>5, <3>7, PromisePass DEF Told
      <2> QED BY <2>1, <2>2
  <1>4. CASE Files!Rename(c)
      <2> DEFINE p == fileCall[c].path
                 i == fileCall[c].file
      <2>1. /\ fileCall[c].at = "rename" /\ name' = [name EXCEPT ![p] = i]
            /\ fileCall' = [fileCall EXCEPT ![c] = Files!Over] /\ data' = data /\ shown' = {}
          BY <1>4 DEF Files!Rename, Files!At, Files!End
      <2>2. p \in Path /\ i \in Inode /\ i # NoFile
          BY <1>0, <2>1, FileShapes, FileAssumption
      <2>3. data[i] = fileCall[c].text
          BY <2>1 DEF FileInv, Writers, WriterSound, FileWrites
      <2>4. Jobs[c] = [at |-> "writes", path |-> p, text |-> data[i]]
          BY <1>0, <2>1, <2>3 DEF Jobs, Files!JobOf
      <2> HIDE DEF p, i
      <2>5. \A q \in Path : name'[q] = IF q = p THEN i ELSE name[q]
          BY <2>1 DEF FileInv, FileTypes
      <2>6. {q \in Path : name'[q] # NoFile} = {q \in Path : name[q] # NoFile} \cup {p}
          BY <2>2, <2>5
      <2>7. Store' = [q \in DOMAIN Store \cup {p} |-> IF q = p THEN data[i] ELSE Store[q]]
          <3>1. DOMAIN Store = {q \in Path : name[q] # NoFile}
              BY DEF Store
          <3>2. Store' = [q \in {q \in Path : name'[q] # NoFile} |-> data[name'[q]]]
              BY <2>1 DEF Store
          <3>3. Store' = [q \in DOMAIN Store \cup {p} |-> data[name'[q]]]
              BY <2>6, <3>1, <3>2
          <3>4. \A q \in DOMAIN Store \cup {p} : data[name'[q]] = IF q = p THEN data[i] ELSE Store[q]
              BY <2>2, <2>5, <3>1 DEF Store
          <3> QED BY <3>3, <3>4
      <2>8. Jobs' = [Jobs EXCEPT ![c] = Files!Over]
          <3>1. \A d \in ToolCall : fileCall'[d] = IF d = c THEN Files!Over ELSE fileCall[d]
              BY <2>1 DEF FileInv, FileTypes
          <3>2. \A d \in ToolCall : Jobs'[d] = IF d = c THEN Files!Over ELSE Jobs[d]
              BY <2>1, <3>1 DEF Jobs, Files!JobOf, Files!Over
          <3> QED BY <3>2 DEF Jobs
      <2>9. Told' = {}
          BY <2>1 DEF Told
      <2>10. Jobs[c].at = "writes" /\ Jobs[c].path = p /\ Jobs[c].text = data[i]
          BY <2>4
      <2> QED BY <2>7, <2>8, <2>9, <2>10, PromiseWrite
  <1>5. CASE Files!RemoveTemp(c)
      BY <1>5, FileLeaves DEF Files!RemoveTemp
  <1> QED BY <1>1, <1>2, <1>3, <1>4, <1>5

\* Every step of the file tools is a step of the promise, or none.
LEMMA FilePromiseStep ==
  ASSUME FileInv, [Files!Next]_(Files!vars)
  PROVE  [Files!Promise!Next]_(Files!Promise!vars)
  <1>1. CASE Files!Crash
      <2>1. /\ fileCall' = [c \in ToolCall |-> IF fileCall[c] = Files!New THEN Files!New ELSE Files!Over]
            /\ UNCHANGED <<name, data>> /\ shown' = {}
          BY <1>1 DEF Files!Crash, Files!Quiet
      <2>2. ASSUME NEW c \in ToolCall
            PROVE  Jobs'[c] = IF Jobs[c] = Files!New THEN Files!New ELSE Files!Over
          <3>1. fileCall[c] \in FileCalls
              BY FileFields DEF FileInv
          <3>2. Jobs[c] = Files!New <=> fileCall[c] = Files!New
              BY <3>1, FileJobs, FileRestJobs, FileRest DEF Jobs
          <3> QED BY <2>1, <3>2 DEF Jobs, Files!JobOf, Files!New, Files!Over
      <2>3. Jobs' = [c \in ToolCall |-> IF Jobs[c] = Files!New THEN Files!New ELSE Files!Over]
          BY <2>2 DEF Jobs
      <2> QED BY <2>1, <2>3, PromiseCrash DEF Store, Told
  <1>2. CASE UNCHANGED Files!vars
      BY <1>2 DEF Files!vars, Files!Promise!vars, Files!JobOf
  <1>3. CASE \E c \in ToolCall :
               \/ Files!BeginWalk(c) \/ Files!BeginRead(c) \/ Files!BeginWrite(c) \/ Files!BeginPatch(c)
               \/ Files!Fail(c)
               \/ Files!Visit(c) \/ Files!WalkEnds(c) \/ Files!CheckBinary(c) \/ Files!Stat(c) \/ Files!OpenFile(c)
               \/ Files!ReadAll(c)
               \/ Files!ReadFile(c) \/ Files!CreateTemp(c) \/ Files!Fill(c) \/ Files!Rename(c) \/ Files!RemoveTemp(c)
      BY <1>3, FileBeginsJob, FileWalksJob, FileReadsJob, FileWritesJob
  <1> QED BY <1>1, <1>2, <1>3 DEF Files!Next

LEMMA FilePromiseInit == Files!Init => Files!Promise!Init
  <1> SUFFICES ASSUME Files!Init PROVE Files!Promise!Init
      OBVIOUS
  <1>1. FileInv /\ whole = Text /\ shown = {} /\ fileCall = [c \in ToolCall |-> Files!New]
      BY FileInitInv DEF Files!Init
  <1> DEFINE there == {p \in Path : name[p] # NoFile}
  <1>2. Store \in [there -> Text]
      BY <1>1 DEF FileInv, NamesWhole, Store
  <1>3. Jobs = [c \in ToolCall |-> Files!New]
      BY <1>1, FileRestJobs DEF Jobs
  <1>4. Told = {}
      BY <1>1 DEF Told
  <1>5. there \in SUBSET Path
      OBVIOUS
  <1> HIDE DEF there
  <1>6. \E D \in SUBSET Path : Store \in [D -> Text]
      BY <1>2, <1>5
  <1> QED BY <1>3, <1>4, <1>6 DEF Files!Promise!Init, Files!Promise!New, Files!New, Store, Jobs, Told

-----------------------------------------------------------------------------
(* The skill tools.                                                        *)

Searching ==
  [at : {"list", "read", "ask"}, op : Skill!Ops, name : SkillName,
    step : {"run", "key", "execute", "rekey", "approved"},
   asked : SUBSET Skill!Place, key : SUBSET Skill!Place, source : Nat \ {0}, left : SUBSET Skill!Place,
   found : SUBSET [name : SkillName, place : Skill!Place]]
Removing == [at : {"remove"}, op : {"delete"}, target : Skill!Place]
Adding == [at : {"mkdir", "create", "write", "load"}, op : {"add"}, target : Skill!Place]
SkillCalls == {Skill!New, Skill!Over} \cup Searching \cup Removing \cup Adding

SkillTypes ==
  /\ mode \in Skill!Modes /\ disk \in [Skill!Place -> Skill!Disk]
  /\ skillApproved \subseteq Skill!Place /\ skillAgreed \subseteq Skill!Place /\ added \subseteq Skill!Place
  /\ removed \subseteq Skill!Place
  /\ skillCall \in [ToolCall -> SkillCalls]

\* What the policy and the user said before a call came where it is: m is the
\* mode and yes the directories whose deletion the user agreed to.
SkillCleared(n, m, yes) ==
  /\ n.at \in {"list", "read", "ask"} =>
       /\ n.at = "ask" => n.step = "rekey"
       /\ n.step = "rekey" => n.asked # {}
       /\ n.step = "approved" => yes # {}
  /\ n.at = "remove" => n.target[1] # Builtin /\ m # "readonly" /\ (m # "full-auto" => yes # {})
  /\ n.at \in {"mkdir", "create", "write", "load"} => n.target[1] # Builtin /\ m \in {"workspace-write", "full-auto"}

SkillInv ==
  /\ SkillTypes
  /\ \A c \in ToolCall : SkillCleared(skillCall[c], mode, skillAgreed)
  /\ skillApproved # {} => skillAgreed # {}
  /\ Skill!SkillsGuarded

-----------------------------------------------------------------------------
LEMMA SkillStates ==
  /\ Skill!New \in SkillCalls /\ Skill!Over \in SkillCalls
  /\ \A m, yes : SkillCleared(Skill!New, m, yes) /\ SkillCleared(Skill!Over, m, yes)
  BY DEF Skill!New, Skill!Over, SkillCalls, SkillCleared

\* A call that searches, removes or adds has the record of that.
LEMMA SkillShapes ==
  ASSUME NEW n \in SkillCalls
  PROVE  /\ n.at \in {"list", "read", "ask"} => n \in Searching
         /\ n.at = "remove" => n \in Removing
         /\ n.at \in {"mkdir", "create", "write", "load"} => n \in Adding
         /\ n.at = "new" => n = Skill!New
  BY DEF SkillCalls, Skill!New, Skill!Over, Searching, Removing, Adding

\* A step of one call.
LEMMA SkillOneCall ==
  ASSUME SkillInv, NEW c \in ToolCall, NEW n \in SkillCalls, skillCall' = [skillCall EXCEPT ![c] = n],
         mode' = mode, disk' \in [Skill!Place -> Skill!Disk],
         skillApproved' \subseteq Skill!Place, skillAgreed \subseteq skillAgreed', skillAgreed' \subseteq Skill!Place,
         skillApproved' # {} => skillAgreed' # {},
         added' \subseteq Skill!Place, removed' \subseteq Skill!Place,
         SkillCleared(n, mode, skillAgreed'),
         \A p \in added' : p \in added \/ (p[1] # Builtin /\ mode \in {"workspace-write", "full-auto"}),
         \A p \in removed' : p \in removed
           \/ (p[1] # Builtin /\ mode # "readonly" /\ (mode # "full-auto" => skillAgreed # {}))
  PROVE  SkillInv'
  <1>1. \A d \in ToolCall : skillCall'[d] = IF d = c THEN n ELSE skillCall[d]
      BY DEF SkillInv, SkillTypes
  <1>2. SkillTypes'
      BY DEF SkillInv, SkillTypes
  <1>3. \A d \in ToolCall : SkillCleared(skillCall'[d], mode', skillAgreed')
      <2> SUFFICES ASSUME NEW d \in ToolCall PROVE SkillCleared(skillCall'[d], mode, skillAgreed')
          OBVIOUS
      <2>1. CASE d = c
          BY <2>1, <1>1
      <2>2. CASE d # c
          <3>1. skillCall'[d] = skillCall[d] /\ SkillCleared(skillCall[d], mode, skillAgreed)
              BY <2>2, <1>1 DEF SkillInv
          <3>2. SkillCleared(skillCall[d], mode, skillAgreed')
              BY <3>1 DEF SkillCleared
          <3> QED BY <3>1, <3>2
      <2> QED BY <2>1, <2>2
  <1>4. Skill!SkillsGuarded'
      <2>1. Skill!SkillsGuarded /\ mode \in Skill!Modes
          BY DEF SkillInv, SkillTypes
      <2>2. \A p \in added' \cup removed' : p[1] # Builtin /\ mode' # "readonly"
          BY <2>1 DEF Skill!SkillsGuarded
      <2>3. mode' = "suggest" => added' = {}
          BY <2>1 DEF Skill!SkillsGuarded
      <2>4. mode' \in {"suggest", "workspace-write"} /\ removed' # {} => skillAgreed' # {}
          BY <2>1 DEF Skill!SkillsGuarded
      <2> QED BY <2>2, <2>3, <2>4 DEF Skill!SkillsGuarded
  <1> QED BY <1>2, <1>3, <1>4 DEF SkillInv

\* One that only moves the call, and perhaps writes to the disk.
LEMMA SkillOnlyCall ==
  ASSUME SkillInv, NEW c \in ToolCall, NEW n \in SkillCalls, skillCall' = [skillCall EXCEPT ![c] = n],
         mode' = mode, disk' \in [Skill!Place -> Skill!Disk], UNCHANGED <<skillApproved, skillAgreed, added, removed>>,
         SkillCleared(n, mode, skillAgreed)
  PROVE  SkillInv'
  <1>1. /\ skillApproved' \subseteq Skill!Place /\ skillAgreed \subseteq skillAgreed'
        /\ skillAgreed' \subseteq Skill!Place
        /\ (skillApproved' # {} => skillAgreed' # {}) /\ added' \subseteq Skill!Place /\ removed' \subseteq Skill!Place
        /\ SkillCleared(n, mode, skillAgreed')
      BY DEF SkillInv, SkillTypes
  <1> QED BY <1>1, SkillOneCall

LEMMA SkillSameDisk == ASSUME SkillInv, disk' = disk PROVE disk' \in [Skill!Place -> Skill!Disk]
  BY DEF SkillInv, SkillTypes

LEMMA SkillEnds ==
  ASSUME SkillInv, NEW c \in ToolCall, Skill!End(c), mode' = mode, disk' \in [Skill!Place -> Skill!Disk],
         UNCHANGED <<skillApproved, skillAgreed, added, removed>>
  PROVE  SkillInv'
  BY SkillStates, SkillOnlyCall DEF Skill!End

\* A search begins again with what it was asked.
LEMMA SkillSearch ==
  ASSUME NEW n \in Searching, NEW step \in {"run", "key", "execute", "rekey", "approved"}
  PROVE  /\ Skill!Search(n, step) \in Searching /\ Skill!Search(n, step) \in SkillCalls
         /\ Skill!Search(n, step).at = "list" /\ Skill!Search(n, step).step = step
         /\ Skill!Search(n, step).asked = n.asked
  BY DEF Skill!Search, Searching, SkillCalls

LEMMA SkillInitInv == Skill!Init => SkillInv
  <1> SUFFICES ASSUME Skill!Init PROVE SkillInv
      OBVIOUS
  <1>1. disk \in [Skill!Place -> Skill!Disk]
      BY DEF Skill!Init, Skill!Disk
  <1>2. SkillTypes
      BY <1>1, SkillStates DEF Skill!Init, SkillTypes
  <1>3. \A c \in ToolCall : SkillCleared(skillCall[c], mode, skillAgreed)
      BY SkillStates DEF Skill!Init
  <1> QED BY <1>2, <1>3 DEF Skill!Init, SkillInv, Skill!SkillsGuarded

LEMMA SkillBegin == ASSUME SkillInv, NEW c \in ToolCall, Skill!Begin(c) PROVE SkillInv'
  <1>1. PICK op \in Skill!Ops, n \in SkillName :
          skillCall' = [skillCall EXCEPT ![c] = Skill!Search([op |-> op, name |-> n, asked |-> {}, key |-> {}],
                                                             IF op = "delete" THEN "key" ELSE "run")]
      BY DEF Skill!Begin
  <1> DEFINE s == Skill!Search([op |-> op, name |-> n, asked |-> {}, key |-> {}],
                               IF op = "delete" THEN "key" ELSE "run")
  <1>2. s \in SkillCalls /\ s.at = "list" /\ s.step \in {"key", "run"}
      BY DEF Skill!Search, Searching, SkillCalls
  <1>3. SkillCleared(s, mode, skillAgreed)
      BY <1>2 DEF SkillCleared
  <1>4. skillCall' = [skillCall EXCEPT ![c] = s]
      BY <1>1
  <1> HIDE DEF s
  <1> QED BY <1>2, <1>3, <1>4, SkillOnlyCall, SkillSameDisk DEF Skill!Begin, Skill!Keep, Skill!Watched

\* What a call that searches for a name was, and what it found.
LEMMA SkillSearches ==
  ASSUME SkillInv, NEW c \in ToolCall, skillCall[c].at \in {"list", "read", "ask"}
  PROVE  /\ skillCall[c] \in Searching
         /\ skillCall[c].at = "ask" => skillCall[c].step = "rekey"
         /\ skillCall[c].step = "rekey" => skillCall[c].asked # {}
         /\ skillCall[c].step = "approved" => skillAgreed # {}
         /\ Skill!Found(c) \subseteq Skill!Place /\ Skill!Target(c) \subseteq Skill!Place
  <1>1. skillCall[c] \in Searching
      BY SkillShapes DEF SkillInv, SkillTypes
  <1>2. Skill!Found(c) \subseteq Skill!Place
      BY <1>1 DEF Skill!Found, Skill!Named, Searching
  <1> QED BY <1>1, <1>2 DEF SkillInv, SkillCleared, Skill!Target

\* A search that goes on.
LEMMA SkillGoesOn ==
  ASSUME SkillInv, NEW c \in ToolCall, skillCall[c].at \in {"list", "read"},
         NEW n \in Searching, skillCall' = [skillCall EXCEPT ![c] = n],
         n.step = skillCall[c].step, n.asked = skillCall[c].asked, n.at \in {"list", "read"},
         mode' = mode, disk' = disk, UNCHANGED <<skillApproved, skillAgreed, added, removed>>
  PROVE  SkillInv'
  <1>1. SkillCleared(n, mode, skillAgreed)
      BY SkillSearches DEF SkillCleared
  <1>2. n \in SkillCalls
      BY DEF SkillCalls
  <1> QED BY <1>1, <1>2, SkillOnlyCall, SkillSameDisk

LEMMA SkillListSource == ASSUME SkillInv, NEW c \in ToolCall, Skill!ListSource(c) PROVE SkillInv'
  <1> DEFINE there == {p \in {skillCall[c].source} \X SkillName : disk[p] \in {"torn"} \cup SkillName}
  <1> DEFINE n == [skillCall[c] EXCEPT !.left = there, !.at = "read"]
  <1>1. skillCall[c].at = "list" /\ skillCall[c] \in Searching
      BY SkillSearches DEF Skill!ListSource, Skill!At
  <1>2. skillCall' = [skillCall EXCEPT ![c] = n]
      BY DEF Skill!ListSource, SkillInv, SkillTypes
  <1>3. there \subseteq Skill!Place
      <2>1. skillCall[c].source \in Nat \ {0} /\ skillCall[c].source <= Sources
          BY <1>1 DEF Searching, Skill!ListSource
      <2>2. skillCall[c].source \in Skill!Source
          BY <2>1, SkillAssumption DEF Skill!Source
      <2> QED BY <2>2 DEF Skill!Place
  <1>4. n \in Searching /\ n.step = skillCall[c].step /\ n.asked = skillCall[c].asked /\ n.at = "read"
      BY <1>1, <1>3 DEF Searching
  <1> HIDE DEF n
  <1> QED BY <1>1, <1>2, <1>4, SkillGoesOn DEF Skill!ListSource, Skill!Keep, Skill!Watched

\* A search that failed: the question without a key, the execution after a
\* key that could not be told, or the end.
LEMMA SkillLost ==
  ASSUME SkillInv, NEW c \in ToolCall, skillCall[c].at = "read", Skill!Lost(c),
         mode' = mode, disk' = disk, UNCHANGED <<skillApproved, skillAgreed, added, removed>>
  PROVE  SkillInv'
  <1>1. skillCall[c] \in Searching
      BY SkillSearches
  <1>2. CASE skillCall[c].step = "key"
      <2>1. skillCall' = [skillCall EXCEPT ![c] = Skill!Search(skillCall[c], "execute")]
          BY <1>2 DEF Skill!Lost
      <2>2. SkillCleared(Skill!Search(skillCall[c], "execute"), mode, skillAgreed)
              /\ Skill!Search(skillCall[c], "execute") \in SkillCalls
          BY <1>1, SkillSearch DEF SkillCleared
      <2> QED BY <2>1, <2>2, SkillOnlyCall, SkillSameDisk
  <1>3. CASE skillCall[c].step = "rekey"
      <2> DEFINE n == [skillCall[c] EXCEPT !.at = "ask"]
      <2>1. skillCall' = [skillCall EXCEPT ![c] = n]
          BY <1>3 DEF Skill!Lost
      <2>2. n \in SkillCalls /\ SkillCleared(n, mode, skillAgreed)
          BY <1>1, <1>3, SkillSearches DEF SkillCleared, SkillCalls, Searching
      <2> HIDE DEF n
      <2> QED BY <2>1, <2>2, SkillOnlyCall, SkillSameDisk
  <1>4. CASE skillCall[c].step \notin {"key", "rekey"}
      <2>1. skillCall' = [skillCall EXCEPT ![c] = Skill!Over]
          BY <1>4 DEF Skill!Lost
      <2> QED BY <2>1, SkillStates, SkillOnlyCall, SkillSameDisk
  <1> QED BY <1>2, <1>3, <1>4

LEMMA SkillReadSkill == ASSUME SkillInv, NEW c \in ToolCall, Skill!ReadSkill(c) PROVE SkillInv'
  <1>1. /\ skillCall[c].at = "read" /\ skillCall[c] \in Searching
        /\ mode' = mode /\ disk' = disk /\ UNCHANGED <<skillApproved, skillAgreed, added, removed>>
      BY SkillSearches DEF Skill!ReadSkill, Skill!At, Skill!Keep, Skill!Watched
  <1>2. CASE skillCall[c].left = {} /\ skillCall' = [skillCall EXCEPT ![c].source = @ + 1, ![c].at = "list"]
      <2> DEFINE n == [skillCall[c] EXCEPT !.source = skillCall[c].source + 1, !.at = "list"]
      <2>1. skillCall' = [skillCall EXCEPT ![c] = n]
          BY <1>2 DEF SkillInv, SkillTypes
      <2>2. skillCall[c].source + 1 \in Nat \ {0}
          BY <1>1 DEF Searching
      <2>3. n \in Searching /\ n.step = skillCall[c].step /\ n.asked = skillCall[c].asked /\ n.at = "list"
          BY <1>1, <2>2 DEF Searching
      <2> HIDE DEF n
      <2> QED BY <1>1, <2>1, <2>3, SkillGoesOn
  <1>3. ASSUME NEW p \in skillCall[c].left,
               LET same == Skill!Named(c, disk[p])
                   better == \E f \in same : Skill!Rank(f.place) > Skill!Rank(p)
               IN  IF disk[p] \notin SkillName \/ \E f \in same : Skill!Rank(f.place) = Skill!Rank(p)
                   THEN Skill!Lost(c)
                   ELSE skillCall' = [skillCall EXCEPT ![c].left = @ \ {p},
                          ![c].found = IF better THEN @ ELSE (@ \ same) \cup {[name |-> disk[p], place |-> p]}]
        PROVE  SkillInv'
      <2> DEFINE same == Skill!Named(c, disk[p])
      <2> DEFINE better == \E f \in same : Skill!Rank(f.place) > Skill!Rank(p)
      <2> DEFINE kept == IF better THEN skillCall[c].found ELSE (skillCall[c].found \ same) \cup {[name |-> disk[p],
            place |-> p]}
      <2> DEFINE n == [skillCall[c] EXCEPT !.left = skillCall[c].left \ {p}, !.found = kept]
      <2>1. p \in Skill!Place
          BY <1>1 DEF Searching
      <2>2. CASE disk[p] \notin SkillName \/ \E f \in same : Skill!Rank(f.place) = Skill!Rank(p)
          <3>1. Skill!Lost(c)
              BY <1>3, <2>2
          <3> QED BY <1>1, <3>1, SkillLost
      <2>3. CASE ~(disk[p] \notin SkillName \/ \E f \in same : Skill!Rank(f.place) = Skill!Rank(p))
          <3>1. skillCall' = [skillCall EXCEPT ![c].left = @ \ {p},
                                ![c].found = IF better THEN @ ELSE (@ \ same) \cup {[name |-> disk[p], place |-> p]}]
              BY <1>3, <2>3
          <3>2. skillCall[c].found \subseteq [name : SkillName, place : Skill!Place]
              BY <1>1 DEF Searching
          <3> HIDE DEF same, better
          <3>3. skillCall' = [skillCall EXCEPT ![c] = n]
              BY <3>1, <1>1 DEF SkillInv, SkillTypes, Searching
          <3>4. kept \in SUBSET [name : SkillName, place : Skill!Place]
              BY <2>1, <2>3, <3>2
          <3> HIDE DEF kept
          <3>5. n \in Searching /\ n.step = skillCall[c].step /\ n.asked = skillCall[c].asked /\ n.at = "read"
              BY <1>1, <3>4 DEF Searching
          <3> HIDE DEF n
          <3> QED BY <1>1, <3>3, <3>5, SkillGoesOn
      <2> QED BY <2>2, <2>3
  <1> QED BY <1>2, <1>3 DEF Skill!ReadSkill

LEMMA SkillApprovalKey == ASSUME SkillInv, NEW c \in ToolCall, Skill!ApprovalKey(c) PROVE SkillInv'
  <1> DEFINE step == IF Skill!Target(c) # {} /\ Skill!Target(c) \subseteq skillApproved THEN "approved" ELSE "execute"
  <1>1. skillCall[c].at = "list" /\ skillCall[c] \in Searching
      BY SkillSearches DEF Skill!ApprovalKey, Skill!Discovered, Skill!At
  <1>2. skillCall' = [skillCall EXCEPT ![c] = Skill!Search(skillCall[c], step)]
      BY DEF Skill!ApprovalKey
  <1>3. step = "approved" => skillAgreed # {}
      BY DEF SkillInv
  <1>4. SkillCleared(Skill!Search(skillCall[c], step), mode, skillAgreed)
          /\ Skill!Search(skillCall[c], step) \in SkillCalls
      BY <1>1, <1>3, SkillSearch DEF SkillCleared
  <1> HIDE DEF step
  <1> QED BY <1>2, <1>4, SkillOnlyCall, SkillSameDisk DEF Skill!ApprovalKey, Skill!Keep, Skill!Watched

LEMMA SkillRisk ==
  /\ Skill!DeleteRisk = "allow" => mode = "full-auto" \/ mode \notin Skill!Modes
  /\ mode = "readonly" => Skill!DeleteRisk = "block"
  BY DEF Skill!DeleteRisk, Skill!Decide, Skill!AssessPath, Skill!Modes

LEMMA SkillExecute == ASSUME SkillInv, NEW c \in ToolCall, Skill!Execute(c) PROVE SkillInv'
  <1>1. /\ skillCall[c].at = "list" /\ skillCall[c] \in Searching /\ Skill!Target(c) \subseteq Skill!Place
        /\ mode' = mode /\ disk' = disk /\ UNCHANGED <<skillApproved, skillAgreed, added, removed>>
      BY SkillSearches DEF Skill!Execute, Skill!Discovered, Skill!At, Skill!Keep, Skill!Watched
  <1>2. CASE Skill!Target(c) = {} \/ Skill!DeleteRisk = "block"
      BY <1>1, <1>2, SkillEnds, SkillSameDisk DEF Skill!Execute
  <1>3. CASE ~(Skill!Target(c) = {} \/ Skill!DeleteRisk = "block") /\ Skill!Let(c)
      <2>1. PICK p \in Skill!Target(c) : skillCall' = [skillCall EXCEPT ![c] = [at |-> "remove", op |-> "delete",
              target |-> p]]
          BY <1>3 DEF Skill!Execute
      <2>2. p[1] # Builtin /\ p \in Skill!Place
          BY <1>1 DEF Skill!Target, Skill!WritableRoot
      <2>3. mode # "readonly"
          BY <1>3, SkillRisk
      <2>4. mode # "full-auto" => skillAgreed # {}
          <3>1. Skill!DeleteRisk = "allow" => mode = "full-auto"
              BY SkillRisk DEF SkillInv, SkillTypes
          <3>2. skillCall[c].step = "approved" => skillAgreed # {}
              BY <1>1, SkillSearches
          <3> QED BY <1>3, <3>1, <3>2 DEF Skill!Let
      <2> DEFINE n == [at |-> "remove", op |-> "delete", target |-> p]
      <2>5. n \in SkillCalls /\ SkillCleared(n, mode, skillAgreed)
          BY <2>2, <2>3, <2>4 DEF SkillCalls, Removing, SkillCleared
      <2> HIDE DEF n
      <2> QED BY <1>1, <2>1, <2>5, SkillOnlyCall, SkillSameDisk DEF n
  <1>4. CASE ~(Skill!Target(c) = {} \/ Skill!DeleteRisk = "block") /\ ~Skill!Let(c)
      <2> DEFINE a == [skillCall[c] EXCEPT !.asked = Skill!Target(c)]
      <2>1. skillCall' = [skillCall EXCEPT ![c] = Skill!Search(a, "rekey")]
          BY <1>4 DEF Skill!Execute
      <2>2. a \in Searching /\ a.asked = Skill!Target(c)
          BY <1>1 DEF Searching
      <2> HIDE DEF a
      <2>3. SkillCleared(Skill!Search(a, "rekey"), mode, skillAgreed) /\ Skill!Search(a, "rekey") \in SkillCalls
          BY <1>4, <2>2, SkillSearch DEF SkillCleared
      <2> QED BY <1>1, <2>1, <2>3, SkillOnlyCall, SkillSameDisk
  <1> QED BY <1>2, <1>3, <1>4

LEMMA SkillRekey == ASSUME SkillInv, NEW c \in ToolCall, Skill!Rekey(c) PROVE SkillInv'
  <1> DEFINE n == [skillCall[c] EXCEPT !.at = "ask", !.key = Skill!Target(c)]
  <1>1. skillCall[c] \in Searching /\ Skill!Target(c) \subseteq Skill!Place /\ skillCall[c].step = "rekey"
          /\ skillCall[c].asked # {}
      BY SkillSearches DEF Skill!Rekey, Skill!Discovered, Skill!At
  <1>2. skillCall' = [skillCall EXCEPT ![c] = n]
      BY DEF Skill!Rekey, SkillInv, SkillTypes
  <1>3. n \in SkillCalls /\ SkillCleared(n, mode, skillAgreed)
      BY <1>1 DEF SkillCalls, Searching, SkillCleared
  <1> HIDE DEF n
  <1> QED BY <1>2, <1>3, SkillOnlyCall, SkillSameDisk DEF Skill!Rekey, Skill!Keep, Skill!Watched

LEMMA SkillApprove == ASSUME SkillInv, NEW c \in ToolCall, Skill!Approve(c) PROVE SkillInv'
  <1>1. /\ skillCall[c] \in Searching /\ skillCall[c].asked # {} /\ skillCall[c].asked \subseteq Skill!Place
        /\ skillCall[c].key \subseteq Skill!Place
        /\ mode' = mode /\ disk' = disk /\ UNCHANGED <<added, removed>>
      BY SkillSearches DEF Skill!Approve, Skill!At, Skill!Keep, Searching
  <1>2. CASE Skill!End(c) /\ UNCHANGED <<skillApproved, skillAgreed>>
      BY <1>1, <1>2, SkillEnds, SkillSameDisk
  <1>3. CASE /\ skillApproved' \in {skillApproved, skillApproved \cup skillCall[c].key}
             /\ skillAgreed' = skillAgreed \cup skillCall[c].asked
             /\ skillCall' = [skillCall EXCEPT ![c] = Skill!Search(@, "approved")]
      <2>1. /\ skillApproved' \subseteq Skill!Place /\ skillAgreed \subseteq skillAgreed'
            /\ skillAgreed' \subseteq Skill!Place /\ skillAgreed' # {}
            /\ added' \subseteq Skill!Place /\ removed' \subseteq Skill!Place
          BY <1>1, <1>3 DEF SkillInv, SkillTypes
      <2>2. /\ SkillCleared(Skill!Search(skillCall[c], "approved"), mode, skillAgreed')
            /\ Skill!Search(skillCall[c], "approved") \in SkillCalls
          BY <1>1, <2>1, SkillSearch DEF SkillCleared
      <2> QED BY <1>1, <1>3, <2>1, <2>2, SkillOneCall, SkillSameDisk
  <1> QED BY <1>2, <1>3 DEF Skill!Approve

LEMMA SkillRemove == ASSUME SkillInv, NEW c \in ToolCall, Skill!Remove(c) PROVE SkillInv'
  <1> DEFINE p == skillCall[c].target
  <1>1. /\ skillCall[c].at = "remove" /\ p \in Skill!Place /\ skillCall[c] \in SkillCalls
        /\ SkillCleared(skillCall[c], mode, skillAgreed)
        /\ mode' = mode /\ UNCHANGED <<skillApproved, skillAgreed, added>>
      BY SkillShapes DEF Skill!Remove, Skill!At, Skill!Keep, SkillInv, SkillTypes, Removing
  <1>2. CASE disk' = [disk EXCEPT ![p] = "bare"] /\ removed' = removed \cup {p} /\ UNCHANGED skillCall
      <2>1. disk' \in [Skill!Place -> Skill!Disk]
          BY <1>1, <1>2 DEF SkillInv, SkillTypes, Skill!Disk
      <2>2. skillCall' = [skillCall EXCEPT ![c] = skillCall[c]]
          BY <1>2 DEF SkillInv, SkillTypes
      <2>3. p[1] # Builtin /\ mode # "readonly" /\ (mode # "full-auto" => skillAgreed # {})
          BY <1>1 DEF SkillCleared
      <2>4. /\ skillApproved' \subseteq Skill!Place /\ skillAgreed \subseteq skillAgreed'
            /\ skillAgreed' \subseteq Skill!Place
            /\ added' \subseteq Skill!Place /\ removed' \subseteq Skill!Place
                 /\ (skillApproved' # {} => skillAgreed' # {})
          BY <1>1, <1>2 DEF SkillInv, SkillTypes
      <2> QED BY <1>1, <1>2, <2>1, <2>2, <2>3, <2>4, SkillOneCall
  <1>3. CASE disk' = [disk EXCEPT ![p] = "none"] /\ Skill!End(c) /\ UNCHANGED removed
      <2>1. disk' \in [Skill!Place -> Skill!Disk]
          BY <1>1, <1>3 DEF SkillInv, SkillTypes, Skill!Disk
      <2> QED BY <1>1, <1>3, <2>1, SkillEnds
  <1>4. CASE Skill!End(c) /\ UNCHANGED <<disk, removed>>
      BY <1>1, <1>4, SkillEnds, SkillSameDisk
  <1> QED BY <1>2, <1>3, <1>4 DEF Skill!Remove

LEMMA SkillBeginAdd == ASSUME SkillInv, NEW c \in ToolCall, Skill!BeginAdd(c) PROVE SkillInv'
  <1>1. mode' = mode /\ disk' = disk /\ UNCHANGED <<skillApproved, skillAgreed, added, removed>>
      BY DEF Skill!BeginAdd, Skill!Keep, Skill!Watched
  <1>2. CASE Skill!End(c)
      BY <1>1, <1>2, SkillEnds, SkillSameDisk
  <1>3. ASSUME NEW s \in Skill!Source \ {Builtin}, NEW n \in SkillName,
               Skill!Decide(mode, Skill!AssessPath({"inside"}, "write")) = "allow",
               skillCall' = [skillCall EXCEPT ![c] = [at |-> "mkdir", op |-> "add", target |-> <<s, n>>]]
        PROVE  SkillInv'
      <2> DEFINE r == [at |-> "mkdir", op |-> "add", target |-> <<s, n>>]
      <2>1. mode \in {"workspace-write", "full-auto"}
          BY <1>3 DEF Skill!Decide, Skill!AssessPath, SkillInv, SkillTypes, Skill!Modes
      <2>2. r \in SkillCalls /\ SkillCleared(r, mode, skillAgreed)
          BY <2>1 DEF SkillCalls, Adding, SkillCleared, Skill!Place
      <2>3. skillCall' = [skillCall EXCEPT ![c] = r]
          BY <1>3
      <2> HIDE DEF r
      <2> QED BY <1>1, <2>2, <2>3, SkillOnlyCall, SkillSameDisk
  <1> QED BY <1>2, <1>3 DEF Skill!BeginAdd

\* A call that adds, and the next place it goes to.
LEMMA SkillAdds ==
  ASSUME SkillInv, NEW c \in ToolCall, skillCall[c].at \in {"mkdir", "create", "write", "load"}
  PROVE  /\ skillCall[c].target \in Skill!Place /\ skillCall[c].target[1] # Builtin
         /\ mode \in {"workspace-write", "full-auto"}
         /\ skillCall[c].target[2] \in SkillName
         /\ \A a \in {"create", "write", "load"} :
              [skillCall[c] EXCEPT !.at = a] \in SkillCalls
                /\ SkillCleared([skillCall[c] EXCEPT !.at = a], mode, skillAgreed)
         /\ \A state \in {"bare", "torn"} \cup SkillName : Skill!Put(c, state) => disk' \in [Skill!Place -> Skill!Disk]
  <1>1. skillCall[c] \in Adding /\ SkillCleared(skillCall[c], mode, skillAgreed)
      BY SkillShapes DEF SkillInv, SkillTypes
  <1>2. skillCall[c].target \in Skill!Place /\ skillCall[c].target[1] # Builtin
          /\ mode \in {"workspace-write", "full-auto"}
      BY <1>1 DEF Adding, SkillCleared
  <1>3. \A a \in {"create", "write", "load"} :
          [skillCall[c] EXCEPT !.at = a] \in SkillCalls
            /\ SkillCleared([skillCall[c] EXCEPT !.at = a], mode, skillAgreed)
      BY <1>1, <1>2 DEF Adding, SkillCleared, SkillCalls
  <1>4. \A state \in {"bare", "torn"} \cup SkillName : Skill!Put(c, state) => disk' \in [Skill!Place -> Skill!Disk]
      BY <1>2 DEF Skill!Put, SkillInv, SkillTypes, Skill!Disk
  <1> QED BY <1>2, <1>3, <1>4 DEF Skill!Place

LEMMA SkillMake == ASSUME SkillInv, NEW c \in ToolCall, Skill!Make(c) PROVE SkillInv'
  <1>1. skillCall[c].at = "mkdir" /\ mode' = mode /\ UNCHANGED <<skillApproved, skillAgreed, removed>>
      BY DEF Skill!Make, Skill!At, Skill!Keep
  <1>2. CASE Skill!End(c) /\ UNCHANGED <<disk, added>>
      BY <1>1, <1>2, SkillEnds, SkillSameDisk
  <1>3. CASE /\ IF disk[skillCall[c].target] = "none" THEN Skill!Put(c, "bare") ELSE UNCHANGED disk
             /\ added' = added \cup {skillCall[c].target}
             /\ Skill!Goto(c, "create")
      <2> DEFINE n == [skillCall[c] EXCEPT !.at = "create"]
      <2>1. disk' \in [Skill!Place -> Skill!Disk]
          BY <1>1, <1>3, SkillAdds, SkillSameDisk
      <2>2. skillCall' = [skillCall EXCEPT ![c] = n]
          BY <1>3 DEF Skill!Goto
      <2>3. n \in SkillCalls /\ SkillCleared(n, mode, skillAgreed)
          BY <1>1, SkillAdds
      <2>4. skillCall[c].target \in Skill!Place /\ skillCall[c].target[1] # Builtin
              /\ mode \in {"workspace-write", "full-auto"}
          BY <1>1, SkillAdds
      <2>5. /\ skillApproved' \subseteq Skill!Place /\ skillAgreed \subseteq skillAgreed'
            /\ skillAgreed' \subseteq Skill!Place
            /\ added' \subseteq Skill!Place /\ removed' \subseteq Skill!Place
                 /\ (skillApproved' # {} => skillAgreed' # {})
            /\ skillAgreed' = skillAgreed
          BY <1>1, <1>3, <2>4 DEF SkillInv, SkillTypes
      <2> HIDE DEF n
      <2> QED BY <1>1, <1>3, <2>1, <2>2, <2>3, <2>4, <2>5, SkillOneCall
  <1> QED BY <1>2, <1>3 DEF Skill!Make

\* The file of a new skill is created and written.
LEMMA SkillPuts ==
  ASSUME SkillInv, NEW c \in ToolCall, skillCall[c].at \in {"mkdir", "create", "write", "load"},
         NEW a \in {"create", "write", "load"}, Skill!Goto(c, a), disk' \in [Skill!Place -> Skill!Disk],
         mode' = mode, UNCHANGED <<skillApproved, skillAgreed, added, removed>>
  PROVE  SkillInv'
  <1> DEFINE n == [skillCall[c] EXCEPT !.at = a]
  <1>1. skillCall' = [skillCall EXCEPT ![c] = n]
      BY DEF Skill!Goto
  <1>2. n \in SkillCalls /\ SkillCleared(n, mode, skillAgreed)
      BY SkillAdds
  <1> HIDE DEF n
  <1> QED BY <1>1, <1>2, SkillOnlyCall

LEMMA SkillCreate == ASSUME SkillInv, NEW c \in ToolCall, Skill!Create(c) PROVE SkillInv'
  <1>1. skillCall[c].at = "create" /\ mode' = mode /\ UNCHANGED <<skillApproved, skillAgreed, added, removed>>
      BY DEF Skill!Create, Skill!At, Skill!Keep, Skill!Watched
  <1>2. CASE Skill!End(c) /\ UNCHANGED disk
      BY <1>1, <1>2, SkillEnds, SkillSameDisk
  <1>3. CASE Skill!Put(c, "torn") /\ Skill!Goto(c, "write")
      <2>1. disk' \in [Skill!Place -> Skill!Disk]
          BY <1>1, <1>3, SkillAdds
      <2> QED BY <1>1, <1>3, <2>1, SkillPuts
  <1> QED BY <1>2, <1>3 DEF Skill!Create

LEMMA SkillWrite == ASSUME SkillInv, NEW c \in ToolCall, Skill!Write(c) PROVE SkillInv'
  <1>1. skillCall[c].at = "write" /\ mode' = mode /\ UNCHANGED <<skillApproved, skillAgreed, added, removed>>
      BY DEF Skill!Write, Skill!At, Skill!Keep, Skill!Watched
  <1>2. CASE Skill!End(c) /\ UNCHANGED disk
      BY <1>1, <1>2, SkillEnds, SkillSameDisk
  <1>3. CASE /\ IF disk[skillCall[c].target] \in {"torn"} \cup SkillName
                   THEN Skill!Put(c, skillCall[c].target[2]) ELSE UNCHANGED disk
             /\ Skill!Goto(c, "load")
      <2>1. disk' \in [Skill!Place -> Skill!Disk]
          BY <1>1, <1>3, SkillAdds, SkillSameDisk
      <2> QED BY <1>1, <1>3, <2>1, SkillPuts
  <1> QED BY <1>2, <1>3 DEF Skill!Write

LEMMA SkillEdit == ASSUME SkillInv, Skill!Edit PROVE SkillInv'
  <1>1. mode' = mode /\ UNCHANGED <<skillCall, skillApproved, skillAgreed, added, removed>>
      BY DEF Skill!Edit, Skill!Watched
  <1>2. disk' \in [Skill!Place -> Skill!Disk]
      BY DEF Skill!Edit, SkillInv, SkillTypes, Skill!Disk
  <1> QED BY <1>1, <1>2 DEF SkillInv, SkillTypes, Skill!SkillsGuarded

LEMMA SkillNext == SkillInv /\ [Skill!Next]_(Skill!vars) => SkillInv'
  <1> SUFFICES ASSUME SkillInv, [Skill!Next]_(Skill!vars) PROVE SkillInv'
      OBVIOUS
  <1>1. CASE UNCHANGED Skill!vars
      BY <1>1 DEF Skill!vars, SkillInv, SkillTypes, Skill!SkillsGuarded
  <1>2. ASSUME NEW c \in ToolCall, Skill!Load(c) \/ Skill!FirstLoad(c) PROVE SkillInv'
      BY <1>2, SkillEnds, SkillSameDisk DEF Skill!Load, Skill!FirstLoad, Skill!Keep, Skill!Watched
  <1>3. ASSUME NEW c \in ToolCall,
               \/ Skill!Begin(c) \/ Skill!ListSource(c) \/ Skill!ReadSkill(c) \/ Skill!ApprovalKey(c)
               \/ Skill!Execute(c)
               \/ Skill!Rekey(c) \/ Skill!Approve(c) \/ Skill!Remove(c) \/ Skill!BeginAdd(c) \/ Skill!Make(c)
               \/ Skill!Create(c) \/ Skill!Write(c)
        PROVE  SkillInv'
      BY <1>3, SkillBegin, SkillListSource, SkillReadSkill, SkillApprovalKey, SkillExecute,
         SkillRekey, SkillApprove, SkillRemove, SkillBeginAdd, SkillMake, SkillCreate, SkillWrite
  <1> QED BY <1>1, <1>2, <1>3, SkillEdit DEF Skill!Next

-----------------------------------------------------------------------------
(* The types of the tools, as the runs check them: what the invariants say *)
(* of them, and what is in the files, how many there are and how often     *)
(* somebody changed the skills by hand.                                    *)

FileTyped ==
  /\ data \in [Inode -> Seq(Piece)] /\ 1..used \subseteq Inode
  /\ \A s \in shown : s.path \in Path \cup Inode

\* Each of the files there are from the start is under a name.
LEMMA FileTypedInit == Files!Init => FileTyped
  <1> SUFFICES ASSUME Files!Init PROVE FileTyped
      OBVIOUS
  <1>1. PICK there \in SUBSET Path :
          \E place \in [there -> 1..Cardinality(there)] : Placed(Cardinality(there), there, place)
      BY FilesPlaced
  <1>2. PICK place \in [there -> 1..Cardinality(there)] : Placed(Cardinality(there), there, place)
      BY <1>1
  <1>3. PICK text \in [there -> Text] :
          /\ \A p, q \in there : place[p] = place[q] => p = q
          /\ data = [i \in Inode |-> IF i > Cardinality(there) THEN <<>>
                                     ELSE text[CHOOSE p \in there : place[p] = i]]
          /\ used = Cardinality(there)
      BY <1>2 DEF Placed
  <1>4. IsFiniteSet(there) /\ Cardinality(there) \in Nat /\ Cardinality(there) <= Cardinality(Path)
          /\ Cardinality(Path) \in Nat
      BY FileAssumption, FS_Subset, FS_CardinalityType
  <1>5. place \in Surjection(there, 1..Cardinality(there))
      <2>1. place \in Injection(there, 1..Cardinality(there))
          BY <1>3 DEF Injection, IsInjective
      <2>2. IsFiniteSet(1..Cardinality(there)) /\ Cardinality(1..Cardinality(there)) = Cardinality(there)
          BY <1>4, FS_Interval
      <2> QED BY <2>1, <2>2, FS_Injection
  <1>6. data \in [Inode -> Seq(Piece)]
      <2>1. ASSUME NEW i \in Inode, ~(i > Cardinality(there))
            PROVE  text[CHOOSE p \in there : place[p] = i] \in Seq(Piece)
          <3>1. i \in 1..Cardinality(there)
              BY <1>4, <2>1, FileAssumption
          <3>2. \E p \in there : place[p] = i
              BY <1>5, <3>1 DEF Surjection
          <3> QED BY <3>2, FileAssumption
      <2> QED BY <1>3, <2>1, FileAssumption
  <1>7. 1..used \subseteq Inode
      BY <1>3, <1>4, FileAssumption
  <1> QED BY <1>6, <1>7 DEF Files!Init, FileTyped

LEMMA FileTypedStep == FileInv /\ FileTyped /\ [Files!Next]_(Files!vars) => FileTyped'
  <1> SUFFICES ASSUME FileInv, FileTyped, [Files!Next]_(Files!vars) PROVE FileTyped'
      OBVIOUS
  <1>1. CASE UNCHANGED Files!vars \/ Files!Crash
      BY <1>1 DEF Files!vars, Files!Crash, Files!Quiet, FileTyped
  <1>2. ASSUME NEW c \in ToolCall, Files!Visit(c) PROVE FileTyped'
      <2>1. fileCall[c].left \subseteq Path \cup Inode
          BY <1>2, FileFields, FileShapes DEF Files!Visit, Files!At, FileInv
      <2>2. \A s \in shown' : s.path \in Path \cup Inode
          BY <1>2, <2>1 DEF Files!Visit, Files!Names, Files!Hit
      <2> QED BY <1>2, <2>2 DEF Files!Visit, FileTyped
  <1>3. ASSUME NEW c \in ToolCall, Files!ReadAll(c) PROVE FileTyped'
      <2>1. fileCall[c].path \in Path
          BY <1>3, FileFields, FileShapes DEF Files!ReadAll, Files!At, FileInv
      <2> QED BY <1>3, <2>1 DEF Files!ReadAll, FileTyped
  <1>4. ASSUME NEW c \in ToolCall, Files!CreateTemp(c) PROVE FileTyped'
      BY <1>4, FileAssumption DEF Files!CreateTemp, FileTyped, FileInv, FileTypes
  <1>5. ASSUME NEW c \in ToolCall, Files!Fill(c) PROVE FileTyped'
      <2> DEFINE i == fileCall[c].file  n == Len(data[i])
      <2>1. i \in Inode /\ fileCall[c].text \in Seq(Piece)
          BY <1>5, FileFields, FileShapes DEF Files!Fill, Files!At, FileInv
      <2>2. CASE n < Len(fileCall[c].text)
          <3>1. fileCall[c].text[n + 1] \in Piece
              BY <2>1, <2>2, ElementOfSeq, LenProperties DEF FileTyped
          <3>2. Append(data[i], fileCall[c].text[n + 1]) \in Seq(Piece)
              BY <2>1, <3>1, AppendProperties DEF FileTyped
          <3>3. data' = [data EXCEPT ![i] = Append(@, fileCall[c].text[n + 1])]
              BY <1>5, <2>2 DEF Files!Fill
          <3>4. data' \in [Inode -> Seq(Piece)]
              BY <3>2, <3>3 DEF FileTyped
          <3> QED BY <1>5, <3>4 DEF Files!Fill, FileTyped
      <2>3. CASE ~(n < Len(fileCall[c].text))
          BY <1>5, <2>3 DEF Files!Fill, FileTyped
      <2> QED BY <2>2, <2>3
  <1>6. ASSUME NEW c \in ToolCall,
               \/ Files!BeginWalk(c) \/ Files!BeginRead(c) \/ Files!BeginWrite(c) \/ Files!BeginPatch(c)
               \/ Files!Fail(c) \/ Files!WalkEnds(c) \/ Files!CheckBinary(c) \/ Files!Stat(c) \/ Files!OpenFile(c)
               \/ Files!ReadFile(c) \/ Files!Rename(c) \/ Files!RemoveTemp(c)
        PROVE  FileTyped'
      BY <1>6 DEF Files!BeginWalk, Files!BeginRead, Files!BeginWrite, Files!BeginPatch, Files!Fail, Files!WalkEnds,
         Files!CheckBinary, Files!Stat, Files!OpenFile, Files!ReadFile, Files!Rename, Files!RemoveTemp, Files!Quiet,
         FileTyped
  <1> QED BY <1>1, <1>2, <1>3, <1>4, <1>5, <1>6 DEF Files!Next

LEMMA SkillEdits ==
  /\ Skill!Init => skillEdits \in 0..MaxEdits
  /\ skillEdits \in 0..MaxEdits /\ [Skill!Next]_(Skill!vars) => skillEdits' \in 0..MaxEdits
  <1>1. Skill!Init => skillEdits \in 0..MaxEdits
      BY SkillAssumption DEF Skill!Init
  <1>2. \A c \in ToolCall :
          \/ Skill!Begin(c) \/ Skill!ListSource(c) \/ Skill!ReadSkill(c) \/ Skill!Load(c) \/ Skill!ApprovalKey(c)
          \/ Skill!Execute(c) \/ Skill!Rekey(c) \/ Skill!Approve(c) \/ Skill!Remove(c)
          \/ Skill!BeginAdd(c) \/ Skill!Make(c) \/ Skill!Create(c) \/ Skill!Write(c) \/ Skill!FirstLoad(c)
          => skillEdits' = skillEdits
      BY DEF Skill!Approve, Skill!ApprovalKey, Skill!Begin, Skill!BeginAdd, Skill!Create, Skill!Execute,
             Skill!FirstLoad, Skill!Keep, Skill!ListSource, Skill!Load, Skill!Make, Skill!ReadSkill, Skill!Rekey,
             Skill!Remove, Skill!Write
  <1>3. skillEdits \in 0..MaxEdits /\ Skill!Edit => skillEdits' \in 0..MaxEdits
      BY SkillAssumption DEF Skill!Edit
  <1> QED BY <1>1, <1>2, <1>3 DEF Skill!Next, Skill!vars

-----------------------------------------------------------------------------
(* The tools together.                                                     *)

\* Nothing a tool does changes the permission mode.
LEMMA ModeStays == Guard!Next => mode' = mode
  BY DEF Guard!Next, Guard!Begin, Guard!BeforeToolCall, Guard!Look, Guard!EvaluateShell, Guard!EvaluateGit,
         Guard!EvaluateRead, Guard!EvaluateWrite, Guard!Approve, Guard!BeforeEffect, Guard!Effect, Guard!Unchanged

LEMMA SkillModeStays == Skill!Next => mode' = mode
  BY DEF Skill!ApprovalKey, Skill!Approve, Skill!Begin, Skill!BeginAdd, Skill!Create, Skill!Edit, Skill!Execute,
     Skill!FirstLoad, Skill!Keep, Skill!ListSource, Skill!Load, Skill!Make, Skill!Next, Skill!ReadSkill, Skill!Rekey,
     Skill!Remove, Skill!Watched, Skill!Write

\* A step of the tools is a step of each of them, or leaves it alone.
LEMMA ToolSteps ==
  ASSUME [ToolsNext]_toolVars
  PROVE  /\ [Guard!Next]_(Guard!vars) /\ [Network!Next]_(Network!vars)
         /\ [Files!Next]_(Files!vars) /\ [Skill!Next]_(Skill!vars)
  <1> USE DEF toolVars, guardVars, netVars, fileVars, skillVars, Guard!vars, Network!vars, Files!vars, Skill!vars
  <1>1. CASE UNCHANGED toolVars
      BY <1>1
  <1>2. CASE Guard!Next /\ UNCHANGED <<netVars, fileVars, skillVars>>
      BY <1>2, ModeStays
  <1>3. CASE Network!Next /\ UNCHANGED <<mode, guardVars, fileVars, skillVars>>
      BY <1>3
  <1>4. CASE Files!Next /\ UNCHANGED <<mode, guardVars, netVars, skillVars>>
      BY <1>4
  <1>5. CASE Skill!Next /\ UNCHANGED <<guardVars, netVars, fileVars>>
      BY <1>5, SkillModeStays
  <1> QED BY <1>1, <1>2, <1>3, <1>4, <1>5 DEF ToolsNext

(* Each mode keeps its word for everything that takes place, for any calls *)
(* and requests, whatever the hooks rewrite and however approvals given    *)
(* for always are shared (tools/shell.go, file.go, git.go, react_loop.go). *)
THEOREM ModesAreHonoured == ToolsSpec => []ModeHonoured
  <1>1. ToolsInit => GuardInv
      BY GuardInitInv DEF ToolsInit
  <1>2. GuardInv /\ [ToolsNext]_toolVars => GuardInv'
      BY ToolSteps, GuardNext
  <1>3. GuardInv => ModeHonoured
      BY GuardHonoured, GuardKeys DEF GuardInv, GuardTypes, GuardSound, ModeHonoured, Guard!ModeHonoured
  <1> QED BY <1>1, <1>2, <1>3, PTL DEF ToolsSpec

(* No request leaves for a host whose name is local or whose address is    *)
(* blocked, or for an address that is, whatever the look-ups answer, for   *)
(* any redirects, retries, proxies and kept connections (tools/            *)
(* web_fetch.go, web_search.go, policy/network.go).                        *)
THEOREM TargetsAreAllowed == ToolsSpec => []OnlyAllowedTargets
  <1>1. ToolsInit => NetInv
      BY NetInitInv DEF ToolsInit
  <1>2. NetInv /\ [ToolsNext]_toolVars => NetInv'
      BY ToolSteps, NetNext
  <1>3. NetInv => OnlyAllowedTargets
      BY DEF NetInv, OnlyAllowedTargets
  <1> QED BY <1>1, <1>2, <1>3, PTL DEF ToolsSpec

(* However calls overlap and wherever the agent's process ends, what is    *)
(* under a name is a text some writer meant, and what a read returns is    *)
(* the beginning of one (tools/file.go, atomicWriteFile).                  *)
THEOREM FilesStayWhole == ToolsSpec => []FilesAreWhole
  <1>1. ToolsInit => FileInv
      BY FileInitInv DEF ToolsInit
  <1>2. FileInv /\ [ToolsNext]_toolVars => FileInv'
      BY ToolSteps, FileStep
  <1>3. FileInv => FilesAreWhole
      BY DEF FileInv, NamesWhole, FilesAreWhole, Files!FilesAreWhole
  <1> QED BY <1>1, <1>2, <1>3, PTL DEF ToolsSpec

(* The file tools implement FilePromise, whatever calls overlap and        *)
(* wherever the process ends: a write or a patch is one step on one name,  *)
(* an answer is of one moment (tools/file.go).                             *)
THEOREM FilesAreAtomic == ToolsSpec => FilesKeepPromise
  <1>1. ToolsInit => FileInv /\ Files!Promise!Init
      BY FileInitInv, FilePromiseInit DEF ToolsInit
  <1>2. FileInv /\ [ToolsNext]_toolVars => FileInv'
      BY ToolSteps, FileStep
  <1>3. FileInv /\ [ToolsNext]_toolVars => [Files!Promise!Next]_(Files!Promise!vars)
      BY ToolSteps, FilePromiseStep
  <1> QED BY <1>1, <1>2, <1>3, PTL DEF ToolsSpec, FilesKeepPromise, Files!PromiseSpec, Files!Promise!Spec

(* No skill is added or removed but as the mode and the user's approvals   *)
(* allow, and none of the built-in ones at all, whatever is changed by     *)
(* hand meanwhile (tools/skills.go, internal/skills).                      *)
THEOREM SkillsAreGuarded == ToolsSpec => []SkillsGuarded
  <1>1. ToolsInit => SkillInv
      BY SkillInitInv DEF ToolsInit
  <1>2. SkillInv /\ [ToolsNext]_toolVars => SkillInv'
      BY ToolSteps, SkillNext
  <1>3. SkillInv => SkillsGuarded
      BY DEF SkillInv, SkillsGuarded
  <1> QED BY <1>1, <1>2, <1>3, PTL DEF ToolsSpec

(* Every variable of the tools keeps its type, for any calls, requests,    *)
(* hosts, files and skills.                                                *)
THEOREM ToolsAreTyped == ToolsSpec => []ToolTypes
  <1> DEFINE Inv == GuardInv /\ NetInv /\ FileInv /\ FileTyped /\ SkillInv /\ skillEdits \in 0..MaxEdits
  <1>1. ToolsInit => Inv
      BY GuardInitInv, NetInitInv, FileInitInv, FileTypedInit, SkillInitInv, SkillEdits DEF ToolsInit
  <1>2. Inv /\ [ToolsNext]_toolVars => Inv'
      BY ToolSteps, GuardNext, NetNext, FileStep, FileTypedStep, SkillNext, SkillEdits
  <1>3. Inv => ToolTypes
      <2> SUFFICES ASSUME Inv PROVE ToolTypes
          OBVIOUS
      <2>1. Guard!TypeOK
          BY DEF GuardInv, GuardTypes, GuardSound, GuardCall, Guard!Idle, Guard!TypeOK
      <2>2. Network!TypeOK
          BY DEF NetInv, NetTypes, NetCall, Network!TypeOK
      <2>3. Files!TypeOK
          <3>1. \A c \in ToolCall : fileCall[c].at \in {"new", "over", "walk", "binary", "stat", "open", "read",
                                                        "patch", "write", "fill", "rename"}
              BY FileFields, FileShapes DEF FileInv
          <3>2. \A i \in Inode : \A k \in DOMAIN data[i] : data[i][k] \in Piece
              BY ElementOfSeq, LenProperties DEF FileTyped
          <3> QED BY <3>1, <3>2 DEF FileInv, FileTypes, FileTyped, Files!TypeOK
      <2>4. Skill!TypeOK
          <3>1. \A c \in ToolCall : skillCall[c].at \in {"new", "over", "list", "read", "ask", "remove", "mkdir",
                                                         "create", "write", "load"}
              BY DEF SkillInv, SkillTypes, SkillCalls, Skill!New, Skill!Over, Searching, Removing, Adding
          <3> QED BY <3>1 DEF SkillInv, SkillTypes, Skill!TypeOK
      <2> QED BY <2>1, <2>2, <2>3, <2>4 DEF ToolTypes
  <1> QED BY <1>1, <1>2, <1>3, PTL DEF ToolsSpec
=============================================================================
