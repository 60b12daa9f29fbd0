-------------------------- MODULE AgentRuntimeProofs --------------------------
(***************************************************************************)
(* Proofs about AgentRuntime for every set of sessions, prompts, tools and *)
(* programs and every bound.  Each safety property has an invariant of its *)
(* own on top of TypeOK and Phases, which say where the goroutines of a    *)
(* prompt may be together.                                                 *)
(***************************************************************************)
EXTENDS AgentRuntime, SequenceTheorems, TLAPS

InRound == {"stream", "tools", "execute", "hookask", "ask", "approved"}

\* Where the three goroutines of a prompt may be together.
Phase(p) ==
  /\ srv[p].at \in {"idle", "save", "register"} => fwd[p].at = "none"
  /\ fwd[p].at = "none" => loop[p].at = "none"
  /\ loop[p].at = "none" => fwd[p].at = "none" /\ loop[p].out = <<>> /\ loop[p].round = 0
  /\ srv[p].at # "idle" => of[p] \in Session
  /\ fwd[p].at \in {"send", "record"} => fwd[p].event \in Event
  /\ loop[p].at = "before" => loop[p].round = 0
  /\ loop[p].at \in InRound => loop[p].round <= MaxRounds
  /\ loop[p].at \in {"execute", "hookask", "ask", "approved"} => loop[p].todo # <<>>
  /\ loop[p].at = "approved" => loop[p].grant # "none"

Base == TypeOK /\ \A p \in Prompt : Phase(p)

-----------------------------------------------------------------------------
\* The program's bounds are natural numbers.
LEMMA SetupFields ==
  ASSUME NEW s \in Setups
  PROVE  s.deltas \in Nat /\ s.calls \in Nat /\ s.prompts \subseteq Prompt
  BY RuntimeAssumption DEF Setup

LEMMA EmptyIsBounded ==
  ASSUME NEW p \in Prompt, setup.deltas \in Nat, setup.calls \in Nat,
         loop[p].out = <<>>, loop[p].todo = <<>>, loop[p].round = 0, loop[p].said = 0, loop[p].used = 0
  PROVE  LoopBounded(p)
  BY RuntimeAssumption DEF LoopBounded

\* Writing a field of a loop's state keeps its type.
LEMMA LoopFields ==
  ASSUME NEW l \in LoopState, NEW out \in Seq(Event), NEW todo \in Seq(Calls), NEW n \in Nat
  PROVE  /\ [l EXCEPT !.out = out, !.said = n] \in LoopState
         /\ [l EXCEPT !.todo = todo, !.used = n] \in LoopState
         /\ [l EXCEPT !.out = out] \in LoopState
         /\ [l EXCEPT !.at = "open", !.round = n] \in LoopState
  BY DEF LoopState

LEMMA LoopCall ==
  ASSUME NEW l \in LoopState, NEW out \in Seq(Event), NEW todo \in Seq(Calls)
  PROVE  [l EXCEPT !.at = "execute", !.out = out, !.todo = todo] \in LoopState
  BY DEF LoopState

LEMMA BaseInit == Init => Base
  <1> SUFFICES ASSUME Init PROVE Base
      OBVIOUS
  <1> USE RuntimeAssumption DEF Init, NoRecord
  <1>1. \A p \in Prompt : copy[p] \in SessionRecord /\ Len(copy[p].events) = 0
      BY DEF SessionRecord
  <1>2. loop \in [Prompt -> LoopState] /\ srv \in [Prompt -> SrvState] /\ fwd \in [Prompt -> FwdState]
      BY DEF LoopState, SrvState, FwdState
  <1>3. \A p \in Prompt : LoopBounded(p)
      <2>1. setup.deltas \in Nat /\ setup.calls \in Nat
          BY SetupFields
      <2> QED BY <2>1, EmptyIsBounded
  <1>4. \A s \in Session : stored[s] = None
      OBVIOUS
  <1>5. TypeOK
      <2>1. /\ setup \in Setups /\ exited \in BOOLEAN /\ of \in [Prompt -> Session \cup {None}]
            /\ stored \in [Session -> SessionRecord \cup {None}]
            /\ cancels \in [Session -> Prompt \cup {None}]
            /\ heard \in [Prompt -> Terminal \cup {"none"}]
          OBVIOUS
      <2>2. copy \in [Prompt -> SessionRecord] /\ \A p \in Prompt : Len(copy[p].events) <= MaxSessionEvents
          BY <1>1
      <2>3. approved \subseteq Call /\ lost \subseteq Prompt /\ stopped \subseteq Prompt
            /\ mixed \subseteq Prompt /\ granted \subseteq Grant /\ ran \subseteq Grant
          OBVIOUS
      <2> HIDE DEF Init
      <2> QED BY <1>2, <1>3, <1>4, <2>1, <2>2, <2>3 DEF TypeOK
  <1>6. \A p \in Prompt : Phase(p)
      BY DEF Phase, InRound
  <1> QED BY <1>5, <1>6 DEF Base

-----------------------------------------------------------------------------
\* What a step of a loop leaves alone, and what it may add to.
OthersKept ==
  /\ setup' = setup /\ exited' = exited /\ stored' = stored /\ cancels' = cancels /\ of' = of
  /\ copy' = copy /\ lost' = lost /\ stopped' = stopped /\ srv' = srv /\ fwd' = fwd
  /\ mixed' = mixed /\ heard' = heard
HistoryTyped == approved' \subseteq Call /\ granted' \subseteq Grant /\ ran' \subseteq Grant

LEMMA OnlyTheLoop == ASSUME Base, LoopOnly PROVE OthersKept /\ HistoryTyped
  BY DEF Base, TypeOK, LoopOnly, OthersKept, HistoryTyped, shared, history

\* A step of one loop alone: its new state has the type, its bounds and its
\* phase.
LEMMA LoopStep ==
  ASSUME Base, NEW p \in Prompt, NEW r \in LoopState,
         loop' = [loop EXCEPT ![p] = r],
         Len(r.out) <= 2, r.round <= MaxRounds + 1, Len(r.todo) <= r.used,
         r.said <= setup.deltas, r.used <= setup.calls,
         fwd[p].at # "none", r.at \notin {"none", "before"},
         r.at \in InRound => r.round <= MaxRounds,
         r.at \in {"execute", "hookask", "ask", "approved"} => r.todo # <<>>,
         r.at = "approved" => r.grant # "none",
         OthersKept, HistoryTyped
  PROVE  Base'
  <1>1. loop' \in [Prompt -> LoopState] /\ loop'[p] = r /\ \A q \in Prompt \ {p} : loop'[q] = loop[q]
      BY DEF Base, TypeOK
  <1>2. \A q \in Prompt : LoopBounded(q)'
      BY <1>1 DEF Base, TypeOK, LoopBounded, OthersKept
  <1>3. TypeOK'
      BY <1>1, <1>2 DEF Base, TypeOK, OthersKept, HistoryTyped
  <1>4. \A q \in Prompt : Phase(q)'
      <2> TAKE q \in Prompt
      <2>1. CASE q = p
          BY <1>1, <2>1 DEF Base, Phase, OthersKept
      <2>2. CASE q # p
          BY <1>1, <2>2 DEF Base, Phase, OthersKept
      <2> QED BY <2>1, <2>2
  <1> QED BY <1>3, <1>4 DEF Base

-----------------------------------------------------------------------------
\* The steps of the loop.  Go and Done are of the form of LoopStep.
LEMMA GoIsLoopStep ==
  ASSUME Base, NEW p \in Prompt, NEW at, NEW events \in Seq(Event), Len(events) <= 2,
         Go(p, at, events),
         at \in {"open", "stream", "tools", "execute", "hookask", "ask", "end"},
         loop[p].at # "none",
         at \in InRound => loop[p].round <= MaxRounds,
         at \in {"execute", "hookask", "ask", "approved"} => loop[p].todo # <<>>,
         OthersKept, HistoryTyped
  PROVE  Base'
  <1> DEFINE r == [loop[p] EXCEPT !.at = at, !.out = events]
  <1>1. loop[p] \in LoopState /\ LoopBounded(p) /\ fwd[p].at # "none"
      BY DEF Base, TypeOK, Phase
  <1>2. /\ r \in LoopState /\ r.at = at /\ r.out = events /\ r.round = loop[p].round
        /\ r.todo = loop[p].todo /\ r.said = loop[p].said /\ r.used = loop[p].used
      BY <1>1 DEF LoopState
  <1>3. loop' = [loop EXCEPT ![p] = r]
      BY DEF Go, Base, TypeOK, LoopState
  <1> HIDE DEF r
  <1> QED BY <1>1, <1>2, <1>3, LoopStep DEF LoopBounded

LEMMA DoneIsLoopStep ==
  ASSUME Base, NEW p \in Prompt, NEW events \in Seq(Event), Len(events) <= 2,
         Done(p, events), loop[p].at \in InRound, loop[p].todo # <<>>,
         OthersKept, HistoryTyped
  PROVE  Base'
  <1> DEFINE r == [loop[p] EXCEPT !.at = "tools", !.out = events, !.todo = Tail(@), !.grant = "none"]
  <1>1. loop[p] \in LoopState /\ LoopBounded(p) /\ fwd[p].at # "none"
      BY DEF Base, TypeOK, Phase, InRound
  <1>2. /\ Tail(loop[p].todo) \in Seq(Calls)
        /\ Len(Tail(loop[p].todo)) <= Len(loop[p].todo)
      BY <1>1 DEF LoopState
  <1>3. /\ r \in LoopState /\ r.at = "tools" /\ r.out = events /\ r.round = loop[p].round
        /\ r.todo = Tail(loop[p].todo) /\ r.said = loop[p].said /\ r.used = loop[p].used
      BY <1>1, <1>2 DEF LoopState
  <1>4. loop' = [loop EXCEPT ![p] = r]
      BY DEF Done, Base, TypeOK, LoopState
  <1>5. loop[p].round <= MaxRounds /\ loop[p].round <= MaxRounds + 1
      BY <1>1, RuntimeAssumption DEF Base, Phase, LoopState
  <1>6. Len(r.todo) <= r.used
    <2>1. /\ Len(loop[p].todo) <= loop[p].used /\ loop[p].used \in Nat
          /\ Len(loop[p].todo) \in Nat /\ Len(Tail(loop[p].todo)) \in Nat
        BY <1>1, <1>2 DEF LoopBounded, LoopState
    <2> QED BY <1>2, <1>3, <2>1
  <1>7. r.said <= setup.deltas /\ r.used <= setup.calls
      BY <1>1, <1>3 DEF LoopBounded
  <1>8. /\ r.at = "tools" /\ r.at \notin {"none", "before"}
        /\ r.at \notin {"execute", "hookask", "ask", "approved"}
      BY <1>3
  <1> HIDE DEF r
  <1> QED BY <1>1, <1>3, <1>4, <1>5, <1>6, <1>7, <1>8, LoopStep

\* The events a step emits.
LEMMA Emitted ==
  /\ <<"started">> \in Seq(Event) /\ <<"delta">> \in Seq(Event) /\ <<"call">> \in Seq(Event)
  /\ <<"result">> \in Seq(Event) /\ <<"request">> \in Seq(Event) /\ <<"decided">> \in Seq(Event)
  /\ <<"completed">> \in Seq(Event) /\ <<"failed">> \in Seq(Event) /\ <<"cancelled">> \in Seq(Event)
  /\ <<>> \in Seq(Event) /\ <<"decided", "result">> \in Seq(Event)
  BY DEF Event, Terminal

LEMMA FewEmitted == \A a, b : Len(<<>>) <= 2 /\ Len(<<a>>) <= 2 /\ Len(<<a, b>>) <= 2
  OBVIOUS

\* What a step finds in the loop it moves.
LEMMA LoopTyped ==
  ASSUME Base, NEW p \in Prompt
  PROVE  /\ loop[p] \in LoopState /\ LoopBounded(p) /\ Phase(p)
         /\ setup.deltas \in Nat /\ setup.calls \in Nat
         /\ loop[p].at \notin {"none", "before"} => fwd[p].at # "none"
  BY SetupFields DEF Base, TypeOK, Phase

LEMMA StreamKeepsBase ==
  ASSUME Base, NEW p \in Prompt, Streaming(p) PROVE Base'
  <1>t. /\ loop[p] \in LoopState /\ LoopBounded(p) /\ Phase(p)
        /\ setup.deltas \in Nat /\ setup.calls \in Nat
        /\ loop[p].at \notin {"none", "before"} => fwd[p].at # "none"
      BY LoopTyped
  <1>1. ASSUME StreamDelta(p) PROVE Base'
      <2> DEFINE r == [loop[p] EXCEPT !.out = <<"delta">>, !.said = loop[p].said + 1]
      <2>0. /\ loop[p].at = "stream" /\ loop[p].said < setup.deltas
            /\ loop' = [loop EXCEPT ![p].out = <<"delta">>, ![p].said = @ + 1]
            /\ OthersKept /\ HistoryTyped
          BY <1>1, OnlyTheLoop DEF StreamDelta, At
      <2>1. /\ r \in LoopState /\ r.at = "stream" /\ r.out = <<"delta">> /\ r.round = loop[p].round
            /\ r.todo = loop[p].todo /\ r.said = loop[p].said + 1 /\ r.used = loop[p].used
          <3>1. loop[p].said + 1 \in Nat
              BY <1>t DEF LoopState
          <3>2. r \in LoopState
              <4>1. loop[p].todo \in Seq(Calls)
                  BY <1>t DEF LoopState
              <4> QED BY <1>t, <3>1, <4>1, Emitted, LoopFields
          <3> QED BY <1>t, <2>0, <3>2 DEF LoopState
      <2>2. loop' = [loop EXCEPT ![p] = r]
          BY <2>0 DEF Base, TypeOK, LoopState
      <2>3. r.said <= setup.deltas /\ Len(r.out) <= 2
          BY <2>0, <1>t, <2>1, Emitted, FewEmitted DEF LoopState
      <2> HIDE DEF r
      <2> QED BY <2>0, <1>t, <2>1, <2>2, <2>3, LoopStep DEF LoopBounded, Phase, InRound
  <1>2. ASSUME NEW c \in Calls, StreamCall(p, c) PROVE Base'
      <2> DEFINE r == [loop[p] EXCEPT !.todo = Append(loop[p].todo, c), !.used = loop[p].used + 1]
      <2>0. /\ loop[p].at = "stream" /\ loop[p].used < setup.calls
            /\ loop' = [loop EXCEPT ![p].todo = Append(@, c), ![p].used = @ + 1]
            /\ OthersKept /\ HistoryTyped
          BY <1>2, OnlyTheLoop DEF StreamCall, At
      <2>1. /\ r \in LoopState /\ r.at = "stream" /\ r.out = loop[p].out /\ r.round = loop[p].round
            /\ r.todo = Append(loop[p].todo, c) /\ r.said = loop[p].said /\ r.used = loop[p].used + 1
          <3>1. loop[p].used + 1 \in Nat /\ loop[p].todo \in Seq(Calls)
              BY SMTT(30), <1>t DEF LoopState
          <3>2. Append(loop[p].todo, c) \in Seq(Calls)
              BY <3>1
          <3>3. r \in LoopState
              BY <1>t, <3>1, <3>2, Emitted, LoopFields
          <3> QED BY <1>t, <2>0, <3>3 DEF LoopState
      <2>2. loop' = [loop EXCEPT ![p] = r]
          BY <2>0 DEF Base, TypeOK, LoopState
      <2>3. r.used <= setup.calls /\ Len(r.todo) <= r.used
          <3>1. loop[p].todo \in Seq(Calls) /\ loop[p].used \in Nat /\ Len(loop[p].todo) <= loop[p].used
              BY <1>t DEF LoopState, LoopBounded
          <3> QED BY <2>0, <1>t, <2>1, <3>1
      <2> HIDE DEF r
      <2> QED BY <2>0, <1>t, <2>1, <2>2, <2>3, LoopStep DEF LoopBounded, Phase, InRound
  <1>3. ASSUME StreamFails(p) PROVE Base'
      BY <1>t, <1>3, OnlyTheLoop, Emitted, FewEmitted, GoIsLoopStep DEF StreamFails, At, InRound
  <1>4. ASSUME StreamCancelled(p) PROVE Base'
      BY <1>t, <1>4, OnlyTheLoop, Emitted, FewEmitted, GoIsLoopStep DEF StreamCancelled, At, InRound
  <1>5. ASSUME StreamEnd(p) PROVE Base'
      <2>1. loop[p].at = "stream" /\ OthersKept /\ HistoryTyped /\ loop[p].round <= MaxRounds
          BY <1>t, <1>5, OnlyTheLoop DEF StreamEnd, At, Phase, InRound
      <2>2. CASE Go(p, "end", <<"completed">>)
          BY <1>t, <2>1, <2>2, Emitted, FewEmitted, GoIsLoopStep DEF InRound
      <2>3. CASE Go(p, "tools", <<>>)
          BY <1>t, <2>1, <2>3, Emitted, FewEmitted, GoIsLoopStep DEF InRound
      <2> QED BY <1>5, <2>2, <2>3 DEF StreamEnd
  <1> QED BY <1>1, <1>2, <1>3, <1>4, <1>5 DEF Streaming

LEMMA CurrentIsCall ==
  ASSUME Base, NEW p \in Prompt, loop[p].todo # <<>>
  PROVE  Current(p) \in Calls /\ Current(p) \in Call
  <1>1. loop[p].todo \in Seq(Calls)
      BY DEF Base, TypeOK, LoopState
  <1> QED BY <1>1, RuntimeAssumption DEF Current

LEMMA CallingKeepsBase ==
  ASSUME Base, NEW p \in Prompt, Calling(p) \/ Asking(p) PROVE Base'
  <1>t. loop[p] \in LoopState /\ LoopBounded(p) /\ Phase(p)
        /\ approved \subseteq Call /\ granted \subseteq Grant /\ ran \subseteq Grant
      BY LoopTyped DEF Base, TypeOK
  <1> DEFINE K == OthersKept /\ HistoryTyped
  <1>1. ASSUME BeforeTool(p) PROVE Base'
      <2>1. loop[p].at = "tools" /\ loop[p].todo # <<>> /\ OthersKept /\ HistoryTyped
            /\ loop[p].round <= MaxRounds /\ loop[p].at \in InRound
          BY <1>t, <1>1, OnlyTheLoop DEF BeforeTool, At, Phase, InRound
      <2>2. CASE Go(p, "execute", <<"call">>)
          BY <2>1, <2>2, Emitted, FewEmitted, GoIsLoopStep
      <2>3. CASE Done(p, <<"result">>)
          BY <2>1, <2>3, Emitted, FewEmitted, DoneIsLoopStep
      <2>4. CASE Go(p, "hookask", <<"request">>)
          BY <2>1, <2>4, Emitted, FewEmitted, GoIsLoopStep
      <2>5. ASSUME NEW c \in Calls,
                   loop' = [loop EXCEPT ![p].at = "execute", ![p].out = <<"call">>, ![p].todo[1] = c]
            PROVE  Base'
          <3> DEFINE todo == [loop[p].todo EXCEPT ![1] = c]
                     r == [loop[p] EXCEPT !.at = "execute", !.out = <<"call">>, !.todo = todo]
          <3>1. loop[p].todo \in Seq(Calls) /\ 1 \in DOMAIN loop[p].todo
              BY <1>t, <2>1 DEF LoopState
          <3>2. todo \in Seq(Calls) /\ Len(todo) = Len(loop[p].todo) /\ todo # <<>>
              <4>1. todo \in Seq(Calls) /\ Len(todo) = Len(loop[p].todo)
                  BY <3>1, ExceptSeq
              <4> QED BY <4>1, <3>1
          <3>3. r \in LoopState
              BY <1>t, <3>2, Emitted, LoopCall
          <3>4. /\ r.at = "execute" /\ r.out = <<"call">> /\ r.round = loop[p].round
                /\ r.todo = todo /\ r.said = loop[p].said /\ r.used = loop[p].used
              BY <1>t DEF LoopState
          <3>5. loop' = [loop EXCEPT ![p] = r]
              BY <2>5, <1>t DEF Base, TypeOK, LoopState
          <3> HIDE DEF r, todo
          <3> QED BY <1>t, <2>1, <3>2, <3>3, <3>4, <3>5, FewEmitted, LoopStep DEF LoopBounded, Phase
      <2> QED BY <1>1, <2>2, <2>3, <2>4, <2>5 DEF BeforeTool
  <1>2. ASSUME HookApproval(p) PROVE Base'
      <2>1. loop[p].at = "hookask" /\ loop[p].todo # <<>> /\ OthersKept /\ HistoryTyped
            /\ loop[p].round <= MaxRounds /\ loop[p].at \in InRound
          BY <1>t, <1>2, OnlyTheLoop DEF HookApproval, At, Phase, InRound
      <2>2. CASE Go(p, "execute", <<"call">>)
          BY <2>1, <2>2, Emitted, FewEmitted, GoIsLoopStep
      <2>3. CASE Done(p, <<"result">>)
          BY <2>1, <2>3, Emitted, FewEmitted, DoneIsLoopStep
      <2> QED BY <1>2, <2>2, <2>3 DEF HookApproval
  <1>3. ASSUME Unknown(p) PROVE Base'
      <2>1. loop[p].todo # <<>> /\ OthersKept /\ HistoryTyped /\ loop[p].at \in InRound
            /\ Done(p, <<"result">>)
          BY <1>t, <1>3, OnlyTheLoop DEF Unknown, At, Phase, InRound
      <2> QED BY <2>1, Emitted, FewEmitted, DoneIsLoopStep
  <1>4. ASSUME ExecuteAlways(p) PROVE Base'
      <2>1. loop[p].todo # <<>> /\ loop[p].at \in InRound /\ Done(p, <<"result">>) /\ OthersKept
          BY <1>t, <1>4 DEF ExecuteAlways, At, Phase, InRound, OthersKept, shared
      <2>2. [prompt |-> p, n |-> loop[p].used, call |-> Current(p), scope |-> "always"] \in Grant
          BY <1>t, <2>1, CurrentIsCall DEF Grant, LoopState
      <2>3. HistoryTyped
          BY <1>t, <1>4, <2>2 DEF ExecuteAlways, HistoryTyped, shared
      <2> QED BY <2>1, <2>3, Emitted, FewEmitted, DoneIsLoopStep
  <1>5. ASSUME Execute(p) PROVE Base'
      <2>1. loop[p].todo # <<>> /\ OthersKept /\ HistoryTyped
            /\ loop[p].round <= MaxRounds /\ loop[p].at = "execute" /\ loop[p].at \in InRound
          BY <1>t, <1>5, OnlyTheLoop DEF Execute, At, Phase, InRound
      <2>2. CASE Go(p, "ask", <<"request">>)
          BY <2>1, <2>2, Emitted, FewEmitted, GoIsLoopStep
      <2>3. CASE Done(p, <<"result">>)
          BY <2>1, <2>3, Emitted, FewEmitted, DoneIsLoopStep
      <2> QED BY <1>5, <2>2, <2>3 DEF Execute
  <1>6. ASSUME Approve(p) PROVE Base'
      <2>1. loop[p].todo # <<>> /\ OthersKept /\ loop[p].round <= MaxRounds
            /\ loop[p].at = "ask" /\ loop[p].at \in InRound
          BY <1>t, <1>6 DEF Approve, At, Phase, InRound, OthersKept, shared
      <2>2. CASE Done(p, <<"decided", "result">>) /\ UNCHANGED granted
          <3>1. HistoryTyped
              BY <1>t, <1>6, <2>2 DEF Approve, HistoryTyped, shared
          <3> QED BY <2>1, <2>2, <3>1, Emitted, FewEmitted, DoneIsLoopStep
      <2>3. ASSUME NEW scope \in {"once", "always"},
                   loop' = [loop EXCEPT ![p].at = "approved", ![p].out = <<"decided">>, ![p].grant = scope],
                   granted' = granted \cup {[prompt |-> p, n |-> loop[p].used, call |-> Current(p), scope |-> scope]}
            PROVE  Base'
          <3> DEFINE r == [loop[p] EXCEPT !.at = "approved", !.out = <<"decided">>, !.grant = scope]
          <3>1. [prompt |-> p, n |-> loop[p].used, call |-> Current(p), scope |-> scope] \in Grant
              BY <1>t, <2>1, CurrentIsCall DEF Grant, LoopState
          <3>2. HistoryTyped
              BY <1>t, <1>6, <2>3, <3>1 DEF Approve, HistoryTyped, shared
          <3>3. r \in LoopState
              BY <1>t, Emitted DEF LoopState
          <3>4. /\ r.at = "approved" /\ r.out = <<"decided">> /\ r.round = loop[p].round
                /\ r.todo = loop[p].todo /\ r.said = loop[p].said /\ r.used = loop[p].used
                /\ r.grant # "none"
              BY <1>t DEF LoopState
          <3>5. loop' = [loop EXCEPT ![p] = r]
              BY <2>3, <1>t DEF Base, TypeOK, LoopState
          <3> HIDE DEF r
          <3> QED BY <1>t, <2>1, <3>2, <3>3, <3>4, <3>5, FewEmitted, LoopStep DEF LoopBounded, Phase
      <2> QED BY <1>6, <2>2, <2>3 DEF Approve
  <1>7. ASSUME RunApproved(p) PROVE Base'
      <2>1. loop[p].todo # <<>> /\ loop[p].at = "approved" /\ loop[p].at \in InRound
            /\ Done(p, <<"result">>) /\ OthersKept
          BY <1>t, <1>7 DEF RunApproved, At, Phase, InRound, OthersKept
      <2>2. [prompt |-> p, n |-> loop[p].used, call |-> Current(p), scope |-> loop[p].grant] \in Grant
          BY <1>t, <2>1, CurrentIsCall DEF Grant, LoopState, Phase
      <2>3. HistoryTyped
          BY <1>t, <1>7, <2>1, <2>2, CurrentIsCall DEF RunApproved, HistoryTyped
      <2> QED BY <2>1, <2>3, Emitted, FewEmitted, DoneIsLoopStep
  <1> QED BY <1>1, <1>2, <1>3, <1>4, <1>5, <1>6, <1>7 DEF Calling, Asking

\* Writing a field of a goroutine's state keeps the type of all of them.
LEMMA SrvSteps ==
  ASSUME Base, NEW p \in Prompt
  PROVE  /\ \A a \in {"error", "end_turn", "cancelled", "refusal", "none"} :
               [srv EXCEPT ![p].at = "answered", ![p].answer = a] \in [Prompt -> SrvState]
         /\ \A at \in {"save", "register", "read"} : [srv EXCEPT ![p].at = at] \in [Prompt -> SrvState]
         /\ \A s \in {"none", "end_turn", "cancelled", "refusal"} :
               [srv EXCEPT ![p].at = "read", ![p].stop = s] \in [Prompt -> SrvState]
         /\ \A e \in Event : [srv EXCEPT ![p].at = "got", ![p].event = e] \in [Prompt -> SrvState]
  <1>1. srv \in [Prompt -> SrvState]
      BY DEF Base, TypeOK
  <1>2. ASSUME NEW at \in {"save", "register", "read", "got", "answered"}
        PROVE  [srv EXCEPT ![p].at = at] \in [Prompt -> SrvState]
      BY <1>1 DEF SrvState
  <1>3. ASSUME NEW a \in {"error", "end_turn", "cancelled", "refusal", "none"}
        PROVE  [srv EXCEPT ![p].at = "answered", ![p].answer = a] \in [Prompt -> SrvState]
      <2> DEFINE f == [srv EXCEPT ![p].at = "answered"]
      <2>1. f \in [Prompt -> SrvState]
          BY <1>2
      <2> HIDE DEF f
      <2>2. [f EXCEPT ![p].answer = a] \in [Prompt -> SrvState]
          BY <2>1 DEF SrvState
      <2> QED BY <2>2 DEF f
  <1>4. ASSUME NEW s \in {"none", "end_turn", "cancelled", "refusal"}
        PROVE  [srv EXCEPT ![p].at = "read", ![p].stop = s] \in [Prompt -> SrvState]
      <2> DEFINE f == [srv EXCEPT ![p].at = "read"]
      <2>1. f \in [Prompt -> SrvState]
          BY <1>2
      <2> HIDE DEF f
      <2>2. [f EXCEPT ![p].stop = s] \in [Prompt -> SrvState]
          BY <2>1 DEF SrvState
      <2> QED BY <2>2 DEF f
  <1>5. ASSUME NEW e \in Event
        PROVE  [srv EXCEPT ![p].at = "got", ![p].event = e] \in [Prompt -> SrvState]
      <2> DEFINE f == [srv EXCEPT ![p].at = "got"]
      <2>1. f \in [Prompt -> SrvState]
          BY <1>2
      <2> HIDE DEF f
      <2>2. [f EXCEPT ![p].event = e] \in [Prompt -> SrvState]
          BY <2>1 DEF SrvState
      <2> QED BY <2>2 DEF f
  <1> QED BY <1>2, <1>3, <1>4, <1>5

LEMMA FwdSteps ==
  ASSUME Base, NEW p \in Prompt, NEW e \in Event
  PROVE  /\ \A at \in {"take", "record", "release", "closed"} :
               [fwd EXCEPT ![p].at = at] \in [Prompt -> FwdState]
         /\ [fwd EXCEPT ![p].at = "send", ![p].event = e] \in [Prompt -> FwdState]
         /\ [fwd EXCEPT ![p].at = "take", ![p].spoke = TRUE] \in [Prompt -> FwdState]
  <1>1. fwd \in [Prompt -> FwdState]
      BY DEF Base, TypeOK
  <1>2. \A at \in {"take", "record", "release", "closed"} : [fwd EXCEPT ![p].at = at] \in [Prompt -> FwdState]
      BY <1>1 DEF FwdState
  <1>3. [fwd EXCEPT ![p].at = "send", ![p].event = e] \in [Prompt -> FwdState]
      BY <1>1 DEF FwdState
  <1>4. [fwd EXCEPT ![p].at = "take", ![p].spoke = TRUE] \in [Prompt -> FwdState]
      BY <1>1 DEF FwdState
  <1> QED BY <1>2, <1>3, <1>4

LEMMA StartingKeepsBase ==
  ASSUME Base, NEW p \in Prompt, Starting(p) \/ Passing(p) PROVE Base'
  <1>t. loop[p] \in LoopState /\ LoopBounded(p) /\ Phase(p) /\ srv[p] \in SrvState /\ fwd[p] \in FwdState
      BY LoopTyped DEF Base, TypeOK
  <1>1. ASSUME Save(p) PROVE Base'
      <2>1. of[p] \in Session /\ srv[p].at = "save"
          BY <1>1, <1>t DEF Save, Phase
      <2>2. srv' \in [Prompt -> SrvState]
          <3>1. CASE p \in lost
              <4>1. srv' = [srv EXCEPT ![p].at = "answered", ![p].answer = "error"]
                  BY <1>1, <3>1 DEF Save
              <4> QED BY <4>1, SrvSteps
          <3>2. CASE p \notin lost
              <4>1. srv' = [srv EXCEPT ![p].at = "register"]
                  BY <1>1, <3>2 DEF Save
              <4> QED BY <4>1, SrvSteps
          <3> QED BY <3>1, <3>2
      <2>3. stored' \in [Session -> SessionRecord \cup {None}]
            /\ \A s \in Session : stored'[s] # None => Len(stored'[s].events) <= MaxSessionEvents
          BY <1>1, <2>1 DEF Save, Base, TypeOK
      <2>4. TypeOK'
          BY <1>1, <2>2, <2>3 DEF Save, Base, TypeOK, LoopBounded, history
      <2>5. \A q \in Prompt : Phase(q)'
          BY <1>1, <2>1 DEF Save, Base, TypeOK, SrvState, Phase
      <2> QED BY <2>4, <2>5 DEF Base
  <1>2. ASSUME Register(p) PROVE Base'
      <2>1. of[p] \in Session /\ loop[p].at = "none" /\ loop[p].out = <<>> /\ loop[p].round = 0
          BY <1>2, <1>t DEF Register, Phase
      <2>2. srv' \in [Prompt -> SrvState] /\ fwd' \in [Prompt -> FwdState] /\ loop' \in [Prompt -> LoopState]
          <3>1. "started" \in Event
              BY DEF Event
          <3>2. srv' \in [Prompt -> SrvState]
              BY <1>2, <3>1, SrvSteps DEF Register
          <3>3. fwd' \in [Prompt -> FwdState]
              BY <1>2, <3>1, FwdSteps DEF Register
          <3>4. loop' \in [Prompt -> LoopState]
              <4>1. loop \in [Prompt -> LoopState] /\ loop' = [loop EXCEPT ![p].at = "before"]
                  BY <1>2 DEF Register, Base, TypeOK
              <4> QED BY <4>1 DEF LoopState
          <3> QED BY <3>2, <3>3, <3>4
      <2>3. \A q \in Prompt : LoopBounded(q)'
          BY <1>2 DEF Register, LoopState, Base, TypeOK, LoopBounded
      <2>4. TypeOK'
          BY <1>2, <2>1, <2>2, <2>3 DEF Register, Base, TypeOK, history
      <2>5. \A q \in Prompt : Phase(q)'
          BY <1>2, <2>1 DEF Register, Base, TypeOK, SrvState, FwdState, LoopState, Phase, InRound
      <2> QED BY <2>4, <2>5 DEF Base
  <1>3. ASSUME BeforeRun(p) PROVE Base'
      <2>1. loop[p].at = "before" /\ OthersKept /\ HistoryTyped
          BY <1>3, OnlyTheLoop DEF BeforeRun, At
      <2>2. CASE Go(p, "open", <<"started">>)
          BY <2>1, <2>2, Emitted, FewEmitted, GoIsLoopStep DEF InRound
      <2>3. CASE Go(p, "end", <<"failed">>)
          BY <2>1, <2>3, Emitted, FewEmitted, GoIsLoopStep DEF InRound
      <2> QED BY <1>3, <2>2, <2>3 DEF BeforeRun
  <1>4. ASSUME OpenStream(p) PROVE Base'
      <2>1. loop[p].at = "open" /\ OthersKept /\ HistoryTyped
          BY <1>4, OnlyTheLoop DEF OpenStream, At
      <2>2. CASE loop[p].round <= MaxRounds /\ Go(p, "stream", <<>>)
          BY <2>1, <2>2, Emitted, FewEmitted, GoIsLoopStep
      <2>3. CASE Go(p, "end", <<"failed">>)
          BY <2>1, <2>3, Emitted, FewEmitted, GoIsLoopStep DEF InRound
      <2> QED BY <1>4, <2>2, <2>3 DEF OpenStream
  <1>5. ASSUME NextRound(p) PROVE Base'
      <2> DEFINE r == [loop[p] EXCEPT !.at = "open", !.round = loop[p].round + 1]
      <2>1. /\ loop[p].at = "tools" /\ OthersKept /\ HistoryTyped /\ loop[p].round <= MaxRounds
            /\ loop' = [loop EXCEPT ![p].at = "open", ![p].round = @ + 1]
            /\ loop[p].round \in Nat
          BY <1>5, <1>t, OnlyTheLoop DEF NextRound, At, Phase, InRound, LoopState
      <2>2. /\ r \in LoopState /\ r.at = "open" /\ r.out = loop[p].out /\ r.round = loop[p].round + 1
            /\ r.todo = loop[p].todo /\ r.said = loop[p].said /\ r.used = loop[p].used
          <3>1. /\ loop[p].round + 1 \in Nat
                /\ loop[p].out \in Seq(Event) /\ loop[p].todo \in Seq(Calls)
              BY <1>t, <2>1 DEF LoopState
          <3>2. r \in LoopState
              BY <1>t, <3>1, LoopFields
          <3> QED BY <1>t, <3>2 DEF LoopState
      <2>3. loop' = [loop EXCEPT ![p] = r]
          BY <2>1 DEF Base, TypeOK, LoopState
      <2>4. r.round <= MaxRounds + 1
          BY <2>1, <2>2, RuntimeAssumption
      <2>5. fwd[p].at # "none"
          BY <1>t, <2>1 DEF Phase
      <2> HIDE DEF r
      <2> QED BY <1>t, <2>1, <2>2, <2>3, <2>4, <2>5, LoopStep DEF LoopBounded, InRound
  <1> DEFINE l == [loop[p] EXCEPT !.out = Tail(loop[p].out)]
  <1>6. ASSUME loop[p].out # <<>>
        PROVE  /\ loop[p].out \in Seq(Event) /\ Head(loop[p].out) \in Event
               /\ Tail(loop[p].out) \in Seq(Event) /\ Len(Tail(loop[p].out)) <= 2
               /\ l \in LoopState /\ l.at = loop[p].at /\ l.out = Tail(loop[p].out)
               /\ l.todo = loop[p].todo /\ l.round = loop[p].round /\ l.said = loop[p].said
               /\ l.used = loop[p].used /\ l.grant = loop[p].grant
      <2>1. loop[p].out \in Seq(Event) /\ Len(loop[p].out) <= 2
          BY <1>t DEF LoopState, LoopBounded
      <2>2. /\ Head(loop[p].out) \in Event
            /\ Tail(loop[p].out) \in Seq(Event) /\ Len(Tail(loop[p].out)) <= 2
          BY <1>6, <2>1
      <2> QED BY <1>t, <2>1, <2>2 DEF LoopState
  <1>7. ASSUME Drop(p) PROVE Base'
      <2>1. /\ loop[p].out # <<>> /\ OthersKept /\ HistoryTyped
            /\ loop' = [loop EXCEPT ![p] = l]
          BY <1>7 DEF Drop, OthersKept, HistoryTyped, Base, TypeOK, shared, history, LoopState
      <2>2. \A q \in Prompt : LoopBounded(q)'
          BY <1>6, <2>1 DEF Base, TypeOK, LoopBounded, OthersKept
      <2>3. loop' \in [Prompt -> LoopState]
          BY <1>6, <2>1 DEF Base, TypeOK
      <2>4. TypeOK'
          BY <2>1, <2>2, <2>3 DEF Base, TypeOK, OthersKept, HistoryTyped
      <2>5. \A q \in Prompt : Phase(q)'
          BY <1>6, <2>1 DEF Base, TypeOK, OthersKept, Phase
      <2> QED BY <2>4, <2>5 DEF Base
  <1>8. ASSUME Emit(p) PROVE Base'
      <2>6. loop \in [Prompt -> LoopState]
          BY DEF Base, TypeOK
      <2>7. loop' = [loop EXCEPT ![p] = l]
          BY <1>8, <2>6 DEF Emit, LoopState
      <2>1. /\ loop[p].out # <<>> /\ fwd[p].at = "take"
            /\ loop' = [loop EXCEPT ![p] = l]
            /\ fwd' = [fwd EXCEPT ![p].at = "send", ![p].event = Head(loop[p].out)]
          BY <1>8, <2>7 DEF Emit
      <2>2. \A q \in Prompt : LoopBounded(q)'
          BY <1>6, <1>8, <2>1 DEF Emit, Base, TypeOK, LoopBounded
      <2>3. loop' \in [Prompt -> LoopState] /\ fwd' \in [Prompt -> FwdState]
        <3>1. loop' \in [Prompt -> LoopState]
            BY <1>6, <2>1, <2>6
        <3>2. Head(loop[p].out) \in Event /\ fwd \in [Prompt -> FwdState]
            BY <1>6, <2>1 DEF Base, TypeOK
        <3>3. fwd' \in [Prompt -> FwdState]
            BY <2>1, <3>2 DEF FwdState
        <3> QED BY <3>1, <3>3
      <2>4. TypeOK'
          BY <1>8, <2>2, <2>3 DEF Emit, Base, TypeOK, shared, history
      <2>5. \A q \in Prompt : Phase(q)'
          BY <1>6, <1>8, <2>1 DEF Emit, Base, TypeOK, Phase, FwdState
      <2> QED BY <2>4, <2>5 DEF Base
  <1> QED BY <1>1, <1>2, <1>3, <1>4, <1>5, <1>7, <1>8 DEF Starting, Passing

\* The newest events are kept.
LEMMA KeptIsBounded ==
  ASSUME NEW events \in Seq(Event), Len(events) <= MaxSessionEvents, NEW e \in Event
  PROVE  Kept(events, e) \in Seq(Event) /\ Len(Kept(events, e)) <= MaxSessionEvents
  <1> DEFINE all == Append(events, e)
  <1>1. all \in Seq(Event) /\ Len(all) = Len(events) + 1 /\ all # <<>>
      OBVIOUS
  <1>2. Tail(all) \in Seq(Event) /\ Len(Tail(all)) = Len(events)
      BY <1>1
  <1> HIDE DEF all
  <1>3. Kept(events, e) = IF Len(all) > MaxSessionEvents THEN Tail(all) ELSE all
      BY DEF Kept, all
  <1> QED BY <1>1, <1>2, <1>3, RuntimeAssumption

\* Writing a prompt's copy, and the file from it.
LEMMA CopyStep ==
  ASSUME Base, NEW p \in Prompt, NEW r \in SessionRecord, Len(r.events) <= MaxSessionEvents,
         copy' = [copy EXCEPT ![p] = r]
  PROVE  /\ copy' \in [Prompt -> SessionRecord] /\ copy'[p] = r
         /\ \A q \in Prompt : Len(copy'[q].events) <= MaxSessionEvents
  BY DEF Base, TypeOK

LEMMA StoredStep ==
  ASSUME Base, NEW s \in Session, NEW r \in SessionRecord, Len(r.events) <= MaxSessionEvents,
         stored' = [stored EXCEPT ![s] = r]
  PROVE  /\ stored' \in [Session -> SessionRecord \cup {None}]
         /\ \A t \in Session : stored'[t] # None => Len(stored'[t].events) <= MaxSessionEvents
  BY DEF Base, TypeOK

\* A reply or a message of the user makes a record of a record.
LEMMA SaidStep ==
  ASSUME NEW r \in SessionRecord, NEW m \in Message
  PROVE  /\ [r EXCEPT !.messages = Append(@, m)] \in SessionRecord
         /\ [r EXCEPT !.messages = Append(@, m)].events = r.events
  <1>1. Append(r.messages, m) \in Seq(Message)
      BY DEF SessionRecord
  <1> QED BY <1>1 DEF SessionRecord

LEMMA RecordStep ==
  ASSUME NEW r \in SessionRecord, Len(r.events) <= MaxSessionEvents, NEW e \in Event
  PROVE  /\ [r EXCEPT !.events = Kept(@, e)] \in SessionRecord
         /\ Len([r EXCEPT !.events = Kept(@, e)].events) <= MaxSessionEvents
  <1>1. Kept(r.events, e) \in Seq(Event) /\ Len(Kept(r.events, e)) <= MaxSessionEvents
      BY KeptIsBounded DEF SessionRecord
  <1> QED BY <1>1 DEF SessionRecord

LEMMA ForwardingKeepsBase ==
  ASSUME Base, NEW p \in Prompt, Forwarding(p) PROVE Base'
  <1>t. /\ Phase(p) /\ srv[p] \in SrvState /\ fwd[p] \in FwdState
        /\ copy[p] \in SessionRecord /\ Len(copy[p].events) <= MaxSessionEvents
        /\ fwd[p].at # "none" => of[p] \in Session
      BY DEF Base, TypeOK, Phase
  <1> USE DEF shared, history
  <1>1. ASSUME Forward(p) PROVE Base'
      <2>1. fwd[p].at = "send" /\ fwd[p].event \in Event
          BY <1>1, <1>t DEF Forward, Phase
      <2>2. srv' \in [Prompt -> SrvState] /\ fwd' \in [Prompt -> FwdState]
          BY <1>1, <2>1, SrvSteps, FwdSteps DEF Forward
      <2>3. heard' \in [Prompt -> Terminal \cup {"none"}]
          BY <1>1 DEF Forward, Base, TypeOK
      <2>4. TypeOK'
          BY <1>1, <2>2, <2>3 DEF Forward, Base, TypeOK, LoopBounded
      <2>5. \A q \in Prompt : Phase(q)'
          BY <1>1, <2>1 DEF Forward, Base, TypeOK, SrvState, FwdState, Phase
      <2> QED BY <2>4, <2>5 DEF Base
  <1>2. ASSUME Collect(p) PROVE Base'
      <2>1. "delta" \in Event
          BY DEF Event
      <2>2. fwd' \in [Prompt -> FwdState]
          BY <1>2, <2>1, FwdSteps DEF Collect
      <2>3. TypeOK'
          BY <1>2, <2>2 DEF Collect, Base, TypeOK, LoopBounded
      <2>4. \A q \in Prompt : Phase(q)'
          BY <1>2 DEF Collect, Base, TypeOK, FwdState, Phase
      <2> QED BY <2>3, <2>4 DEF Base
  <1>3. ASSUME Record(p) PROVE Base'
      <2> DEFINE r == [copy[p] EXCEPT !.events = Kept(@, fwd[p].event)]
      <2>1. fwd[p].at = "record" /\ fwd[p].event \in Event /\ of[p] \in Session
          BY <1>3, <1>t DEF Record, Phase
      <2>2. r \in SessionRecord /\ Len(r.events) <= MaxSessionEvents
          BY <1>t, <2>1, RecordStep
      <2>3. copy' = [copy EXCEPT ![p] = r]
          BY <1>3 DEF Record, Base, TypeOK
      <2> HIDE DEF r
      <2>4. /\ copy' \in [Prompt -> SessionRecord] /\ copy'[p] = r
            /\ \A q \in Prompt : Len(copy'[q].events) <= MaxSessionEvents
          BY <2>2, <2>3, CopyStep
      <2>5. stored' = [stored EXCEPT ![of[p]] = r]
          BY <1>3, <2>4 DEF Record
      <2>6. /\ stored' \in [Session -> SessionRecord \cup {None}]
            /\ \A t \in Session : stored'[t] # None => Len(stored'[t].events) <= MaxSessionEvents
          BY <2>1, <2>2, <2>5, StoredStep
      <2>7. fwd' \in [Prompt -> FwdState]
          BY <1>3, <2>1, FwdSteps DEF Record
      <2>8. TypeOK'
          BY <1>3, <2>4, <2>6, <2>7 DEF Record, Base, TypeOK, LoopBounded
      <2>9. \A q \in Prompt : Phase(q)'
          BY <1>3 DEF Record, Base, TypeOK, FwdState, Phase
      <2> QED BY <2>8, <2>9 DEF Base
  <1>4. ASSUME Finish(p) PROVE Base'
      <2> DEFINE r == [copy[p] EXCEPT !.messages = Append(@, <<p, "reply">>)]
      <2>1. fwd[p].at = "take" /\ of[p] \in Session
          BY <1>4, <1>t DEF Finish, LoopEnded, Phase
      <2>2. r \in SessionRecord /\ Len(r.events) <= MaxSessionEvents
          <3>1. <<p, "reply">> \in Message
              BY DEF Message
          <3> QED BY <1>t, <3>1, SaidStep
      <2> DEFINE Good == /\ copy' \in [Prompt -> SessionRecord]
                         /\ \A q \in Prompt : Len(copy'[q].events) <= MaxSessionEvents
                         /\ stored' \in [Session -> SessionRecord \cup {None}]
                         /\ \A t \in Session : stored'[t] # None => Len(stored'[t].events) <= MaxSessionEvents
      <2>3. ASSUME fwd[p].spoke PROVE Good
          <3>1. copy' = [copy EXCEPT ![p] = r]
              BY <1>4, <2>3 DEF Finish, Base, TypeOK
          <3> HIDE DEF r
          <3>2. /\ copy' \in [Prompt -> SessionRecord] /\ copy'[p] = r
                /\ \A q \in Prompt : Len(copy'[q].events) <= MaxSessionEvents
              BY <2>2, <3>1, CopyStep
          <3>3. stored' = [stored EXCEPT ![of[p]] = r]
              BY <1>4, <2>3, <3>2 DEF Finish
          <3> QED BY <2>1, <2>2, <3>2, <3>3, StoredStep
      <2>4. ASSUME ~fwd[p].spoke PROVE Good
          BY <1>4, <2>4 DEF Finish, Base, TypeOK
      <2>5. Good
          BY <2>3, <2>4
      <2>6. fwd' \in [Prompt -> FwdState]
          <3>1. "started" \in Event
              BY DEF Event
          <3> QED BY <1>4, <3>1, FwdSteps DEF Finish
      <2>7. TypeOK'
          BY <1>4, <2>5, <2>6 DEF Finish, Base, TypeOK, LoopBounded
      <2>8. \A q \in Prompt : Phase(q)'
          BY <1>4, <2>1 DEF Finish, Base, TypeOK, FwdState, Phase
      <2> QED BY <2>7, <2>8 DEF Base
  <1>5. ASSUME Release(p) PROVE Base'
      <2>1. fwd[p].at = "release" /\ of[p] \in Session
          BY <1>5, <1>t DEF Release
      <2>2. fwd' \in [Prompt -> FwdState]
          <3>1. "started" \in Event
              BY DEF Event
          <3> QED BY <1>5, <3>1, FwdSteps DEF Release
      <2>3. TypeOK'
          BY <1>5, <2>1, <2>2 DEF Release, Base, TypeOK, LoopBounded
      <2>4. \A q \in Prompt : Phase(q)'
          BY <1>5 DEF Release, Base, TypeOK, FwdState, Phase
      <2> QED BY <2>3, <2>4 DEF Base
  <1> QED BY <1>1, <1>2, <1>3, <1>4, <1>5 DEF Forwarding

LEMMA AnsweringKeepsBase ==
  ASSUME Base, NEW p \in Prompt, Answering(p) PROVE Base'
  <1>t. Phase(p) /\ srv[p] \in SrvState
      BY DEF Base, TypeOK
  <1> USE DEF shared, history
  <1>1. ASSUME Update(p) PROVE Base'
      <2>1. StopReason(srv[p].event, srv[p].stop) \in {"none", "end_turn", "cancelled", "refusal"}
          BY <1>t DEF StopReason, SrvState
      <2>2. srv' = [srv EXCEPT ![p].at = "read", ![p].stop = StopReason(srv[p].event, srv[p].stop)]
          BY <1>1 DEF Update, Base, TypeOK, SrvState
      <2>3. srv' \in [Prompt -> SrvState]
          BY <2>1, <2>2, SrvSteps
      <2>4. TypeOK'
          BY <1>1, <2>3 DEF Update, Base, TypeOK, LoopBounded
      <2>5. \A q \in Prompt : Phase(q)'
          BY <1>1, <1>t DEF Update, Base, TypeOK, SrvState, Phase
      <2> QED BY <2>4, <2>5 DEF Base
  <1>2. ASSUME UpdateFails(p) PROVE Base'
      <2>1. srv' = [srv EXCEPT ![p].at = "answered", ![p].answer = "error"]
          BY <1>2 DEF UpdateFails
      <2>2. srv' \in [Prompt -> SrvState]
          BY <2>1, SrvSteps
      <2>3. TypeOK'
          BY <1>2, <2>2 DEF UpdateFails, Base, TypeOK, LoopBounded
      <2>4. \A q \in Prompt : Phase(q)'
          BY <1>2, <1>t DEF UpdateFails, Base, TypeOK, SrvState, Phase
      <2> QED BY <2>3, <2>4 DEF Base
  <1>3. ASSUME Printed(p) PROVE Base'
      <2>1. \/ srv' = [srv EXCEPT ![p].at = "answered", ![p].answer = "error"] /\ exited' = TRUE
            \/ srv' = [srv EXCEPT ![p].at = "read"] /\ exited' = exited
          BY <1>3 DEF Printed
      <2>2. srv' \in [Prompt -> SrvState] /\ exited' \in BOOLEAN
          <3>1. exited \in BOOLEAN
              BY DEF Base, TypeOK
          <3>2. CASE srv' = [srv EXCEPT ![p].at = "answered", ![p].answer = "error"]
              BY <2>1, <3>1, <3>2, SrvSteps
          <3>3. CASE srv' = [srv EXCEPT ![p].at = "read"]
              BY <2>1, <3>1, <3>3, SrvSteps
          <3> QED BY <2>1, <3>2, <3>3
      <2>3. TypeOK'
          BY <1>3, <2>2 DEF Printed, Base, TypeOK, LoopBounded
      <2>4. \A q \in Prompt : Phase(q)'
          BY <1>3, <1>t DEF Printed, Base, TypeOK, SrvState, Phase
      <2> QED BY <2>3, <2>4 DEF Base
  <1>4. ASSUME Answer(p) PROVE Base'
      <2> DEFINE a == IF setup.acp /\ p \in lost THEN "cancelled" ELSE srv[p].stop
      <2>1. a \in {"error", "end_turn", "cancelled", "refusal", "none"}
          BY <1>t DEF SrvState
      <2>2. srv' = [srv EXCEPT ![p].at = "answered", ![p].answer = a]
          BY <1>4 DEF Answer
      <2>3. srv' \in [Prompt -> SrvState]
          BY <2>1, <2>2, SrvSteps
      <2>4. TypeOK'
          BY <1>4, <2>3 DEF Answer, Base, TypeOK, LoopBounded
      <2>5. \A q \in Prompt : Phase(q)'
          BY <1>4, <1>t DEF Answer, Base, TypeOK, SrvState, Phase
      <2> QED BY <2>4, <2>5 DEF Base
  <1> QED BY <1>1, <1>2, <1>3, <1>4 DEF Answering

LEMMA SessionsKeepBase ==
  ASSUME Base, NEW s \in Session, NewSession(s) \/ Cancel(s)
  PROVE  Base'
  <1> USE DEF shared, history
  <1>1. ASSUME NewSession(s) PROVE Base'
      <2>1. NoRecord \in SessionRecord /\ Len(NoRecord.events) <= MaxSessionEvents
          BY RuntimeAssumption DEF NoRecord, SessionRecord
      <2>2. /\ stored' \in [Session -> SessionRecord \cup {None}]
            /\ \A t \in Session : stored'[t] # None => Len(stored'[t].events) <= MaxSessionEvents
          BY <1>1, <2>1, StoredStep DEF NewSession
      <2>3. TypeOK'
          BY <1>1, <2>2 DEF NewSession, Base, TypeOK, LoopBounded
      <2>4. \A q \in Prompt : Phase(q)'
          BY <1>1 DEF NewSession, Base, Phase
      <2> QED BY <2>3, <2>4 DEF Base
  <1>2. ASSUME Cancel(s) PROVE Base'
      <2>1. TypeOK'
          BY <1>2 DEF Cancel, Base, TypeOK, LoopBounded
      <2>2. \A q \in Prompt : Phase(q)'
          BY <1>2 DEF Cancel, Base, Phase
      <2> QED BY <2>1, <2>2 DEF Base
  <1> QED BY <1>1, <1>2

LEMMA RequestsKeepBase ==
  ASSUME Base, NEW p \in Prompt, EndRequest(p) \/ \E s \in Session : Ask(p, s)
  PROVE  Base'
  <1> USE DEF shared, history
  <1>1. ASSUME NEW s \in Session, Ask(p, s) PROVE Base'
      <2> DEFINE r == [stored[s] EXCEPT !.messages = Append(@, <<p, "user">>)]
      <2>1. stored[s] \in SessionRecord /\ Len(stored[s].events) <= MaxSessionEvents
          BY <1>1 DEF Ask, Base, TypeOK
      <2>2. r \in SessionRecord /\ Len(r.events) <= MaxSessionEvents
          <3>1. <<p, "user">> \in Message
              BY DEF Message
          <3> QED BY SMTT(30), <2>1, <3>1, SaidStep
      <2>3. copy' = [copy EXCEPT ![p] = r]
          BY <1>1 DEF Ask
      <2> HIDE DEF r
      <2>4. /\ copy' \in [Prompt -> SessionRecord]
            /\ \A q \in Prompt : Len(copy'[q].events) <= MaxSessionEvents
          BY <2>2, <2>3, CopyStep
      <2>5. srv' \in [Prompt -> SrvState] /\ srv' = [srv EXCEPT ![p].at = "save"]
          BY <1>1, SrvSteps DEF Ask
      <2>6. mixed' \subseteq Prompt
          BY <1>1 DEF Ask, Base, TypeOK
      <2>7. of' \in [Prompt -> Session \cup {None}] /\ of' = [of EXCEPT ![p] = s]
          BY SMTT(30), <1>1 DEF Ask, Base, TypeOK
      <2>8. TypeOK'
          BY <1>1, <2>4, <2>5, <2>6, <2>7 DEF Ask, Base, TypeOK, LoopBounded
      <2>9. ASSUME NEW q \in Prompt PROVE Phase(q)'
          <3>1. fwd'[q] = fwd[q] /\ loop'[q] = loop[q]
              BY <1>1 DEF Ask
          <3>3. srv \in [Prompt -> SrvState] /\ of \in [Prompt -> Session \cup {None}]
              BY DEF Base, TypeOK
          <3>4. srv'[q].at = IF q = p THEN "save" ELSE srv[q].at
              BY <2>5, <3>3 DEF SrvState
          <3>5. of'[q] = IF q = p THEN s ELSE of[q]
              BY SMTT(30), <2>7, <3>3
          <3>2. Phase(q) /\ (q = p => srv[q].at = "idle")
              BY <1>1 DEF Ask, Base
          <3> QED BY SMTT(30), <3>1, <3>2, <3>4, <3>5 DEF Phase
      <2> QED BY SMTT(30), <2>8, <2>9 DEF Base
  <1>2. ASSUME EndRequest(p) PROVE Base'
      <2>1. TypeOK'
          BY <1>2 DEF EndRequest, Base, TypeOK, LoopBounded
      <2>2. \A q \in Prompt : Phase(q)'
          BY <1>2 DEF EndRequest, Base, Phase
      <2> QED BY <2>1, <2>2 DEF Base
  <1> QED BY <1>1, <1>2

LEMMA BaseStutter == ASSUME Base, UNCHANGED vars PROVE Base'
  BY DEF Base, TypeOK, Phase, LoopBounded, vars, shared, history

LEMMA BaseStep == Base /\ [Next]_vars => Base'
  <1> SUFFICES ASSUME Base, [Next]_vars PROVE Base'
      OBVIOUS
  <1>1. ASSUME NEW s \in Session, NewSession(s) \/ Cancel(s) PROVE Base'
      BY <1>1, SessionsKeepBase
  <1>2. ASSUME NEW p \in Prompt, EndRequest(p) \/ \E s \in Session : Ask(p, s) PROVE Base'
      BY <1>2, RequestsKeepBase
  <1>3. ASSUME NEW p \in Prompt, Starting(p) \/ Passing(p) PROVE Base'
      BY <1>3, StartingKeepsBase
  <1>4. ASSUME NEW p \in Prompt, Streaming(p) PROVE Base'
      BY <1>4, StreamKeepsBase
  <1>5. ASSUME NEW p \in Prompt, Calling(p) \/ Asking(p) PROVE Base'
      BY <1>5, CallingKeepsBase
  <1>6. ASSUME NEW p \in Prompt, Forwarding(p) PROVE Base'
      BY <1>6, ForwardingKeepsBase
  <1>7. ASSUME NEW p \in Prompt, Answering(p) PROVE Base'
      BY <1>7, AnsweringKeepsBase
  <1>8. CASE UNCHANGED vars
      BY <1>8, BaseStutter
  <1> QED BY <1>1, <1>2, <1>3, <1>4, <1>5, <1>6, <1>7, <1>8 DEF Next

(* AgentRuntime's variables keep their types: no record grows past the     *)
(* newest events, no run past its rounds.                                  *)
THEOREM RuntimeTypes == Spec => []TypeOK
  <1>1. Init => Base
      BY BaseInit
  <1>2. Base /\ [Next]_vars => Base'
      BY BaseStep
  <1>3. Base => TypeOK
      BY DEF Base
  <1> QED BY <1>1, <1>2, <1>3, PTL DEF Spec

-----------------------------------------------------------------------------
(* RunningIsCancellable.  Only Ask brings a prompt to a session, and it    *)
(* marks every prompt it meets there: two prompts that write to one        *)
(* session are both mixed.                                                 *)

MeetingsSeen ==
  \A p, q \in Prompt :
    p # q /\ of[p] = of[q] /\ Writing(p) /\ Writing(q) => p \in mixed /\ q \in mixed

CancelInv == Base /\ MeetingsSeen /\ RunningIsCancellable

Runs(p) == fwd[p].at \notin {"none", "closed"}

\* A step after which a prompt writes, and runs, only if it did before.
Calm ==
  /\ of' = of /\ mixed' = mixed /\ cancels' = cancels
  /\ \A q \in Prompt : (Writing(q)' => Writing(q)) /\ (Runs(q)' => Runs(q))

LEMMA CalmKeeps ==
  ASSUME MeetingsSeen, RunningIsCancellable, Calm
  PROVE  MeetingsSeen' /\ RunningIsCancellable'
  BY DEF MeetingsSeen, RunningIsCancellable, Calm, Runs

LEMMA ElsewhereIsCalm ==
  ASSUME UNCHANGED <<of, mixed, cancels, srv, fwd>> PROVE Calm
  BY DEF Calm, Writing, Runs

LEMMA LoopIsCalm ==
  ASSUME NEW p \in Prompt,
         Streaming(p) \/ Calling(p) \/ Asking(p) \/ BeforeRun(p) \/ OpenStream(p) \/ NextRound(p) \/ Drop(p)
  PROVE  Calm
  <1> USE DEF LoopOnly, shared, history
  <1>1. CASE Streaming(p)
      BY <1>1, ElsewhereIsCalm DEF Streaming, StreamDelta, StreamCall, StreamFails, StreamCancelled, StreamEnd
  <1>2. CASE Calling(p)
      BY <1>2, ElsewhereIsCalm DEF Calling, BeforeTool, Unknown, ExecuteAlways, Execute, RunApproved
  <1>3. CASE Asking(p)
      BY <1>3, ElsewhereIsCalm DEF Asking, HookApproval, Approve
  <1>4. CASE BeforeRun(p) \/ OpenStream(p) \/ NextRound(p) \/ Drop(p)
      BY <1>4, ElsewhereIsCalm DEF BeforeRun, OpenStream, NextRound, Drop
  <1> QED BY <1>1, <1>2, <1>3, <1>4

LEMMA PassingIsCalm ==
  ASSUME Base, NEW p \in Prompt,
         Save(p) \/ Emit(p) \/ Forward(p) \/ Collect(p) \/ Record(p) \/ Finish(p) \/ Answering(p)
  PROVE  Calm
  <1>t. srv \in [Prompt -> SrvState] /\ fwd \in [Prompt -> FwdState] /\ Phase(p)
      BY DEF Base, TypeOK
  <1> USE DEF shared, history, Calm, Writing, Runs, SrvState, FwdState
  <1>1. CASE Save(p)
      BY <1>1, <1>t DEF Save
  <1>2. CASE Emit(p)
      BY <1>2, <1>t DEF Emit
  <1>3. CASE Forward(p)
      BY <1>3, <1>t DEF Forward
  <1>4. CASE Collect(p)
      BY <1>4, <1>t DEF Collect
  <1>5. CASE Record(p)
      BY <1>5, <1>t DEF Record
  <1>6. CASE Finish(p)
      BY <1>6, <1>t DEF Finish, LoopEnded
  <1>7. CASE Update(p)
      BY <1>7, <1>t DEF Update
  <1>8. CASE UpdateFails(p)
      BY <1>8, <1>t DEF UpdateFails
  <1>9. CASE Printed(p)
      BY <1>9, <1>t DEF Printed
  <1>10. CASE Answer(p)
      BY <1>10, <1>t DEF Answer
  <1> QED BY <1>1, <1>2, <1>3, <1>4, <1>5, <1>6, <1>7, <1>8, <1>9, <1>10 DEF Answering

LEMMA CancelStep == CancelInv /\ [Next]_vars => CancelInv'
  <1> SUFFICES ASSUME CancelInv, [Next]_vars PROVE MeetingsSeen' /\ RunningIsCancellable'
      BY BaseStep DEF CancelInv
  <1>t. /\ Base /\ MeetingsSeen /\ RunningIsCancellable
        /\ srv \in [Prompt -> SrvState] /\ fwd \in [Prompt -> FwdState]
        /\ of \in [Prompt -> Session \cup {None}] /\ cancels \in [Session -> Prompt \cup {None}]
        /\ mixed \subseteq Prompt
        /\ \A p \in Prompt : Phase(p)
      BY DEF CancelInv, Base, TypeOK
  <1> DEFINE Goal == MeetingsSeen' /\ RunningIsCancellable'
  <1>1. ASSUME NEW p \in Prompt, NEW s \in Session, Ask(p, s) PROVE Goal
      <2>1. /\ of' = [of EXCEPT ![p] = s] /\ fwd' = fwd /\ cancels' = cancels
            /\ srv[p].at = "idle" /\ fwd[p].at = "none"
            /\ \A q \in Prompt \ {p} : srv'[q] = srv[q]
            /\ mixed \subseteq mixed'
            /\ \A q \in Prompt : of[q] = s /\ Writing(q) => q \in mixed' /\ p \in mixed'
          BY <1>1, <1>t DEF Ask, Phase, shared
      <2>2. \A q \in Prompt \ {p} : of'[q] = of[q] /\ (Writing(q)' = Writing(q))
          BY <1>t, <2>1 DEF Writing
      <2>3. of'[p] = s
          BY <1>t, <2>1
      <2>4. MeetingsSeen'
          <3> SUFFICES ASSUME NEW a \in Prompt, NEW b \in Prompt, a # b, of'[a] = of'[b],
                              Writing(a)', Writing(b)'
                       PROVE  a \in mixed' /\ b \in mixed'
              BY DEF MeetingsSeen
          <3>1. CASE a # p /\ b # p
              BY <1>t, <2>1, <2>2, <3>1 DEF MeetingsSeen
          <3>2. CASE a = p
              BY <2>1, <2>2, <2>3, <3>2
          <3>3. CASE b = p
              BY <2>1, <2>2, <2>3, <3>3
          <3> QED BY <3>1, <3>2, <3>3
      <2>5. RunningIsCancellable'
          BY <1>t, <2>1, <2>2 DEF RunningIsCancellable
      <2> QED BY <2>4, <2>5
  <1>2. ASSUME NEW p \in Prompt, Register(p) PROVE Goal
      <2>1. /\ of' = of /\ mixed' = mixed /\ cancels' = [cancels EXCEPT ![of[p]] = p] /\ of[p] \in Session
            /\ Writing(p)
            /\ \A q \in Prompt \ {p} : fwd'[q] = fwd[q] /\ srv'[q] = srv[q]
          BY <1>2, <1>t DEF Register, Phase, Writing, history
      <2>2. \A q \in Prompt : Writing(q)' => Writing(q)
          BY <2>1 DEF Writing
      <2>3. MeetingsSeen'
          BY <1>t, <2>1, <2>2 DEF MeetingsSeen
      <2>4. \A q \in Prompt \ {p} : Runs(q)' => Runs(q) /\ Writing(q)
          BY <2>1 DEF Runs, Writing
      <2>5. RunningIsCancellable'
          BY <1>t, <2>1, <2>4 DEF RunningIsCancellable, Runs, MeetingsSeen
      <2> QED BY <2>3, <2>5
  <1>3. ASSUME NEW p \in Prompt, Release(p) PROVE Goal
      <2>1. /\ of' = of /\ mixed' = mixed /\ cancels' = [cancels EXCEPT ![of[p]] = None] /\ of[p] \in Session
            /\ Writing(p) /\ srv' = srv /\ ~Runs(p)'
            /\ \A q \in Prompt \ {p} : fwd'[q] = fwd[q]
          BY <1>3, <1>t DEF Release, Phase, Writing, Runs, history, FwdState
      <2>2. \A q \in Prompt : Writing(q)' => Writing(q)
          BY <2>1 DEF Writing
      <2>3. MeetingsSeen'
          BY <1>t, <2>1, <2>2 DEF MeetingsSeen
      <2>4. \A q \in Prompt \ {p} : Runs(q)' => Runs(q) /\ Writing(q)
          BY <2>1 DEF Runs, Writing
      <2>5. RunningIsCancellable'
          BY <1>t, <2>1, <2>4 DEF RunningIsCancellable, Runs, MeetingsSeen
      <2> QED BY <2>3, <2>5
  <1>4. ASSUME NEW p \in Prompt,
               \/ Streaming(p) \/ Calling(p) \/ Asking(p) \/ BeforeRun(p) \/ OpenStream(p) \/ NextRound(p)
               \/ Drop(p)
        PROVE  Goal
      BY <1>t, <1>4, LoopIsCalm, CalmKeeps
  <1>5. ASSUME NEW p \in Prompt,
               \/ Save(p) \/ Emit(p) \/ Forward(p) \/ Collect(p) \/ Record(p) \/ Finish(p)
               \/ Answering(p)
        PROVE  Goal
      BY <1>t, <1>5, PassingIsCalm, CalmKeeps
  <1>6. ASSUME UNCHANGED vars \/ (\E s \in Session : NewSession(s) \/ Cancel(s)) \/ \E p \in Prompt : EndRequest(p)
        PROVE  Goal
      BY <1>t, <1>6, ElsewhereIsCalm, CalmKeeps DEF vars, NewSession, Cancel, EndRequest, shared, history
  <1> QED BY <1>1, <1>2, <1>3, <1>4, <1>5, <1>6 DEF Next, Starting, Passing, Forwarding

(* While a prompt that shares its session with no other runs, whatever     *)
(* other sessions do, cancelling the session reaches it.                   *)
THEOREM RunsAreCancellable == Spec => []RunningIsCancellable
  <1>1. Init => CancelInv
      <2> SUFFICES ASSUME Init PROVE MeetingsSeen /\ RunningIsCancellable
          BY BaseInit DEF CancelInv
      <2>1. \A p \in Prompt : ~Writing(p) /\ ~Runs(p)
          BY DEF Init, Writing, Runs
      <2> QED BY <2>1 DEF MeetingsSeen, RunningIsCancellable, Runs
  <1>2. CancelInv /\ [Next]_vars => CancelInv'
      BY CancelStep
  <1>3. CancelInv => RunningIsCancellable
      BY DEF CancelInv
  <1> QED BY <1>1, <1>2, <1>3, PTL DEF Spec

-----------------------------------------------------------------------------
(* ApprovedBeforeRun.  What the loop remembers, and what it is about to    *)
(* run, is in the history of what the user granted.                        *)

GrantOf(p) == [prompt |-> p, n |-> loop[p].used, call |-> Current(p), scope |-> loop[p].grant]

GrantsKept ==
  /\ \A c \in approved : \E g \in granted : g.scope = "always" /\ g.call = c
  /\ \A p \in Prompt : loop[p].at = "approved" => GrantOf(p) \in granted

GrantInv == Base /\ GrantsKept /\ ApprovedBeforeRun

\* A step after which a loop is about to run a call only if it was before.
Ungranted ==
  /\ approved' = approved /\ granted' = granted /\ ran' = ran
  /\ \A q \in Prompt : loop'[q].at = "approved" =>
       /\ loop[q].at = "approved" /\ loop'[q].todo = loop[q].todo
       /\ loop'[q].used = loop[q].used /\ loop'[q].grant = loop[q].grant

LEMMA UngrantedKeeps ==
  ASSUME GrantsKept, ApprovedBeforeRun, Ungranted
  PROVE  GrantsKept' /\ ApprovedBeforeRun'
  BY DEF GrantsKept, ApprovedBeforeRun, Ungranted, GrantOf, Current

\* The steps that leave the loops as they are, and those of one loop that
\* lead to no approved call.
LEMMA StillUngranted ==
  ASSUME UNCHANGED <<approved, granted, ran, loop>> PROVE Ungranted
  BY DEF Ungranted

LEMMA AtUngranted ==
  ASSUME NEW p \in Prompt, loop'[p].at # "approved", \A q \in Prompt \ {p} : loop'[q] = loop[q],
         approved' = approved, granted' = granted, ran' = ran
  PROVE  Ungranted
  BY DEF Ungranted

LEMMA GoUngranted ==
  ASSUME Base, NEW p \in Prompt, NEW at, NEW events, at # "approved", Go(p, at, events)
  PROVE  loop'[p].at # "approved" /\ \A q \in Prompt \ {p} : loop'[q] = loop[q]
  <1>1. loop \in [Prompt -> LoopState]
      BY DEF Base, TypeOK
  <1> QED BY <1>1 DEF Go, LoopState

LEMMA DoneUngranted ==
  ASSUME Base, NEW p \in Prompt, NEW events, Done(p, events)
  PROVE  loop'[p].at # "approved" /\ \A q \in Prompt \ {p} : loop'[q] = loop[q]
  <1>1. loop \in [Prompt -> LoopState]
      BY DEF Base, TypeOK
  <1> QED BY <1>1 DEF Done, LoopState

LEMMA LoopUngranted ==
  ASSUME Base, NEW p \in Prompt,
         \/ Streaming(p) \/ BeforeTool(p) \/ Unknown(p) \/ Execute(p) \/ HookApproval(p)
         \/ BeforeRun(p) \/ OpenStream(p) \/ NextRound(p) \/ Drop(p) \/ Emit(p) \/ Register(p)
  PROVE  Ungranted
  <1>t. loop \in [Prompt -> LoopState]
      BY DEF Base, TypeOK
  <1> USE DEF LoopOnly, shared, history, At
  <1>1. CASE StreamDelta(p) \/ \E c \in Calls : StreamCall(p, c)
      <2>1. CASE StreamDelta(p)
          BY <2>1, <1>t, AtUngranted DEF StreamDelta, LoopState
      <2>2. ASSUME NEW c \in Calls, StreamCall(p, c) PROVE Ungranted
          BY <2>2, <1>t, AtUngranted DEF StreamCall, LoopState
      <2> QED BY <1>1, <2>1, <2>2
  <1>2. CASE StreamFails(p) \/ StreamCancelled(p) \/ StreamEnd(p)
      BY <1>2, GoUngranted, AtUngranted DEF StreamFails, StreamCancelled, StreamEnd
  <1>3. ASSUME BeforeTool(p) PROVE Ungranted
      <2>1. CASE \E c \in Calls :
                   loop' = [loop EXCEPT ![p].at = "execute", ![p].out = <<"call">>, ![p].todo[1] = c]
          <3>1. loop'[p].at # "approved" /\ \A q \in Prompt \ {p} : loop'[q] = loop[q]
              BY <2>1, <1>t DEF LoopState
          <3> QED BY <1>3, <3>1, AtUngranted DEF BeforeTool
      <2>2. CASE Go(p, "execute", <<"call">>) \/ Go(p, "hookask", <<"request">>)
          BY <1>3, <2>2, GoUngranted, AtUngranted DEF BeforeTool
      <2>3. CASE Done(p, <<"result">>)
          BY <1>3, <2>3, DoneUngranted, AtUngranted DEF BeforeTool
      <2> QED BY <1>3, <2>1, <2>2, <2>3 DEF BeforeTool
  <1>4. CASE Unknown(p) \/ Execute(p) \/ HookApproval(p)
      <2>1. CASE Unknown(p)
          BY <2>1, DoneUngranted, AtUngranted DEF Unknown
      <2>2. CASE Execute(p)
          BY <2>2, GoUngranted, DoneUngranted, AtUngranted DEF Execute
      <2>3. CASE HookApproval(p)
          BY <2>3, GoUngranted, DoneUngranted, AtUngranted DEF HookApproval
      <2> QED BY <1>4, <2>1, <2>2, <2>3
  <1>5. CASE BeforeRun(p) \/ OpenStream(p)
      BY <1>5, GoUngranted, AtUngranted DEF BeforeRun, OpenStream
  <1>6. CASE NextRound(p) \/ Register(p)
      <2>1. /\ loop'[p].at \in {"open", "before"} /\ \A q \in Prompt \ {p} : loop'[q] = loop[q]
            /\ approved' = approved /\ granted' = granted /\ ran' = ran
        <3>1. CASE NextRound(p)
            BY <3>1, <1>t DEF NextRound, LoopState
        <3>2. CASE Register(p)
            BY <3>2, <1>t DEF Register, LoopState
        <3> QED BY <1>6, <3>1, <3>2
      <2> QED BY <2>1, AtUngranted
  <1>7. CASE Drop(p) \/ Emit(p)
      <2>1. /\ loop' = [loop EXCEPT ![p].out = Tail(@)]
            /\ approved' = approved /\ granted' = granted /\ ran' = ran
          BY <1>7 DEF Drop, Emit
      <2>2. /\ \A q \in Prompt \ {p} : loop'[q] = loop[q]
            /\ loop'[p].at = loop[p].at /\ loop'[p].todo = loop[p].todo
            /\ loop'[p].used = loop[p].used /\ loop'[p].grant = loop[p].grant
          BY <1>t, <2>1 DEF LoopState
      <2> QED BY <2>1, <2>2 DEF Ungranted
  <1> QED BY <1>1, <1>2, <1>3, <1>4, <1>5, <1>6, <1>7 DEF Streaming

LEMMA RestUngranted ==
  ASSUME \/ \E s \in Session : NewSession(s) \/ Cancel(s) \/ \E p \in Prompt : Ask(p, s)
         \/ \E p \in Prompt : Save(p) \/ Forwarding(p) \/ Answering(p) \/ EndRequest(p)
         \/ UNCHANGED vars
  PROVE  Ungranted
  <1> USE DEF shared, history
  <1>1. CASE \E s \in Session : NewSession(s) \/ Cancel(s) \/ \E p \in Prompt : Ask(p, s)
      BY <1>1, StillUngranted DEF NewSession, Cancel, Ask
  <1>2. CASE \E p \in Prompt : Save(p) \/ EndRequest(p)
      BY <1>2, StillUngranted DEF Save, EndRequest
  <1>3. CASE \E p \in Prompt : Forwarding(p)
      BY <1>3, StillUngranted DEF Forwarding, Forward, Collect, Record, Finish, Release
  <1>4. CASE \E p \in Prompt : Answering(p)
      BY <1>4, StillUngranted DEF Answering, Update, UpdateFails, Printed, Answer
  <1>5. CASE UNCHANGED vars
      BY <1>5, StillUngranted DEF vars
  <1> QED BY <1>1, <1>2, <1>3, <1>4, <1>5

LEMMA GrantStep == GrantInv /\ [Next]_vars => GrantInv'
  <1> SUFFICES ASSUME GrantInv, [Next]_vars PROVE GrantsKept' /\ ApprovedBeforeRun'
      BY BaseStep DEF GrantInv
  <1>t. Base /\ GrantsKept /\ ApprovedBeforeRun /\ loop \in [Prompt -> LoopState]
      BY DEF GrantInv, Base, TypeOK
  <1> DEFINE Goal == GrantsKept' /\ ApprovedBeforeRun'
  <1>1. ASSUME NEW p \in Prompt, ExecuteAlways(p) PROVE Goal
      <2> DEFINE r == [prompt |-> p, n |-> loop[p].used, call |-> Current(p), scope |-> "always"]
      <2>1. Current(p) \in approved /\ ran' = ran \cup {r} /\ approved' = approved /\ granted' = granted
          BY <1>1 DEF ExecuteAlways, Always, shared
      <2>2. \A q \in Prompt : loop'[q].at = "approved" => loop'[q] = loop[q]
          BY <1>1, <1>t DEF ExecuteAlways, Done, LoopState
      <2>3. GrantsKept'
          BY <1>t, <2>1, <2>2 DEF GrantsKept, GrantOf, Current
      <2>4. \E g \in granted : g.scope = "always" /\ g.call = r.call
          BY <1>t, <2>1 DEF GrantsKept
      <2>5. r.scope = "always"
          OBVIOUS
      <2> HIDE DEF r
      <2> QED BY <1>t, <2>1, <2>3, <2>4, <2>5 DEF ApprovedBeforeRun
  <1>2. ASSUME NEW p \in Prompt, Approve(p) PROVE Goal
      <2>1. /\ granted \subseteq granted' /\ approved' = approved /\ ran' = ran
            /\ \A q \in Prompt \ {p} : loop'[q] = loop[q]
          BY <1>2, <1>t DEF Approve, Done, shared
      <2>2. loop'[p].at = "approved" => GrantOf(p)' \in granted'
          BY <1>2, <1>t DEF Approve, Done, LoopState, GrantOf, Current
      <2>3. GrantsKept'
          BY <1>t, <2>1, <2>2 DEF GrantsKept, GrantOf, Current
      <2> QED BY <1>t, <2>1, <2>3 DEF ApprovedBeforeRun
  <1>3. ASSUME NEW p \in Prompt, RunApproved(p) PROVE Goal
      <2>1. /\ ran' = ran \cup {GrantOf(p)} /\ granted' = granted /\ GrantOf(p) \in granted
            /\ approved' = approved \/ (GrantOf(p).scope = "always" /\ approved' = approved \cup {GrantOf(p).call})
          BY <1>3, <1>t DEF RunApproved, At, GrantsKept, GrantOf
      <2>2. \A q \in Prompt : loop'[q].at = "approved" => loop'[q] = loop[q]
          BY <1>3, <1>t DEF RunApproved, Done, LoopState
      <2>3. GrantsKept'
          BY <1>t, <2>1, <2>2 DEF GrantsKept, GrantOf, Current
      <2>4. ApprovedBeforeRun'
          BY <1>t, <2>1 DEF ApprovedBeforeRun
      <2> QED BY <2>3, <2>4
  <1>4. ASSUME NEW p \in Prompt,
               \/ Streaming(p) \/ BeforeTool(p) \/ Unknown(p) \/ Execute(p) \/ HookApproval(p)
               \/ BeforeRun(p) \/ OpenStream(p) \/ NextRound(p) \/ Drop(p) \/ Emit(p) \/ Register(p)
        PROVE  Goal
      BY <1>t, <1>4, LoopUngranted, UngrantedKeeps
  <1>5. ASSUME \/ \E s \in Session : NewSession(s) \/ Cancel(s) \/ \E p \in Prompt : Ask(p, s)
               \/ \E p \in Prompt : Save(p) \/ Forwarding(p) \/ Answering(p) \/ EndRequest(p)
               \/ UNCHANGED vars
        PROVE  Goal
      BY <1>t, <1>5, RestUngranted, UngrantedKeeps
  <1> QED BY <1>1, <1>2, <1>3, <1>4, <1>5 DEF Next, Starting, Passing, Calling, Asking

(* No guarded tool runs that the user did not allow: for that call, or for *)
(* always.                                                                 *)
THEOREM GuardedToolsAreApproved == Spec => []ApprovedBeforeRun
  <1>1. Init => GrantInv
      BY BaseInit DEF Init, GrantInv, GrantsKept, ApprovedBeforeRun
  <1>2. GrantInv /\ [Next]_vars => GrantInv'
      BY GrantStep
  <1>3. GrantInv => ApprovedBeforeRun
      BY DEF GrantInv
  <1> QED BY <1>1, <1>2, <1>3, PTL DEF Spec

-----------------------------------------------------------------------------
(* AnswerIsEarned.  A run emits one terminal event, as its last; it is in  *)
(* the loop's hands, then in the forwarder's, then heard, or it was        *)
(* dropped, which takes a run whose context has ended.                     *)

Working == Event \ Terminal

Reported(p) ==
  /\ loop[p].at # "end" => heard[p] = "none" /\ fwd[p].event \notin Terminal /\ loop[p].out \in Seq(Working)
  /\ loop[p].at = "end" =>
       \/ loop[p].out = <<>> /\ (RunLive(p) => fwd[p].event \in Terminal)
       \/ \E e \in Terminal : loop[p].out = <<e>> /\ fwd[p].event \notin Terminal
  /\ fwd[p].event \in Terminal => heard[p] = IF fwd[p].at = "send" THEN "none" ELSE fwd[p].event
  /\ fwd[p].event \notin Terminal => heard[p] = "none"
  /\ fwd[p].at \in {"release", "closed"} => loop[p].at = "end" /\ loop[p].out = <<>>

Stopped(p) ==
  /\ srv[p].at = "read" => srv[p].stop = StopReason(heard[p], "end_turn")
  /\ srv[p].at = "got" => /\ srv[p].stop = "end_turn"
                          /\ heard[p] = IF srv[p].event \in Terminal THEN srv[p].event ELSE "none"

Earned(p) ==
  Answered(p) =>
    /\ fwd[p].at = "closed" /\ srv[p].answer \in {"end_turn", "refusal", "cancelled"}
    /\ srv[p].answer = "end_turn" => heard[p] = "completed" \/ (p \in stopped /\ heard[p] = "none")
    /\ srv[p].answer = "refusal" => heard[p] = "failed"
    /\ srv[p].answer = "cancelled" => heard[p] = "cancelled" \/ p \in lost

Reports == \A p \in Prompt : Reported(p) /\ (setup.acp => Stopped(p) /\ Earned(p))
AnswerInv == Base /\ Reports

\* A step of a loop: before its end it emits none of the terminal events, at
\* its end just one.
LoopEmits(p) ==
  /\ loop[p].at # "end" /\ \A q \in Prompt \ {p} : loop'[q] = loop[q]
  /\ \/ loop'[p].at # "end" /\ loop'[p].out \in Seq(Working)
     \/ loop'[p].at = "end" /\ \E e \in Terminal : loop'[p].out = <<e>>

LEMMA LoopEmitsReports ==
  ASSUME Reports, NEW p \in Prompt, LoopEmits(p),
         UNCHANGED <<setup, lost, stopped, srv, fwd, heard>>
  PROVE  Reports'
  BY DEF Reports, Reported, Stopped, Earned, Answered, LoopEmits, RunLive

LEMMA WorkingEvents ==
  /\ <<"started">> \in Seq(Working) /\ <<"delta">> \in Seq(Working) /\ <<"call">> \in Seq(Working)
  /\ <<"result">> \in Seq(Working) /\ <<"request">> \in Seq(Working) /\ <<"decided">> \in Seq(Working)
  /\ <<>> \in Seq(Working) /\ <<"decided", "result">> \in Seq(Working)
  BY DEF Working, Event, Terminal

LEMMA GoEmits ==
  ASSUME Base, NEW p \in Prompt, NEW at, NEW events, Go(p, at, events), loop[p].at # "end",
         \/ at # "end" /\ events \in Seq(Working)
         \/ at = "end" /\ \E e \in Terminal : events = <<e>>
  PROVE  LoopEmits(p)
  <1>1. loop \in [Prompt -> LoopState]
      BY DEF Base, TypeOK
  <1>2. /\ loop'[p].at = at /\ loop'[p].out = events
        /\ \A q \in Prompt \ {p} : loop'[q] = loop[q]
      BY <1>1 DEF Go, LoopState
  <1> QED BY <1>2 DEF LoopEmits

LEMMA DoneEmits ==
  ASSUME Base, NEW p \in Prompt, NEW events \in Seq(Working), Done(p, events), loop[p].at # "end"
  PROVE  LoopEmits(p)
  <1>1. loop \in [Prompt -> LoopState]
      BY DEF Base, TypeOK
  <1>2. /\ loop'[p].at = "tools" /\ loop'[p].out = events
        /\ \A q \in Prompt \ {p} : loop'[q] = loop[q]
      BY <1>1 DEF Done, LoopState
  <1> QED BY <1>2 DEF LoopEmits

LEMMA LoopReports ==
  ASSUME Base, Reports, NEW p \in Prompt,
         Streaming(p) \/ Calling(p) \/ Asking(p) \/ BeforeRun(p) \/ OpenStream(p) \/ NextRound(p)
  PROVE  Reports'
  <1> USE DEF LoopOnly, shared, history, At
  <1>t. /\ loop \in [Prompt -> LoopState]
        /\ "completed" \in Terminal /\ "failed" \in Terminal /\ "cancelled" \in Terminal
      BY DEF Base, TypeOK, Terminal
  <1>0. UNCHANGED <<setup, lost, stopped, srv, fwd, heard>>
      BY DEF Streaming, StreamDelta, StreamCall, StreamFails, StreamCancelled, StreamEnd,
             Calling, BeforeTool, Unknown, ExecuteAlways, Execute, RunApproved,
             Asking, HookApproval, Approve, BeforeRun, OpenStream, NextRound
  <1>1. ASSUME StreamDelta(p) PROVE LoopEmits(p)
      <2>1. loop[p].at = "stream" /\ loop'[p].at = "stream" /\ loop'[p].out = <<"delta">>
            /\ \A q \in Prompt \ {p} : loop'[q] = loop[q]
          BY <1>1, <1>t DEF StreamDelta, LoopState
      <2> QED BY <2>1, WorkingEvents DEF LoopEmits
  <1>2. ASSUME NEW c \in Calls, StreamCall(p, c) PROVE LoopEmits(p)
      <2>1. loop[p].at = "stream" /\ loop'[p].at = "stream" /\ loop'[p].out = <<>>
            /\ \A q \in Prompt \ {p} : loop'[q] = loop[q]
          BY <1>2, <1>t DEF StreamCall, LoopState
      <2> QED BY <2>1, WorkingEvents DEF LoopEmits
  <1>3. ASSUME StreamFails(p) \/ StreamCancelled(p) \/ StreamEnd(p) PROVE LoopEmits(p)
      BY <1>3, <1>t, GoEmits, WorkingEvents DEF StreamFails, StreamCancelled, StreamEnd
  <1>4. ASSUME BeforeTool(p) PROVE LoopEmits(p)
      <2>1. CASE \E c \in Calls :
                   loop' = [loop EXCEPT ![p].at = "execute", ![p].out = <<"call">>, ![p].todo[1] = c]
          <3>1. loop[p].at = "tools"
              BY <1>4 DEF BeforeTool
          <3>2. loop'[p].at = "execute" /\ loop'[p].out = <<"call">>
                /\ \A q \in Prompt \ {p} : loop'[q] = loop[q]
              BY <2>1, <1>t DEF LoopState
          <3> QED BY <3>1, <3>2, WorkingEvents DEF LoopEmits
      <2> QED BY <1>4, <2>1, GoEmits, DoneEmits, WorkingEvents DEF BeforeTool
  <1>5. ASSUME Unknown(p) \/ ExecuteAlways(p) \/ Execute(p) \/ RunApproved(p) \/ HookApproval(p)
        PROVE  LoopEmits(p)
      BY <1>5, GoEmits, DoneEmits, WorkingEvents DEF Unknown, ExecuteAlways, Execute, RunApproved, HookApproval
  <1>6. ASSUME Approve(p) PROVE LoopEmits(p)
      <2>1. CASE \E scope \in {"once", "always"} :
                   loop' = [loop EXCEPT ![p].at = "approved", ![p].out = <<"decided">>, ![p].grant = scope]
          <3>1. loop[p].at = "ask" /\ loop'[p].at = "approved" /\ loop'[p].out = <<"decided">>
                /\ \A q \in Prompt \ {p} : loop'[q] = loop[q]
              BY <1>6, <2>1, <1>t DEF Approve, LoopState
          <3> QED BY <3>1, WorkingEvents DEF LoopEmits
      <2> QED BY <1>6, <2>1, DoneEmits, WorkingEvents DEF Approve
  <1>7. ASSUME BeforeRun(p) \/ OpenStream(p) PROVE LoopEmits(p)
      BY <1>7, <1>t, GoEmits, WorkingEvents DEF BeforeRun, OpenStream
  <1>8. ASSUME NextRound(p) PROVE LoopEmits(p)
      <2>1. loop[p].at = "tools" /\ loop'[p].at = "open" /\ loop'[p].out = <<>>
            /\ \A q \in Prompt \ {p} : loop'[q] = loop[q]
          BY <1>8, <1>t DEF NextRound, LoopState
      <2> QED BY <2>1, WorkingEvents DEF LoopEmits
  <1> QED BY <1>0, <1>1, <1>2, <1>3, <1>4, <1>5, <1>6, <1>7, <1>8, LoopEmitsReports
          DEF Streaming, Calling, Asking

\* Steps that leave a run's report where it is.
LEMMA ElsewhereReports ==
  ASSUME Reports, UNCHANGED <<setup, srv, fwd, loop, heard>>, lost \subseteq lost', stopped \subseteq stopped'
  PROVE  Reports'
  BY DEF Reports, Reported, Stopped, Earned, Answered, RunLive

\* Steps of one prompt's goroutines: the others' reports stay.
LEMMA OnePrompt ==
  ASSUME Reports, NEW p \in Prompt, UNCHANGED <<setup, lost, stopped>>,
         \A q \in Prompt \ {p} : srv'[q] = srv[q] /\ fwd'[q] = fwd[q] /\ loop'[q] = loop[q] /\ heard'[q] = heard[q],
         Reported(p)', setup.acp => Stopped(p)' /\ Earned(p)'
  PROVE  Reports'
  BY DEF Reports, Reported, Stopped, Earned, Answered, RunLive

LEMMA ReportStep == AnswerInv /\ [Next]_vars => AnswerInv'
  <1> SUFFICES ASSUME AnswerInv, [Next]_vars PROVE Reports'
      BY BaseStep DEF AnswerInv
  <1>t. /\ Base /\ Reports
        /\ srv \in [Prompt -> SrvState] /\ fwd \in [Prompt -> FwdState] /\ loop \in [Prompt -> LoopState]
        /\ heard \in [Prompt -> Terminal \cup {"none"}]
        /\ \A p \in Prompt : Phase(p)
      BY DEF AnswerInv, Base, TypeOK
  <1>r. \A p \in Prompt : Reported(p) /\ (setup.acp => Stopped(p) /\ Earned(p))
      BY <1>t DEF Reports
  <1> USE DEF shared, history
  <1>1. ASSUME NEW p \in Prompt,
               Streaming(p) \/ Calling(p) \/ Asking(p) \/ BeforeRun(p) \/ OpenStream(p) \/ NextRound(p)
        PROVE  Reports'
      BY <1>t, <1>1, LoopReports
  <1>2. ASSUME \/ UNCHANGED vars \/ \E s \in Session : NewSession(s) \/ Cancel(s)
               \/ \E p \in Prompt : EndRequest(p)
        PROVE  Reports'
      BY <1>t, <1>2, ElsewhereReports DEF vars, NewSession, Cancel, EndRequest
  <1>3. ASSUME NEW p \in Prompt, (\E s \in Session : Ask(p, s)) \/ Save(p) PROVE Reports'
      <2>1. UNCHANGED <<setup, lost, stopped, fwd, loop, heard>> /\ \A q \in Prompt \ {p} : srv'[q] = srv[q]
          BY <1>3, <1>t DEF Ask, Save
      <2>2. srv'[p].at \in {"save", "register"} \/ (srv'[p].at = "answered" /\ srv'[p].answer = "error")
          BY <1>3, <1>t DEF Ask, Save, SrvState
      <2> QED BY <1>r, <1>t, <2>1, <2>2, OnePrompt DEF Reported, Stopped, Earned, Answered, RunLive
  <1>4. ASSUME NEW p \in Prompt, Register(p) PROVE Reports'
      <2>1. /\ UNCHANGED <<setup, lost, stopped, heard>>
            /\ \A q \in Prompt \ {p} : srv'[q] = srv[q] /\ fwd'[q] = fwd[q] /\ loop'[q] = loop[q]
            /\ srv'[p].at = "read" /\ srv'[p].stop = "end_turn"
            /\ fwd'[p].at = "take" /\ fwd'[p].event = fwd[p].event
            /\ loop'[p].at = "before" /\ loop'[p].out = loop[p].out /\ loop[p].at = "none"
          BY <1>4, <1>t DEF Register, SrvState, FwdState, LoopState, Phase
      <2>2. Reported(p)'
          BY <1>r, <2>1 DEF Reported
      <2>3. Stopped(p)' /\ Earned(p)'
          BY <1>r, <2>1 DEF Reported, Stopped, Earned, Answered, StopReason
      <2> QED BY <1>t, <2>1, <2>2, <2>3, OnePrompt
  <1>5. ASSUME NEW p \in Prompt, Drop(p) PROVE Reports'
      <2>1. /\ UNCHANGED <<setup, lost, stopped, heard, srv, fwd>> /\ ~RunLive(p) /\ loop[p].out # <<>>
            /\ \A q \in Prompt \ {p} : loop'[q] = loop[q]
            /\ loop'[p].at = loop[p].at /\ loop'[p].out = Tail(loop[p].out)
          BY <1>5, <1>t DEF Drop, LoopState
      <2>2. Reported(p)'
          <3>1. CASE loop[p].at # "end"
              <4>1. loop[p].out \in Seq(Working)
                  BY <1>r, <3>1 DEF Reported
              <4>2. Tail(loop[p].out) \in Seq(Working)
                  BY <2>1, <4>1
              <4> QED BY <1>r, <2>1, <3>1, <4>2 DEF Reported
          <3>2. CASE loop[p].at = "end"
              <4>1. PICK e \in Terminal : loop[p].out = <<e>>
                  BY <1>r, <2>1, <3>2 DEF Reported
              <4>2. Tail(loop[p].out) = <<>>
                  BY <4>1
              <4> QED BY <1>r, <2>1, <3>2, <4>2 DEF Reported, RunLive
          <3> QED BY <3>1, <3>2
      <2>3. setup.acp => Stopped(p)' /\ Earned(p)'
          BY <1>r, <2>1 DEF Stopped, Earned, Answered
      <2> QED BY <1>t, <2>1, <2>2, <2>3, OnePrompt
  <1>6. ASSUME NEW p \in Prompt, Emit(p) PROVE Reports'
      <2>1. /\ UNCHANGED <<setup, lost, stopped, heard, srv>> /\ loop[p].out # <<>>
            /\ fwd[p].at = "take" /\ fwd'[p].at = "send" /\ fwd'[p].event = Head(loop[p].out)
            /\ \A q \in Prompt \ {p} : loop'[q] = loop[q] /\ fwd'[q] = fwd[q]
            /\ loop'[p].at = loop[p].at /\ loop'[p].out = Tail(loop[p].out)
          BY <1>6, <1>t DEF Emit, LoopState, FwdState
      <2>2. CASE loop[p].at # "end"
          <3>1. /\ heard[p] = "none" /\ loop[p].out \in Seq(Working)
              BY <1>r, <2>2 DEF Reported
          <3>2. Head(loop[p].out) \notin Terminal /\ Tail(loop[p].out) \in Seq(Working)
              BY <2>1, <3>1 DEF Working
          <3>3. Reported(p)'
              BY <2>1, <2>2, <3>1, <3>2 DEF Reported
          <3> QED BY <1>r, <1>t, <2>1, <3>3, OnePrompt DEF Stopped, Earned, Answered
      <2>3. CASE loop[p].at = "end"
          <3>1. PICK e \in Terminal : loop[p].out = <<e>> /\ fwd[p].event \notin Terminal
              BY <1>r, <2>1, <2>3 DEF Reported
          <3>2. Head(loop[p].out) = e /\ Tail(loop[p].out) = <<>> /\ heard[p] = "none"
              BY <1>r, <3>1 DEF Reported
          <3>3. Reported(p)'
              BY <2>1, <2>3, <3>1, <3>2 DEF Reported
          <3> QED BY <1>r, <1>t, <2>1, <3>3, OnePrompt DEF Stopped, Earned, Answered
      <2> QED BY <2>2, <2>3
  <1>7. ASSUME NEW p \in Prompt, Forward(p) PROVE Reports'
      <2>1. /\ UNCHANGED <<setup, lost, stopped, loop>>
            /\ \A q \in Prompt \ {p} : srv'[q] = srv[q] /\ fwd'[q] = fwd[q] /\ heard'[q] = heard[q]
            /\ fwd[p].at = "send" /\ fwd'[p].at = "record" /\ fwd'[p].event = fwd[p].event
            /\ srv[p].at = "read" /\ srv'[p].at = "got" /\ srv'[p].event = fwd[p].event /\ srv'[p].stop = srv[p].stop
            /\ heard'[p] = IF fwd[p].event \in Terminal THEN fwd[p].event ELSE heard[p]
          BY <1>7, <1>t DEF Forward, SrvState, FwdState
      <2>2. heard[p] = "none"
          BY <1>r, <2>1 DEF Reported
      <2>3. Reported(p)'
          BY <1>r, <2>1, <2>2 DEF Reported, RunLive
      <2>4. setup.acp => Stopped(p)' /\ Earned(p)'
          BY <1>r, <2>1, <2>2 DEF Stopped, Earned, Answered, StopReason
      <2> QED BY <1>t, <2>1, <2>3, <2>4, OnePrompt
  <1>8. ASSUME NEW p \in Prompt, Collect(p) \/ Record(p) \/ Finish(p) \/ Release(p) PROVE Reports'
      <2>1. /\ UNCHANGED <<setup, lost, stopped, loop, srv, heard>>
            /\ \A q \in Prompt \ {p} : fwd'[q] = fwd[q]
            /\ fwd[p].at \notin {"send", "none", "closed"} /\ fwd'[p].at # "send" /\ fwd'[p].event = fwd[p].event
            /\ fwd'[p].at \in {"release", "closed"} =>
                 fwd[p].at = "release" \/ (loop[p].at = "end" /\ loop[p].out = <<>>)
          BY <1>8, <1>t DEF Collect, Record, Finish, LoopEnded, Release, FwdState
      <2>2. Reported(p)'
          BY <1>r, <2>1 DEF Reported, RunLive
      <2>3. setup.acp => Stopped(p)' /\ Earned(p)'
          BY <1>r, <2>1 DEF Stopped, Earned, Answered
      <2> QED BY <1>t, <2>1, <2>2, <2>3, OnePrompt
  <1>9. ASSUME NEW p \in Prompt, Answering(p) PROVE Reports'
      <2>1. /\ UNCHANGED <<setup, lost, stopped, loop, fwd, heard>>
            /\ \A q \in Prompt \ {p} : srv'[q] = srv[q]
          BY <1>9, <1>t DEF Answering, Update, UpdateFails, Printed, Answer
      <2>2. Reported(p)'
          BY <1>r, <2>1 DEF Reported, RunLive
      <2>3. ASSUME setup.acp, Update(p) PROVE Stopped(p)' /\ Earned(p)'
          <3>1. srv[p].at = "got" /\ srv'[p].at = "read" /\ srv'[p].stop = StopReason(srv[p].event, srv[p].stop)
              BY <2>3, <1>t DEF Update, SrvState
          <3>2. StopReason(srv[p].event, "end_turn") = StopReason(heard[p], "end_turn")
              BY <1>r, <2>3, <3>1 DEF Stopped, StopReason, Terminal
          <3> QED BY <1>r, <2>1, <2>3, <3>1, <3>2 DEF Stopped, Earned, Answered
      <2>4. ASSUME setup.acp, UpdateFails(p) PROVE Stopped(p)' /\ Earned(p)'
          <3>1. srv'[p].at = "answered" /\ srv'[p].answer = "error"
              BY <2>4, <1>t DEF UpdateFails, SrvState
          <3> QED BY <3>1 DEF Stopped, Earned, Answered
      <2>5. ASSUME setup.acp, Answer(p) PROVE Stopped(p)' /\ Earned(p)'
          <3>1. /\ srv[p].at = "read" /\ fwd[p].at = "closed" /\ srv'[p].at = "answered"
                /\ srv'[p].answer = IF p \in lost THEN "cancelled" ELSE srv[p].stop
              BY <2>5, <1>t DEF Answer, SrvState
          <3>2. srv[p].stop = StopReason(heard[p], "end_turn")
              BY <1>r, <2>5, <3>1 DEF Stopped
          <3>3. heard[p] \in Terminal \/ (heard[p] = "none" /\ ~RunLive(p))
              <4>1. loop[p].at = "end" /\ loop[p].out = <<>>
                  BY <1>r, <3>1 DEF Reported
              <4>2. \A e : <<e>> # <<>>
                  OBVIOUS
              <4>3. RunLive(p) => fwd[p].event \in Terminal
                  BY <1>r, <4>1, <4>2 DEF Reported
              <4> QED BY <1>r, <1>t, <3>1, <4>3 DEF Reported
          <3> QED BY <2>1, <3>1, <3>2, <3>3 DEF Stopped, Earned, Answered, StopReason, Terminal, RunLive
      <2>6. setup.acp => Stopped(p)' /\ Earned(p)'
          BY <1>9, <2>3, <2>4, <2>5 DEF Answering, Printed
      <2> QED BY <1>t, <2>1, <2>2, <2>6, OnePrompt
  <1> QED BY <1>1, <1>2, <1>3, <1>4, <1>5, <1>6, <1>7, <1>8, <1>9
          DEF Next, Starting, Passing, Forwarding

(* A client is told of a run what the run itself reported, or that it was  *)
(* ended from outside.                                                     *)
THEOREM AnswersAreEarned == Spec => []AnswerIsEarned
  <1>1. Init => AnswerInv
      <2> SUFFICES ASSUME Init PROVE Reports
          BY BaseInit DEF AnswerInv
      <2>1. \A p \in Prompt : /\ heard[p] = "none" /\ fwd[p].event = "none" /\ fwd[p].at = "none"
                              /\ loop[p].at = "none" /\ loop[p].out = <<>> /\ srv[p].at = "idle"
          BY DEF Init
      <2> QED BY <2>1, WorkingEvents DEF Reports, Reported, Stopped, Earned, Answered, Terminal
  <1>2. AnswerInv /\ [Next]_vars => AnswerInv'
      BY ReportStep
  <1>3. AnswerInv => AnswerIsEarned
      <2> SUFFICES ASSUME AnswerInv, setup.acp, NEW p \in Prompt, Answered(p)
                   PROVE  CASE srv[p].answer = "end_turn"  -> heard[p] = "completed"
                            \/ (p \in stopped /\ heard[p] = "none")
                            [] srv[p].answer = "refusal"   -> heard[p] = "failed"
                            [] srv[p].answer = "cancelled" -> heard[p] = "cancelled" \/ p \in lost
          BY DEF AnswerIsEarned
      <2>1. Earned(p)
          BY DEF AnswerInv, Reports
      <2> QED BY <2>1 DEF Earned
  <1> QED BY <1>1, <1>2, <1>3, PTL DEF Spec
-----------------------------------------------------------------------------
(* RecordedBeforeAnswer.  A prompt's own copy has what it has to record;   *)
(* the file has that copy while the prompt is the session's only writer,   *)
(* and after that every record that may be written to the file has been    *)
(* read from one with the prompt's messages.                               *)

Said(r) == {r.messages[i] : i \in DOMAIN r.messages}
Holds(r, p) == <<p, "user">> \in Said(r) /\ (fwd[p].spoke => <<p, "reply">> \in Said(r))

Saved(p) == srv[p].at = "register" \/ fwd[p].at # "none"
Alone(p) == \A q \in Prompt \ {p} : of[q] # of[p]

\* What a prompt's own copy has.
Own(p) ==
  /\ srv[p].at = "idle" => of[p] = None
  /\ srv[p].at # "idle" => <<p, "user">> \in Said(copy[p])
  /\ fwd[p].at \in {"release", "closed"} => Holds(copy[p], p)
  /\ heard[p] # "none" /\ fwd[p].at \notin {"send", "record"} =>
       copy[p].events # <<>> /\ copy[p].events[Len(copy[p].events)] = heard[p]

\* What the file has of it.
OnFile(p) ==
  /\ srv[p].at # "idle" => stored[of[p]] \in SessionRecord
  /\ Saved(p) /\ ((p \notin mixed /\ Writing(p)) \/ Alone(p)) => stored[of[p]] = copy[p]
  /\ p \notin mixed /\ fwd[p].at = "closed" =>
       /\ Holds(stored[of[p]], p)
       /\ \A q \in Prompt : of[q] = of[p] /\ Writing(q) => Holds(copy[q], p)

PersistInv == CancelInv /\ AnswerInv /\ \A p \in Prompt : Own(p) /\ OnFile(p)

LEMMA AppendSays ==
  ASSUME NEW r \in SessionRecord, NEW m \in Message
  PROVE  Said([r EXCEPT !.messages = Append(@, m)]) = Said(r) \cup {m}
  <1>1. r.messages \in Seq(Message) /\ [r EXCEPT !.messages = Append(@, m)].messages = Append(r.messages, m)
      BY DEF SessionRecord
  <1>2. {Append(r.messages, m)[i] : i \in DOMAIN Append(r.messages, m)}
          = {r.messages[i] : i \in DOMAIN r.messages} \cup {m}
      <2> DEFINE s == r.messages
      <2>1. s \in Seq(Message)
          BY <1>1
      <2> HIDE DEF s
      <2>2. /\ DOMAIN Append(s, m) = DOMAIN s \cup {Len(s) + 1} /\ Append(s, m)[Len(s) + 1] = m
            /\ \A i \in DOMAIN s : Append(s, m)[i] = s[i]
          BY <2>1
      <2>3. {Append(s, m)[i] : i \in DOMAIN Append(s, m)} = {s[i] : i \in DOMAIN s} \cup {m}
          BY <2>2
      <2> QED BY <2>3 DEF s
  <1> QED BY <1>1, <1>2 DEF Said

LEMMA KeptEndsWith ==
  ASSUME NEW events \in Seq(Event), NEW e \in Event
  PROVE  Kept(events, e) # <<>> /\ Kept(events, e)[Len(Kept(events, e))] = e
  <1> DEFINE all == Append(events, e)
  <1>1. all \in Seq(Event) /\ Len(all) = Len(events) + 1 /\ all[Len(events) + 1] = e /\ Len(events) \in Nat
      OBVIOUS
  <1>2. CASE Len(all) > MaxSessionEvents
      <2>1. Len(events) > 0
          BY <1>1, <1>2, RuntimeAssumption
      <2>2. Len(Tail(all)) = Len(events) /\ Tail(all)[Len(events)] = all[Len(events) + 1]
          BY <1>1, <2>1
      <2>3. Kept(events, e) = Tail(all)
          BY <1>2 DEF Kept
      <2> HIDE DEF all
      <2> QED BY <1>1, <2>1, <2>2, <2>3
  <1>3. CASE ~(Len(all) > MaxSessionEvents)
      <2>1. Kept(events, e) = all
          BY <1>3 DEF Kept
      <2> HIDE DEF all
      <2> QED BY <1>1, <2>1
  <1> QED BY <1>2, <1>3

\* The other prompts' copies are not touched by a step of p.
LEMMA OwnElsewhere ==
  ASSUME NEW q \in Prompt, Own(q), of'[q] = of[q], srv'[q] = srv[q], fwd'[q] = fwd[q],
         copy'[q] = copy[q], heard'[q] = heard[q]
  PROVE  Own(q)'
  BY DEF Own, Holds, Said

\* A step that writes no record, starts no prompt and ends the writing of
\* those alone that have nothing left to write.
LEMMA QuietFile ==
  ASSUME PersistInv, Base', UNCHANGED <<of, mixed, copy, stored>>,
         \A q \in Prompt :
           /\ Writing(q)' => Writing(q)
           /\ Saved(q)' => Saved(q)
           /\ srv'[q].at # "idle" => srv[q].at # "idle"
           /\ fwd'[q].at = "closed" => fwd[q].at \in {"release", "closed"} /\ fwd'[q].spoke = fwd[q].spoke
  PROVE  \A q \in Prompt : OnFile(q)'
  <1> SUFFICES ASSUME NEW q \in Prompt PROVE OnFile(q)'
      OBVIOUS
  <1>t. Own(q) /\ OnFile(q) /\ MeetingsSeen /\ Phase(q) /\ Phase(q)'
      BY DEF PersistInv, CancelInv, Base
  <1>1. srv'[q].at # "idle" => stored'[of'[q]] \in SessionRecord
      BY <1>t DEF OnFile
  <1>2. Alone(q)' <=> Alone(q)
      BY DEF Alone
  <1>3. Saved(q)' /\ ((q \notin mixed' /\ Writing(q)') \/ Alone(q)') => stored'[of'[q]] = copy'[q]
      BY <1>t, <1>2 DEF OnFile
  <1>4. ASSUME q \notin mixed', fwd'[q].at = "closed", fwd[q].at = "closed"
        PROVE  /\ Holds(stored[of[q]], q)'
               /\ \A w \in Prompt : of'[w] = of'[q] /\ Writing(w)' => Holds(copy[w], q)'
      <2>1. fwd'[q].spoke = fwd[q].spoke /\ of' = of /\ stored' = stored /\ copy' = copy /\ mixed' = mixed
          BY <1>4
      <2>2. /\ Holds(stored[of[q]], q)
            /\ \A w \in Prompt : of[w] = of[q] /\ Writing(w) => Holds(copy[w], q)
          BY <1>t, <1>4, <2>1 DEF OnFile
      <2>3. /\ Holds(stored'[of'[q]], q)
            /\ \A w \in Prompt : of'[w] = of'[q] /\ Writing(w)' => Holds(copy'[w], q)
          BY <2>1, <2>2
      <2> QED BY <2>1, <2>3 DEF Holds, Said
  <1>5. ASSUME q \notin mixed', fwd'[q].at = "closed", fwd[q].at = "release"
        PROVE  /\ Holds(stored[of[q]], q)'
               /\ \A w \in Prompt : of'[w] = of'[q] /\ Writing(w)' => Holds(copy[w], q)'
      <2>1. fwd'[q].spoke = fwd[q].spoke /\ of' = of /\ stored' = stored /\ copy' = copy /\ mixed' = mixed
          BY <1>5
      <2>2. Writing(q) /\ Saved(q)
          BY <1>5 DEF Writing, Saved
      <2>3. stored[of[q]] = copy[q] /\ Holds(copy[q], q)
          BY <1>t, <1>5, <2>1, <2>2 DEF OnFile, Own
      <2>4. ~Writing(q)'
          BY <1>t, <1>5 DEF Phase, Writing
      <2>5. \A w \in Prompt : of'[w] = of'[q] => ~Writing(w)'
          BY <1>t, <1>5, <2>1, <2>2, <2>4 DEF MeetingsSeen
      <2> QED BY <2>1, <2>3, <2>5 DEF Holds, Said
  <1> QED BY <1>1, <1>3, <1>4, <1>5 DEF OnFile

\* A step that writes a prompt's record, to which it may have added, to the
\* file.
LEMMA WrittenFile ==
  ASSUME PersistInv, NEW p \in Prompt, Writing(p), UNCHANGED <<of, mixed>>,
         of[p] \in Session, srv[p].at # "idle",
         NEW r \in SessionRecord, Said(copy[p]) \subseteq Said(r),
         copy'[p] = r, \A q \in Prompt \ {p} : copy'[q] = copy[q],
         stored' = [stored EXCEPT ![of[p]] = r],
         \A q \in Prompt \ {p} : srv'[q] = srv[q] /\ fwd'[q] = fwd[q],
         fwd'[p].at # "closed"
  PROVE  \A q \in Prompt : OnFile(q)'
  <1>t. /\ MeetingsSeen /\ stored \in [Session -> SessionRecord \cup {None}] /\ of \in [Prompt -> Session \cup {None}]
        /\ \A q \in Prompt : Phase(q) /\ OnFile(q) /\ Own(q)
      BY DEF PersistInv, CancelInv, Base, TypeOK
  <1>0. stored'[of[p]] = r /\ \A s \in Session \ {of[p]} : stored'[s] = stored[s]
      BY <1>t
  <1>1. OnFile(p)'
      <2>1. stored'[of'[p]] = r
          BY <1>0
      <2> QED BY <2>1 DEF OnFile
  <1>2. ASSUME NEW q \in Prompt, q # p PROVE OnFile(q)'
      <2>1. /\ of'[q] = of[q] /\ copy'[q] = copy[q] /\ mixed' = mixed
            /\ Writing(q)' = Writing(q) /\ Saved(q)' = Saved(q)
            /\ srv'[q] = srv[q] /\ fwd'[q] = fwd[q]
          BY <1>2 DEF Writing, Saved
      <2>2. CASE srv[q].at = "idle"
          BY <1>t, <2>1, <2>2 DEF OnFile, Phase, Saved, Writing
      <2>3. CASE srv[q].at # "idle"
          <3>1. of[q] \in Session
              BY <1>t, <2>3 DEF Phase
          <3>2. stored'[of[q]] \in SessionRecord
              BY <1>0, <1>t, <2>3, <3>1 DEF OnFile
          <3>3. ASSUME Saved(q), (q \notin mixed /\ Writing(q)) \/ Alone(q) PROVE stored'[of[q]] = copy[q]
              <4>1. of[q] # of[p]
                  BY <1>t, <1>2, <3>3 DEF MeetingsSeen, Alone
              <4> QED BY <1>0, <1>t, <3>1, <3>3, <4>1 DEF OnFile
          <3>4. Alone(q)' = Alone(q)
              BY DEF Alone
          <3>5. ASSUME q \notin mixed, fwd[q].at = "closed"
                PROVE  /\ Holds(stored[of[q]], q)'
                       /\ \A w \in Prompt : of[w] = of[q] /\ Writing(w)' => Holds(copy[w], q)'
              <4>1. /\ Holds(stored[of[q]], q)
                    /\ \A w \in Prompt : of[w] = of[q] /\ Writing(w) => Holds(copy[w], q)
                  BY <1>t, <3>5 DEF OnFile
              <4>2. of[p] = of[q] => Holds(r, q)
                  BY <4>1 DEF Holds
              <4>3. \A x : Holds(x, q)' <=> Holds(x, q)
                  BY <2>1 DEF Holds, Said
              <4>4. Holds(stored'[of'[q]], q)
                  BY <1>0, <2>1, <3>1, <4>1, <4>2
              <4>5. ASSUME NEW w \in Prompt, of[w] = of[q], Writing(w)' PROVE Holds(copy'[w], q)
                  <5>1. CASE w = p
                      BY <4>2, <4>5, <5>1
                  <5>2. CASE w # p
                      BY <4>1, <4>5, <5>2 DEF Writing
                  <5> QED BY <5>1, <5>2
              <4> QED BY <2>1, <4>4, <4>5 DEF Holds, Said
          <3> QED BY <2>1, <3>2, <3>3, <3>4, <3>5 DEF OnFile
      <2> QED BY <2>2, <2>3
  <1> QED BY <1>1, <1>2

\* A new prompt reads what the prompts before it wrote.
LEMMA AskFile ==
  ASSUME PersistInv, NEW p \in Prompt, NEW s \in Session, Ask(p, s)
  PROVE  \A q \in Prompt : Own(q)' /\ OnFile(q)'
  <1>f. /\ MeetingsSeen /\ Base /\ Reports /\ \A q \in Prompt : OnFile(q) /\ Own(q)
      BY DEF PersistInv, CancelInv, AnswerInv
  <1>t. /\ stored \in [Session -> SessionRecord \cup {None}] /\ of \in [Prompt -> Session \cup {None}]
        /\ copy \in [Prompt -> SessionRecord] /\ srv \in [Prompt -> SrvState]
        /\ \A q \in Prompt : Phase(q) /\ Reported(q)
      BY <1>f DEF Reports, Base, TypeOK
  <1> DEFINE r == [stored[s] EXCEPT !.messages = Append(@, <<p, "user">>)]
  <1>1. stored[s] \in SessionRecord /\ <<p, "user">> \in Message
      <2>1. stored[s] # None
          BY DEF Ask
      <2>2. <<p, "user">> \in Message
          BY DEF Message
      <2> QED BY <1>t, <2>1, <2>2
  <1>2. r \in SessionRecord /\ Said(r) = Said(stored[s]) \cup {<<p, "user">>}
      BY <1>1, AppendSays, SaidStep
  <1>3. /\ of' = [of EXCEPT ![p] = s] /\ copy' = [copy EXCEPT ![p] = r]
        /\ stored' = stored /\ fwd' = fwd /\ heard' = heard
        /\ mixed \subseteq mixed'
        /\ srv[p].at = "idle" /\ srv' = [srv EXCEPT ![p].at = "save"]
      BY DEF Ask, shared
  <1> HIDE DEF r
  <1>4. /\ of'[p] = s /\ copy'[p] = r /\ srv'[p].at = "save"
        /\ \A q \in Prompt \ {p} : of'[q] = of[q] /\ copy'[q] = copy[q] /\ srv'[q] = srv[q]
      BY <1>3, <1>t DEF SrvState
  <1>5. fwd[p].at = "none" /\ heard[p] = "none" /\ of[p] = None
      BY <1>3, <1>f, <1>t DEF Phase, Reported, Own
  <1>6. Own(p)' /\ OnFile(p)'
      <2>1. <<p, "user">> \in Said(copy'[p])
          BY <1>2, <1>4
      <2>2. Own(p)'
          BY <1>3, <1>4, <1>5, <2>1 DEF Own, Said
      <2>3. OnFile(p)'
          BY <1>1, <1>3, <1>4, <1>5 DEF OnFile, Saved
      <2> QED BY <2>2, <2>3
  <1>7. ASSUME NEW q \in Prompt, q # p PROVE Own(q)' /\ OnFile(q)'
      <2>1. Own(q)'
          <3>1. of'[q] = of[q] /\ srv'[q] = srv[q] /\ fwd'[q] = fwd[q] /\ copy'[q] = copy[q] /\ heard'[q] = heard[q]
              BY <1>3, <1>4, <1>7
          <3> QED BY <1>f, <3>1, OwnElsewhere
      <2>2. CASE srv[q].at = "idle"
          <3>1. fwd[q].at = "none" /\ fwd'[q] = fwd[q] /\ srv'[q] = srv[q]
              BY <1>3, <1>4, <1>7, <1>t, <2>2 DEF Phase
          <3> QED BY <2>1, <2>2, <3>1 DEF OnFile, Saved, Writing
      <2>3. CASE srv[q].at # "idle"
          <3>1. of[q] \in Session /\ of[q] # None
              BY <1>t, <2>3, RuntimeAssumption DEF Phase
          <3>2. Alone(q)' => Alone(q)
              BY <1>4, <1>5, <1>7, <3>1 DEF Alone
          <3>3. Writing(q)' = Writing(q) /\ Saved(q)' = Saved(q)
              BY <1>3, <1>4, <1>7 DEF Writing, Saved
          <3>4. Saved(q)' /\ ((q \notin mixed' /\ Writing(q)') \/ Alone(q)') => stored'[of'[q]] = copy'[q]
              BY <1>3, <1>4, <1>7, <1>f, <3>2, <3>3 DEF OnFile
          <3>5. ASSUME q \notin mixed', fwd'[q].at = "closed"
                PROVE  /\ Holds(stored'[of'[q]], q)
                       /\ \A w \in Prompt : of'[w] = of'[q] /\ Writing(w)' => Holds(copy'[w], q)
              <4>1. /\ Holds(stored[of[q]], q)
                    /\ \A w \in Prompt : of[w] = of[q] /\ Writing(w) => Holds(copy[w], q)
                  BY <1>3, <1>f, <3>5 DEF OnFile
              <4>2. ASSUME NEW w \in Prompt, of'[w] = of'[q], Writing(w)' PROVE Holds(copy'[w], q)
                  <5>1. CASE w = p
                      <6>1. of[q] = s
                          BY <1>4, <1>7, <4>2, <5>1
                      <6> QED BY <1>2, <1>4, <4>1, <5>1, <6>1 DEF Holds
                  <5>2. CASE w # p
                      <6>1. Writing(w)
                          BY <1>3, <1>4, <4>2, <5>2 DEF Writing
                      <6> QED BY <1>4, <1>7, <4>1, <4>2, <5>2, <6>1
                  <5> QED BY <5>1, <5>2
              <4>3. Holds(stored'[of'[q]], q)
                  BY <1>3, <1>4, <1>7, <4>1
              <4> QED BY <4>2, <4>3
          <3>6. srv'[q].at # "idle" => stored'[of'[q]] \in SessionRecord
              BY <1>3, <1>4, <1>7, <1>f DEF OnFile
          <3>7. fwd'[q] = fwd[q]
              BY <1>3
          <3>8. q \notin mixed' /\ fwd'[q].at = "closed" =>
                  /\ Holds(stored[of[q]], q)'
                  /\ \A w \in Prompt : of'[w] = of'[q] /\ Writing(w)' => Holds(copy[w], q)'
              BY <3>5, <3>7 DEF Holds, Said
          <3> QED BY <2>1, <3>4, <3>6, <3>8 DEF OnFile, Writing
      <2> QED BY <2>2, <2>3
  <1> QED BY <1>6, <1>7

LEMMA PersistStep == PersistInv /\ [Next]_vars => PersistInv'
  <1> SUFFICES ASSUME PersistInv, [Next]_vars PROVE \A q \in Prompt : Own(q)' /\ OnFile(q)'
      BY CancelStep, ReportStep DEF PersistInv
  <1>t. /\ Base /\ Base' /\ stored \in [Session -> SessionRecord \cup {None}]
        /\ of \in [Prompt -> Session \cup {None}]
        /\ copy \in [Prompt -> SessionRecord] /\ srv \in [Prompt -> SrvState] /\ fwd \in [Prompt -> FwdState]
        /\ \A q \in Prompt : Phase(q) /\ OnFile(q) /\ Own(q) /\ Reported(q) /\ Len(copy[q].events) <= MaxSessionEvents
      BY BaseStep DEF PersistInv, CancelInv, AnswerInv, Reports, Base, TypeOK
  <1> USE DEF shared, history
  <1> DEFINE Goal == \A q \in Prompt : Own(q)' /\ OnFile(q)'
  <1>1. ASSUME NEW p \in Prompt, NEW s \in Session, Ask(p, s) PROVE Goal
      BY <1>1, <1>t, AskFile
  <1>2. ASSUME NEW s \in Session, NewSession(s) PROVE Goal
      <2>1. /\ stored[s] = None /\ \A t \in Session \ {s} : stored'[t] = stored[t]
            /\ UNCHANGED <<of, copy, srv, fwd, heard, mixed>>
          BY <1>2, <1>t DEF NewSession
      <2>2. ASSUME NEW q \in Prompt PROVE OnFile(q)'
          <3>1. CASE srv[q].at = "idle"
              BY <1>t, <2>1, <3>1 DEF OnFile, Phase, Saved
          <3>2. CASE srv[q].at # "idle"
              <4>1. of[q] \in Session /\ of[q] # s
                  BY <1>t, <2>1, <3>2, RuntimeAssumption DEF Phase, OnFile
              <4>2. stored'[of'[q]] = stored[of[q]]
                  BY <2>1, <4>1
              <4>3. /\ Writing(q)' = Writing(q) /\ Saved(q)' = Saved(q) /\ Alone(q)' = Alone(q)
                    /\ \A w \in Prompt : Writing(w)' = Writing(w)
                  BY <2>1 DEF Saved, Writing, Alone
              <4>4. q \notin mixed /\ fwd[q].at = "closed" =>
                      /\ Holds(stored'[of'[q]], q)
                      /\ \A w \in Prompt : of'[w] = of'[q] /\ Writing(w)' => Holds(copy'[w], q)
                  BY <1>t, <2>1, <4>2, <4>3 DEF OnFile
              <4>5. /\ srv'[q].at # "idle" => stored'[of'[q]] \in SessionRecord
                    /\ Saved(q)' /\ ((q \notin mixed' /\ Writing(q)') \/ Alone(q)') => stored'[of'[q]] = copy'[q]
                  BY <1>t, <2>1, <4>2, <4>3 DEF OnFile
              <4> QED BY <2>1, <4>4, <4>5 DEF OnFile, Holds, Said
          <3> QED BY <3>1, <3>2
      <2>3. \A q \in Prompt : Own(q)'
          BY <1>t, <2>1, OwnElsewhere
      <2> QED BY <2>2, <2>3
  <1>3. ASSUME NEW p \in Prompt, Save(p) PROVE Goal
      <2>1. /\ UNCHANGED <<of, mixed, copy, fwd, heard>> /\ srv[p].at = "save" /\ fwd[p].at = "none"
            /\ of[p] \in Session /\ srv'[p].at \in {"register", "answered"}
            /\ \A q \in Prompt \ {p} : srv'[q] = srv[q]
          BY <1>3, <1>t DEF Save, Phase, SrvState
      <2>2. \A q \in Prompt : Own(q)'
          <3>1. Own(p)'
              BY <1>t, <2>1 DEF Own, Holds, Said
          <3> QED BY <1>t, <2>1, <3>1, OwnElsewhere
      <2>3. CASE p \in lost
          <3>1. stored' = stored /\ srv'[p].at = "answered"
              BY <1>3, <1>t, <2>3 DEF Save, SrvState
          <3>2. \A q \in Prompt : /\ Writing(q)' => Writing(q)
                                  /\ Saved(q)' => Saved(q)
                                  /\ srv'[q].at # "idle" => srv[q].at # "idle"
              BY <2>1, <3>1 DEF Writing, Saved
          <3>3. \A q \in Prompt : OnFile(q)'
              BY <1>t, <2>1, <3>1, <3>2, QuietFile
          <3> QED BY <2>2, <3>3
      <2>4. CASE p \notin lost
          <3>1. stored' = [stored EXCEPT ![of[p]] = copy[p]] /\ Writing(p)
              BY <1>3, <2>4 DEF Save, Writing
          <3>2. \A q \in Prompt : OnFile(q)'
              <4>1. copy'[p] = copy[p] /\ copy[p] \in SessionRecord
                  BY <1>t, <2>1
              <4> QED BY <1>t, <2>1, <3>1, <4>1, WrittenFile
          <3> QED BY <2>2, <3>2
      <2> QED BY <2>3, <2>4
  <1>4. ASSUME NEW p \in Prompt, Record(p) PROVE Goal
      <2> DEFINE r == [copy[p] EXCEPT !.events = Kept(@, fwd[p].event)]
      <2>1. /\ UNCHANGED <<of, mixed, srv, heard>> /\ fwd[p].at = "record" /\ fwd'[p].at = "take"
            /\ fwd[p].event \in Event /\ fwd'[p].spoke = fwd[p].spoke /\ fwd'[p].event = fwd[p].event
            /\ of[p] \in Session /\ srv[p].at # "idle"
            /\ \A q \in Prompt \ {p} : fwd'[q] = fwd[q]
          BY <1>4, <1>t DEF Record, Phase, FwdState
      <2>2. copy' = [copy EXCEPT ![p] = r]
          BY <1>4, <1>t DEF Record
      <2>3. r \in SessionRecord /\ Said(r) = Said(copy[p]) /\ r.events = Kept(copy[p].events, fwd[p].event)
          BY <1>t, <2>1, RecordStep DEF Said, SessionRecord
      <2>4. r.events # <<>> /\ r.events[Len(r.events)] = fwd[p].event
          <3>1. copy[p].events \in Seq(Event)
              BY <1>t DEF SessionRecord
          <3> HIDE DEF r
          <3> QED BY <2>1, <2>3, <3>1, KeptEndsWith
      <2> HIDE DEF r
      <2>5. copy'[p] = r /\ \A q \in Prompt \ {p} : copy'[q] = copy[q]
          BY <1>t, <2>2
      <2>6. stored' = [stored EXCEPT ![of[p]] = r]
          BY <1>4, <2>5 DEF Record
      <2>7. \A q \in Prompt : OnFile(q)'
          <3>1. Writing(p)
              BY <2>1 DEF Writing
          <3> QED BY <2>1, <2>3, <2>5, <2>6, <3>1, WrittenFile
      <2>8. Own(p)'
          <3>1. heard[p] # "none" => heard[p] = fwd[p].event
              BY <1>t, <2>1 DEF Reported
          <3>2. <<p, "user">> \in Said(copy'[p])
              BY <1>t, <2>1, <2>3, <2>5 DEF Own
          <3> QED BY <2>1, <2>4, <2>5, <3>1, <3>2 DEF Own, Said
      <2>9. \A q \in Prompt \ {p} : Own(q)'
          BY <1>t, <2>1, <2>5, OwnElsewhere
      <2> QED BY <2>7, <2>8, <2>9
  <1>5. ASSUME NEW p \in Prompt, Finish(p) PROVE Goal
      <2>1. /\ UNCHANGED <<of, mixed, srv, heard>> /\ fwd[p].at = "take" /\ fwd'[p].at = "release"
            /\ fwd'[p].spoke = fwd[p].spoke /\ of[p] \in Session /\ srv[p].at # "idle"
            /\ \A q \in Prompt \ {p} : fwd'[q] = fwd[q]
          BY <1>5, <1>t DEF Finish, LoopEnded, Phase, FwdState
      <2>2. CASE fwd[p].spoke
          <3> DEFINE r == [copy[p] EXCEPT !.messages = Append(@, <<p, "reply">>)]
          <3>1. copy' = [copy EXCEPT ![p] = r]
              BY <1>5, <1>t, <2>2 DEF Finish
          <3>2. <<p, "reply">> \in Message
              BY DEF Message
          <3>3. r \in SessionRecord /\ Said(r) = Said(copy[p]) \cup {<<p, "reply">>} /\ r.events = copy[p].events
              BY <1>t, <3>2, AppendSays, SaidStep
          <3> HIDE DEF r
          <3>4. copy'[p] = r /\ \A q \in Prompt \ {p} : copy'[q] = copy[q]
              BY <1>t, <3>1
          <3>5. stored' = [stored EXCEPT ![of[p]] = r]
              BY <1>5, <2>2, <3>4 DEF Finish
          <3>6. \A q \in Prompt : OnFile(q)'
              <4>1. Writing(p)
                  BY <2>1 DEF Writing
              <4> QED BY <2>1, <3>3, <3>4, <3>5, <4>1, WrittenFile
          <3>7. Own(p)'
              <4>1. <<p, "user">> \in Said(copy'[p]) /\ <<p, "reply">> \in Said(copy'[p])
                  BY <1>t, <2>1, <3>3, <3>4 DEF Own
              <4>2. copy'[p].events = copy[p].events
                  BY <3>3, <3>4
              <4> QED BY <1>t, <2>1, <4>1, <4>2 DEF Own, Said, Holds
          <3>8. \A q \in Prompt \ {p} : Own(q)'
              BY <1>t, <2>1, <3>4, OwnElsewhere
          <3> QED BY <3>6, <3>7, <3>8
      <2>3. CASE ~fwd[p].spoke
          <3>1. UNCHANGED <<copy, stored>>
              BY <1>5, <2>3 DEF Finish
          <3>2. \A q \in Prompt : OnFile(q)'
              <4>1. \A q \in Prompt : /\ Writing(q)' => Writing(q)
                                      /\ Saved(q)' => Saved(q)
                                      /\ srv'[q].at # "idle" => srv[q].at # "idle"
                                      /\ fwd'[q].at = "closed" => fwd[q].at \in {"release", "closed"}
                                           /\ fwd'[q].spoke = fwd[q].spoke
                  BY <2>1 DEF Writing, Saved
              <4> QED BY <1>t, <2>1, <3>1, <4>1, QuietFile
          <3>3. Own(p)'
              BY <1>t, <2>1, <2>3, <3>1 DEF Own, Said, Holds
          <3>4. \A q \in Prompt \ {p} : Own(q)'
              BY <1>t, <2>1, <3>1, OwnElsewhere
          <3> QED BY <3>2, <3>3, <3>4
      <2> QED BY <2>2, <2>3
  <1>6. ASSUME NEW p \in Prompt, UNCHANGED <<of, mixed, copy, stored>>,
               \A q \in Prompt \ {p} : srv'[q] = srv[q] /\ fwd'[q] = fwd[q] /\ heard'[q] = heard[q],
               srv[p].at # "idle" \/ srv'[p] = srv[p], srv'[p].at # "idle" \/ srv'[p] = srv[p],
               Writing(p)' => Writing(p), Saved(p)' => Saved(p),
               fwd'[p].at = "closed" => fwd[p].at \in {"release", "closed"} /\ fwd'[p].spoke = fwd[p].spoke,
               fwd'[p].at = "release" => fwd[p].at = "release" /\ fwd'[p].spoke = fwd[p].spoke,
               \/ fwd'[p].at \in {"send", "record"}
               \/ heard'[p] = "none"
               \/ heard'[p] = heard[p] /\ fwd[p].at \notin {"send", "record"}
        PROVE  Goal
      <2>1. \A q \in Prompt : /\ Writing(q)' => Writing(q)
                              /\ Saved(q)' => Saved(q)
                              /\ srv'[q].at # "idle" => srv[q].at # "idle"
                              /\ fwd'[q].at = "closed" => fwd[q].at \in {"release", "closed"}
                                   /\ fwd'[q].spoke = fwd[q].spoke
          <3> TAKE q \in Prompt
          <3>1. CASE q = p
              BY <1>6, <3>1
          <3>2. CASE q # p
              BY <1>6, <3>2 DEF Writing, Saved
          <3> QED BY <3>1, <3>2
      <2>2. \A q \in Prompt : OnFile(q)'
          BY <1>6, <1>t, <2>1, QuietFile
      <2>3. Own(p)'
          BY <1>6, <1>t DEF Own, Said, Holds
      <2>4. \A q \in Prompt \ {p} : Own(q)'
          BY <1>6, <1>t, OwnElsewhere
      <2> QED BY <2>2, <2>3, <2>4
  <1>7. ASSUME NEW p \in Prompt, Register(p) \/ Emit(p) \/ Forward(p) \/ Release(p) PROVE Goal
      <2>1. CASE Register(p)
          <3>1. /\ UNCHANGED <<of, mixed, copy, stored, heard>> /\ srv[p].at = "register" /\ srv'[p].at = "read"
                /\ fwd[p].at = "none" /\ fwd'[p].at = "take"
                /\ \A q \in Prompt \ {p} : srv'[q] = srv[q] /\ fwd'[q] = fwd[q]
              BY <1>t, <2>1 DEF Register, Phase, SrvState, FwdState
          <3> QED BY <1>6, <3>1 DEF Writing, Saved
      <2>2. CASE Emit(p)
          <3>1. /\ UNCHANGED <<of, mixed, copy, stored, heard, srv>>
                /\ fwd[p].at = "take" /\ fwd'[p].at = "send"
                /\ \A q \in Prompt \ {p} : fwd'[q] = fwd[q]
              BY <1>t, <2>2 DEF Emit, FwdState
          <3> QED BY <1>6, <3>1 DEF Writing, Saved
      <2>3. CASE Forward(p)
          <3>1. /\ UNCHANGED <<of, mixed, copy, stored>> /\ srv[p].at = "read" /\ srv'[p].at = "got"
                /\ fwd[p].at = "send" /\ fwd'[p].at = "record"
                /\ \A q \in Prompt \ {p} : srv'[q] = srv[q] /\ fwd'[q] = fwd[q] /\ heard'[q] = heard[q]
              BY <1>t, <2>3 DEF Forward, SrvState, FwdState, Base, TypeOK
          <3> QED BY <1>6, <3>1 DEF Writing, Saved
      <2>4. CASE Release(p)
          <3>1. /\ UNCHANGED <<of, mixed, copy, stored, heard, srv>>
                /\ fwd[p].at = "release" /\ fwd'[p].at = "closed" /\ fwd'[p].spoke = fwd[p].spoke
                /\ \A q \in Prompt \ {p} : fwd'[q] = fwd[q]
              BY <1>t, <2>4 DEF Release, FwdState
          <3>2. srv[p].at \notin {"save", "register"}
              BY <1>t, <3>1 DEF Phase
          <3> QED BY <1>6, <3>1, <3>2 DEF Writing, Saved
      <2> QED BY <1>7, <2>1, <2>2, <2>3, <2>4
  <1>8. ASSUME NEW p \in Prompt, Collect(p) PROVE Goal
      <2>1. /\ UNCHANGED <<of, mixed, copy, stored, heard, srv>>
            /\ fwd[p].at = "record" /\ fwd'[p].at = "take" /\ fwd[p].event = "delta"
            /\ \A q \in Prompt \ {p} : fwd'[q] = fwd[q]
          BY <1>8, <1>t DEF Collect, FwdState
      <2>2. heard[p] = "none"
          BY <1>t, <2>1 DEF Reported, Terminal
      <2> QED BY <1>6, <2>1, <2>2 DEF Writing, Saved
  <1>9. ASSUME NEW p \in Prompt, Answering(p) PROVE Goal
      <2>1. /\ UNCHANGED <<of, mixed, copy, stored, heard, fwd>>
            /\ \A q \in Prompt \ {p} : srv'[q] = srv[q]
            /\ srv[p].at \in {"got", "read"} /\ srv'[p].at \in {"read", "answered"}
          BY <1>9, <1>t DEF Answering, Update, UpdateFails, Printed, Answer, SrvState
      <2>2. \/ fwd'[p].at \in {"send", "record"}
            \/ heard'[p] = heard[p] /\ fwd[p].at \notin {"send", "record"}
          BY <2>1
      <2>3. (Writing(p)' => Writing(p)) /\ (Saved(p)' => Saved(p))
          BY <2>1 DEF Writing, Saved
      <2> QED BY <1>6, <2>1, <2>2, <2>3
  <1>10. ASSUME UNCHANGED <<of, mixed, copy, stored, srv, fwd, heard>> PROVE Goal
      <2>1. \A q \in Prompt : Own(q)'
          BY <1>10, <1>t, OwnElsewhere
      <2>2. \A q \in Prompt : OnFile(q)'
          BY <1>10, <1>t, QuietFile DEF Writing, Saved
      <2> QED BY <2>1, <2>2
  <1>11. ASSUME NEW p \in Prompt,
                \/ Streaming(p) \/ Calling(p) \/ Asking(p) \/ BeforeRun(p) \/ OpenStream(p) \/ NextRound(p)
                \/ Drop(p) \/ EndRequest(p)
         PROVE  Goal
      <2>1. UNCHANGED <<of, mixed, copy, stored, srv, fwd, heard>>
          BY <1>11 DEF Streaming, StreamDelta, StreamCall, StreamFails, StreamCancelled, StreamEnd,
             Calling, BeforeTool, Unknown, ExecuteAlways, Execute, RunApproved, LoopOnly,
             Asking, HookApproval, Approve, BeforeRun, OpenStream, NextRound, Drop, EndRequest
      <2> QED BY <1>10, <2>1
  <1>12. ASSUME UNCHANGED vars \/ \E s \in Session : Cancel(s) PROVE Goal
      BY <1>10, <1>12 DEF vars, Cancel
  <1> QED BY <1>1, <1>2, <1>3, <1>4, <1>5, <1>7, <1>8, <1>9, <1>11, <1>12
          DEF Next, Starting, Passing, Forwarding

(* When a run's channel closes, the file of a session that the prompt did  *)
(* not share has its message, the reply and the outcome, and later prompts *)
(* keep the messages.                                                      *)
THEOREM RunsAreRecorded == Spec => []RecordedBeforeAnswer
  <1>1. Init => PersistInv
      <2> SUFFICES ASSUME Init PROVE CancelInv /\ AnswerInv /\ \A p \in Prompt : Own(p) /\ OnFile(p)
          BY DEF PersistInv
      <2>1. \A p \in Prompt : /\ heard[p] = "none" /\ fwd[p].event = "none" /\ fwd[p].at = "none"
                              /\ loop[p].at = "none" /\ loop[p].out = <<>> /\ srv[p].at = "idle"
                              /\ of[p] = None
          BY DEF Init
      <2>2. CancelInv
          BY <2>1, BaseInit DEF CancelInv, MeetingsSeen, RunningIsCancellable, Writing
      <2>3. AnswerInv
          BY <2>1, BaseInit, WorkingEvents DEF AnswerInv, Reports, Reported, Stopped, Earned, Answered, Terminal
      <2>4. \A p \in Prompt : Own(p) /\ OnFile(p)
          BY <2>1 DEF Own, OnFile, Saved, Writing
      <2> QED BY <2>2, <2>3, <2>4
  <1>2. PersistInv => RecordedBeforeAnswer
      <2> SUFFICES ASSUME PersistInv, NEW p \in Prompt \ mixed, fwd[p].at = "closed"
                   PROVE  /\ <<p, "user">> \in Said(stored[of[p]])
                          /\ fwd[p].spoke => <<p, "reply">> \in Said(stored[of[p]])
                          /\ heard[p] # "none" /\ Alone(p) =>
                               /\ stored[of[p]].events # <<>>
                               /\ stored[of[p]].events[Len(stored[of[p]].events)] = heard[p]
          BY DEF RecordedBeforeAnswer, Said, Alone
      <2>1. Own(p) /\ OnFile(p)
          BY DEF PersistInv
      <2> QED BY <2>1 DEF Own, OnFile, Holds, Saved
  <1> QED BY <1>1, <1>2, PersistStep, PTL DEF Spec
=============================================================================
