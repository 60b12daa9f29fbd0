------------------------- MODULE AgentServicesProofs -------------------------
(***************************************************************************)
(* Proofs about a request to the model, the pool of sub-agents, the audit  *)
(* log and the configuration, for any tool calls in any pieces, any number *)
(* of delegations and of backups and any layers: the loop takes each tool  *)
(* call once, whole and under its own id, the pool's places and slots are  *)
(* those of the calls that wait and run, the log forgets its oldest lines  *)
(* only, and the highest source of a setting wins. ModelInv, PoolInv,      *)
(* AuditInv and ConfigInv are the inductive invariants; the theorems at    *)
(* the end put them together: a step of the services is a step of one of   *)
(* them.                                                                   *)
(***************************************************************************)
EXTENDS MCAgent, AgentRuntimeProofs, AgentToolsProofs, FiniteSetTheorems, SequenceTheorems, TLAPS

(* A request to the model.                                                 *)

\* The pieces of arguments that have come when n have.
Beginning(n) == [k \in 1..n |-> k]

ToolCalls == [type : {"tool_call"}, item : Item, id : {Model!CallId(i) : i \in Item}, arguments : {Model!Whole}]

StreamCalls ==
  [id : {Model!CallId(i) : i \in Item} \cup {Model!ItemId(i) : i \in Item}, named : BOOLEAN,
   arguments : {Model!Whole} \cup {Beginning(n) : n \in 0..Pieces}]

ModelTypes ==
  /\ model \in [Item -> [pieces : 0..Pieces, arguments : BOOLEAN, item : BOOLEAN]]
  /\ modelCalls \in [Item -> StreamCalls]
  /\ got \in Seq(ToolCalls)
  /\ out = NoEvent \/ out \in ToolCalls \/ out \in [type : {"message_delta", "completed", "failed"}]

Complete(i) == model[i].arguments \/ model[i].item

\* A call has the pieces that came, and all of them when it is finished; only
\* with its name is it told from its item, and then it has the model's id.
CallSound(i) ==
  /\ modelCalls[i].arguments = IF Complete(i) THEN Model!Whole ELSE Beginning(model[i].pieces)
  /\ modelCalls[i].named \in BOOLEAN
  /\ modelCalls[i].named => modelCalls[i].id = Model!CallId(i)

\* What was offered is finished, has its own id, and that id is remembered.
Offered(o) == Complete(o.item) /\ o.id = Model!CallId(o.item) /\ Model!CallId(o.item) \in emitted

ModelInv ==
  /\ ModelTypes
  /\ \A i \in Item : CallSound(i)
  /\ \A n \in 1..Len(got) : Offered(got[n])
  /\ \A m, n \in 1..Len(got) : got[m].item = got[n].item => m = n
  /\ out # NoEvent /\ out.type = "tool_call" => Offered(out) /\ \A n \in 1..Len(got) : got[n].item # out.item

-----------------------------------------------------------------------------
LEMMA ModelFields ==
  ASSUME ModelTypes
  PROVE  /\ Len(got) \in Nat /\ \A n \in 1..Len(got) : got[n] \in ToolCalls
         /\ \A i \in Item : model[i].pieces \in 0..Pieces /\ model[i].arguments \in BOOLEAN /\ model[i].item \in BOOLEAN
         /\ out # NoEvent /\ out.type = "tool_call" => out \in ToolCalls
  <1>1. got \in Seq(ToolCalls)
      BY DEF ModelTypes
  <1>2. Len(got) \in Nat /\ \A n \in 1..Len(got) : got[n] \in ToolCalls
      BY <1>1, ElementOfSeq, LenProperties
  <1>3. out # NoEvent /\ out.type = "tool_call" => out \in ToolCalls
      BY DEF ModelTypes
  <1> QED BY <1>2, <1>3 DEF ModelTypes

LEMMA ModelInitInv == Model!Init => ModelInv
  <1> SUFFICES ASSUME Model!Init PROVE ModelInv
      OBVIOUS
  <1>1. got = <<>> /\ out = NoEvent
      BY DEF Model!Init
  <1>2. ModelTypes
      <2>1. Beginning(0) = <<>> /\ 0 \in 0..Pieces
          BY ModelAssumption DEF Beginning
      <2>2. \A i \in Item : Model!NoCall(i) \in StreamCalls
          BY <2>1 DEF Model!NoCall, StreamCalls
      <2> QED BY <1>1, <2>1, <2>2 DEF Model!Init, ModelTypes
  <1>3. \A i \in Item : CallSound(i)
      <2> SUFFICES ASSUME NEW i \in Item PROVE CallSound(i)
          OBVIOUS
      <2>1. model[i] = [pieces |-> 0, arguments |-> FALSE, item |-> FALSE] /\ modelCalls[i] = Model!NoCall(i)
          BY DEF Model!Init
      <2>2. Beginning(0) = <<>>
          BY DEF Beginning
      <2> QED BY <2>1, <2>2 DEF CallSound, Complete, Model!NoCall
  <1> QED BY <1>1, <1>2, <1>3 DEF ModelInv

\* Steps that leave the calls and what was taken of them as they are.
LEMMA ModelElsewhere ==
  ASSUME ModelInv, UNCHANGED <<model, modelCalls, emitted, got>>,
         out' = out \/ out' = NoEvent \/ out' \in [type : {"message_delta", "completed", "failed"}]
  PROVE  ModelInv'
  <1>1. ModelTypes'
      BY DEF ModelInv, ModelTypes
  <1>2. \A i \in Item : CallSound(i)'
      BY DEF ModelInv, CallSound, Complete
  <1>3. (\A n \in 1..Len(got) : Offered(got[n]))' /\ (\A m, n \in 1..Len(got) : got[m].item = got[n].item => m = n)'
      BY DEF ModelInv, Offered, Complete
  <1>4. (out # NoEvent /\ out.type = "tool_call" => Offered(out) /\ \A n \in 1..Len(got) : got[n].item # out.item)'
      <2>1. CASE out' = out
          BY <2>1 DEF ModelInv, Offered, Complete
      <2>2. CASE out' # out
          BY <2>2
      <2> QED BY <2>1, <2>2
  <1> QED BY <1>1, <1>2, <1>3, <1>4 DEF ModelInv

\* The event taken is the last of what was taken, and of another call.
LEMMA ModelTake == ASSUME ModelInv, Model!Take PROVE ModelInv'
  <1>1. CASE out.type # "tool_call"
      BY <1>1, ModelElsewhere DEF Model!Take
  <1>2. CASE out.type = "tool_call"
      <2>1. out \in ToolCalls /\ Offered(out) /\ \A n \in 1..Len(got) : got[n].item # out.item
          BY <1>2, ModelFields DEF Model!Take, ModelInv
      <2>2. got' = Append(got, out) /\ out' = NoEvent /\ UNCHANGED <<model, modelCalls, emitted>>
          BY <1>2 DEF Model!Take
      <2>3. got \in Seq(ToolCalls)
          BY DEF ModelInv, ModelTypes
      <2>4. /\ got' \in Seq(ToolCalls) /\ Len(got') = Len(got) + 1 /\ Len(got) \in Nat
            /\ \A n \in 1..Len(got) : got'[n] = got[n]
            /\ got'[Len(got) + 1] = out
          BY <2>1, <2>2, <2>3, AppendProperties
      <2>5. \A n \in 1..Len(got') : (n \in 1..Len(got) /\ got'[n] = got[n]) \/ (n = Len(got) + 1 /\ got'[n] = out)
          BY <2>4
      <2>6. \A n \in 1..Len(got') : Offered(got[n])'
          BY <2>1, <2>2, <2>5 DEF ModelInv, Offered, Complete
      <2>7. \A m, n \in 1..Len(got') : got'[m].item = got'[n].item => m = n
          BY <2>1, <2>5 DEF ModelInv
      <2>8. ModelTypes' /\ \A i \in Item : CallSound(i)'
          BY <2>2, <2>4 DEF ModelInv, ModelTypes, CallSound, Complete
      <2> QED BY <2>2, <2>6, <2>7, <2>8 DEF ModelInv
  <1> QED BY <1>1, <1>2

LEMMA ModelDelta == ASSUME ModelInv, NEW i \in Item, Model!Delta(i) PROVE ModelInv'
  <1> DEFINE n == model[i].pieces
  <1>1. n \in Nat /\ n < Pieces /\ n + 1 \in 0..Pieces /\ ~Complete(i)
      BY ModelFields, ModelAssumption DEF Model!Delta, ModelInv, Complete
  <1>2. /\ model' = [model EXCEPT ![i].pieces = n + 1]
        /\ modelCalls' = [modelCalls EXCEPT ![i].arguments = Append(@, n + 1)]
        /\ UNCHANGED <<emitted, out, got>> /\ out = NoEvent
      BY DEF Model!Delta, Model!Reading
  <1>3. Append(Beginning(n), n + 1) = Beginning(n + 1)
      <2>1. Beginning(n) \in Seq(Nat) /\ Len(Beginning(n)) = n /\ Beginning(n + 1) \in Seq(Nat)
              /\ Len(Beginning(n + 1)) = n + 1
          BY <1>1 DEF Beginning
      <2>2. \A k \in 1..n + 1 : Append(Beginning(n), n + 1)[k] = Beginning(n + 1)[k]
          BY <1>1, <2>1, AppendProperties DEF Beginning
      <2>3. Append(Beginning(n), n + 1) \in Seq(Nat) /\ Len(Append(Beginning(n), n + 1)) = n + 1
          BY <1>1, <2>1, AppendProperties
      <2> QED BY <2>1, <2>2, <2>3, SeqEqual
  <1>4. model[i] \in [pieces : 0..Pieces, arguments : BOOLEAN, item : BOOLEAN]
      BY DEF ModelInv, ModelTypes
  <1> DEFINE m == [model[i] EXCEPT !.pieces = n + 1]
             call == [modelCalls[i] EXCEPT !.arguments = Append(@, n + 1)]
  <1>5. /\ m \in [pieces : 0..Pieces, arguments : BOOLEAN, item : BOOLEAN]
        /\ m.pieces = n + 1 /\ m.arguments = model[i].arguments /\ m.item = model[i].item
      BY <1>1, <1>4
  <1>6. /\ model' = [model EXCEPT ![i] = m] /\ \A j \in Item : model'[j] = IF j = i THEN m ELSE model[j]
        /\ modelCalls' = [modelCalls EXCEPT ![i] = call]
             /\ \A j \in Item : modelCalls'[j] = IF j = i THEN call ELSE modelCalls[j]
      BY <1>2 DEF ModelInv, ModelTypes
  <1>7. /\ modelCalls[i].arguments = Beginning(n) /\ modelCalls[i].named \in BOOLEAN
        /\ modelCalls[i].named => modelCalls[i].id = Model!CallId(i)
      BY <1>1 DEF ModelInv, CallSound
  <1>71. /\ call \in StreamCalls /\ call.arguments = Beginning(n + 1)
         /\ call.named = modelCalls[i].named /\ call.id = modelCalls[i].id
      <2>1. modelCalls[i] \in StreamCalls
          BY DEF ModelInv, ModelTypes
      <2> DEFINE b == Append(modelCalls[i].arguments, n + 1)
      <2>2. b = Beginning(n + 1) /\ b \in {Model!Whole} \cup {Beginning(k) : k \in 0..Pieces}
          BY <1>1, <1>3, <1>7
      <2>3. call = [modelCalls[i] EXCEPT !.arguments = b]
          OBVIOUS
      <2> HIDE DEF b, call
      <2> QED BY <2>1, <2>2, <2>3 DEF StreamCalls
  <1> HIDE DEF call, m
  <1>8. ModelTypes'
      <2>1. model' \in [Item -> [pieces : 0..Pieces, arguments : BOOLEAN, item : BOOLEAN]]
          BY <1>5, <1>6 DEF ModelInv, ModelTypes
      <2>2. modelCalls' \in [Item -> StreamCalls]
          BY <1>6, <1>71 DEF ModelInv, ModelTypes
      <2> QED BY <1>2, <2>1, <2>2 DEF ModelInv, ModelTypes
  <1>9. \A j \in Item : Complete(j)' = Complete(j)
      BY <1>5, <1>6 DEF Complete
  <1>10. \A j \in Item : CallSound(j)'
      <2>1. CallSound(i)'
          BY <1>1, <1>5, <1>6, <1>7, <1>9, <1>71 DEF CallSound
      <2>2. \A j \in Item : j # i => CallSound(j)'
          BY <1>6, <1>9 DEF ModelInv, CallSound
      <2> QED BY <2>1, <2>2
  <1>11. (\A k \in 1..Len(got) : Offered(got[k]))' /\ (\A k, l \in 1..Len(got) : got[k].item = got[l].item => k = l)'
      <2>1. \A k \in 1..Len(got) : got[k].item \in Item
          BY ModelFields DEF ModelInv, ToolCalls
      <2> QED BY <1>2, <1>9, <2>1 DEF ModelInv, Offered
  <1> QED BY <1>2, <1>8, <1>10, <1>11 DEF ModelInv

\* A final event: the call is finished, and offered if its name is known and
\* it has not been offered.
LEMMA ModelEmit ==
  ASSUME ModelInv, NEW i \in Item, NEW shape, "name" \in shape => "call" \in shape,
         Model!Finished(i, shape), Model!EmitToolCall(i, shape), out = NoEvent, UNCHANGED got,
         NEW m \in [pieces : 0..Pieces, arguments : BOOLEAN, item : BOOLEAN], m.arguments \/ m.item,
         model' = [model EXCEPT ![i] = m], Complete(i) \/ m.pieces = model[i].pieces
  PROVE  ModelInv'
  <1> DEFINE call == [id |-> IF "call" \in shape THEN Model!CallId(i) ELSE modelCalls[i].id,
                      named |-> modelCalls[i].named \/ "name" \in shape,
                      arguments |-> Model!Arguments(i, shape)]
  <1>1. /\ modelCalls' = [modelCalls EXCEPT ![i] = call]
        /\ IF call.named /\ call.id \notin emitted
           THEN /\ emitted' = emitted \cup {call.id}
                /\ out' = [type |-> "tool_call", item |-> i, id |-> call.id, arguments |-> call.arguments]
           ELSE UNCHANGED <<emitted, out>>
      BY DEF Model!EmitToolCall
  <1>2. CallSound(i)
      BY DEF ModelInv
  <1>3. Beginning(Pieces) = Model!Whole
      BY DEF Beginning, Model!Whole
  <1>4. call.arguments = Model!Whole
      <2>1. CASE "whole" \in shape
          BY <2>1 DEF Model!Arguments
      <2>2. CASE "whole" \notin shape
          BY <1>2, <1>3, <2>2 DEF Model!Arguments, Model!Finished, CallSound
      <2> QED BY <2>1, <2>2
  <1>5. call.named \in BOOLEAN /\ (call.named => call.id = Model!CallId(i))
      BY <1>2 DEF CallSound
  <1>6. /\ \A j \in Item : model'[j] = IF j = i THEN m ELSE model[j]
        /\ \A j \in Item : modelCalls'[j] = IF j = i THEN call ELSE modelCalls[j]
        /\ modelCalls' \in [Item -> StreamCalls]
      <2>1. modelCalls[i] \in StreamCalls
          BY DEF ModelInv, ModelTypes
      <2> DEFINE id == IF "call" \in shape THEN Model!CallId(i) ELSE modelCalls[i].id
      <2>2. id \in {Model!CallId(j) : j \in Item} \cup {Model!ItemId(j) : j \in Item}
          BY <2>1 DEF StreamCalls
      <2>3. call = [id |-> id, named |-> call.named, arguments |-> Model!Whole]
          BY <1>4
      <2> HIDE DEF id, call
      <2>4. call \in StreamCalls
          BY <1>5, <2>2, <2>3 DEF StreamCalls
      <2> QED BY <1>1, <2>4 DEF ModelInv, ModelTypes
  <1> HIDE DEF call
  <1>7. Complete(i)' /\ \A j \in Item : (Complete(j) => Complete(j)') /\ (j # i => (Complete(j)' <=> Complete(j)))
      BY <1>6 DEF Complete
  <1>8. \A j \in Item : CallSound(j)'
      <2>1. CallSound(i)'
          BY <1>4, <1>5, <1>6, <1>7 DEF CallSound
      <2>2. \A j \in Item : j # i => CallSound(j)'
          BY <1>6, <1>7 DEF ModelInv, CallSound
      <2> QED BY <2>1, <2>2
  <1>9. emitted \subseteq emitted'
      BY <1>1
  <1>10. \A k \in 1..Len(got) : Offered(got[k])' /\ got[k].item \in Item
      <2>1. \A k \in 1..Len(got) : got[k].item \in Item
          BY ModelFields DEF ModelInv, ToolCalls
      <2> QED BY <1>7, <1>9, <2>1 DEF ModelInv, Offered
  <1>11. model' \in [Item -> [pieces : 0..Pieces, arguments : BOOLEAN, item : BOOLEAN]]
      BY DEF ModelInv, ModelTypes
  <1>12. CASE call.named /\ call.id \notin emitted
      <2>1. /\ out' = [type |-> "tool_call", item |-> i, id |-> Model!CallId(i), arguments |-> Model!Whole]
            /\ emitted' = emitted \cup {Model!CallId(i)} /\ Model!CallId(i) \notin emitted
          BY <1>1, <1>4, <1>5, <1>12
      <2>2. out' \in ToolCalls
          BY <2>1 DEF ToolCalls
      <2>3. Offered(out)' /\ \A n \in 1..Len(got) : got[n].item # i
          BY <1>7, <2>1 DEF ModelInv, Offered
      <2>4. ModelTypes'
          BY <1>6, <1>11, <2>2 DEF ModelInv, ModelTypes
      <2>5. out'.item = i
          BY <2>1
      <2> QED BY <1>8, <1>10, <2>3, <2>4, <2>5 DEF ModelInv
  <1>13. CASE ~(call.named /\ call.id \notin emitted)
      <2>1. out' = NoEvent /\ emitted' = emitted
          BY <1>1, <1>13
      <2>2. ModelTypes'
          BY <1>6, <1>11, <2>1 DEF ModelInv, ModelTypes
      <2> QED BY <1>8, <1>10, <2>1, <2>2 DEF ModelInv
  <1> QED BY <1>12, <1>13

LEMMA ModelFinal == ASSUME ModelInv, NEW i \in Item, Model!ArgumentsDone(i) \/ Model!ItemDone(i) PROVE ModelInv'
  <1>0. model[i] \in [pieces : 0..Pieces, arguments : BOOLEAN, item : BOOLEAN]
      BY DEF ModelInv, ModelTypes
  <1>1. CASE Model!ArgumentsDone(i)
      <2> DEFINE m == [model[i] EXCEPT !.arguments = TRUE]
      <2>1. PICK shape \in Shapes : Model!Finished(i, shape) /\ Model!EmitToolCall(i, shape)
          BY <1>1 DEF Model!ArgumentsDone
      <2>2. /\ m \in [pieces : 0..Pieces, arguments : BOOLEAN, item : BOOLEAN]
            /\ m.arguments /\ m.pieces = model[i].pieces
          BY <1>0
      <2>3. model' = [model EXCEPT ![i] = m] /\ out = NoEvent /\ UNCHANGED got
          BY <1>1 DEF Model!ArgumentsDone, Model!Reading, ModelInv, ModelTypes
      <2> HIDE DEF m
      <2> QED BY <2>1, <2>2, <2>3, ModelAssumption, ModelEmit
  <1>2. CASE Model!ItemDone(i)
      <2> DEFINE m == [model[i] EXCEPT !.item = TRUE]
      <2>1. PICK shape \in {{"name", "call"}, {"name", "call", "whole"}} : Model!Finished(i, shape)
              /\ Model!EmitToolCall(i, shape)
          BY <1>2 DEF Model!ItemDone
      <2>2. /\ m \in [pieces : 0..Pieces, arguments : BOOLEAN, item : BOOLEAN]
            /\ m.item /\ m.pieces = model[i].pieces
          BY <1>0
      <2>3. model' = [model EXCEPT ![i] = m] /\ out = NoEvent /\ UNCHANGED got
          BY <1>2 DEF Model!ItemDone, Model!Reading, ModelInv, ModelTypes
      <2>4. "call" \in shape
          BY <2>1
      <2> HIDE DEF m
      <2> QED BY <2>1, <2>2, <2>3, <2>4, ModelEmit
  <1> QED BY <1>1, <1>2

LEMMA ModelNext == ModelInv /\ [Model!Next]_(Model!vars) => ModelInv'
  <1> SUFFICES ASSUME ModelInv, [Model!Next]_(Model!vars) PROVE ModelInv'
      OBVIOUS
  <1>1. CASE UNCHANGED Model!vars
      BY <1>1, ModelElsewhere DEF Model!vars
  <1>2. CASE Model!Ask \/ Model!Wait \/ Model!Say \/ Model!EndOfStream \/ Model!Go \/ Model!EndContext
      BY <1>2, ModelElsewhere DEF Model!Ask, Model!Wait, Model!Say, Model!EndOfStream, Model!Go, Model!EndContext
  <1>3. CASE Model!Take
      BY <1>3, ModelTake
  <1>4. CASE \E i \in Item : Model!Delta(i) \/ Model!ArgumentsDone(i) \/ Model!ItemDone(i)
      BY <1>4, ModelDelta, ModelFinal
  <1> QED BY <1>1, <1>2, <1>3, <1>4 DEF Model!Next

LEMMA ModelWhole == ModelInv => Model!CallsAreWhole
  <1> SUFFICES ASSUME ModelInv PROVE Model!CallsAreWhole
      OBVIOUS
  <1>1. \A n \in 1..Len(got) : got[n].arguments = Model!Whole
      BY ModelFields DEF ModelInv, ToolCalls
  <1> QED BY <1>1 DEF ModelInv, Offered, Complete, Model!CallsAreWhole

-----------------------------------------------------------------------------
(* The pool of sub-agents.                                                 *)

PoolTypes ==
  /\ poolAt \in [Delegation -> {"new", "enter", "wait", "run", "ok", "failed"}]
  /\ waiting \in Seq(Delegation)
  /\ said \in [Delegation -> Nat] /\ poolHeard \in [Delegation -> Nat]

\* Each call that waits does so in one place of the line.
Lined ==
  /\ \A m, n \in 1..Len(waiting) : waiting[m] = waiting[n] => m = n
  /\ \A n \in 1..Len(waiting) : waiting[n] \in Pool!In("wait")
  /\ \A c \in Pool!In("wait") : \E n \in 1..Len(waiting) : waiting[n] = c

Counted ==
  /\ poolQueue = IF QueueSize = 0 THEN 0 ELSE Cardinality(Pool!In("wait"))
  /\ sem = Cardinality(Pool!In("run")) /\ sem <= Concurrency

PoolInv ==
  /\ PoolTypes /\ Lined /\ Counted
  /\ \A c \in Delegation : poolHeard[c] = said[c] \/ c \in poolCancelled

-----------------------------------------------------------------------------
\* The calls at a place are finitely many; one that comes or leaves counts one.
LEMMA PoolCounts ==
  ASSUME NEW where
  PROVE  IsFiniteSet(Pool!In(where)) /\ Cardinality(Pool!In(where)) \in Nat
  <1>1. IsFiniteSet(Pool!In(where))
      BY PoolAssumption, FS_Subset DEF Pool!In
  <1> QED BY <1>1, FS_CardinalityType

LEMMA PoolComes ==
  ASSUME NEW S, IsFiniteSet(S), NEW c, c \notin S
  PROVE  Cardinality(S \cup {c}) = Cardinality(S) + 1
  BY FS_AddElement

LEMMA PoolLeaves ==
  ASSUME NEW S, IsFiniteSet(S), NEW c \in S
  PROVE  Cardinality(S \ {c}) = Cardinality(S) - 1 /\ Cardinality(S) \in Nat
  <1>1. Cardinality(S) \in Nat
      BY FS_CardinalityType
  <1> QED BY <1>1, FS_RemoveElement

\* A call that goes from one place to another.
LEMMA PoolMoves ==
  ASSUME PoolTypes, NEW c \in Delegation, NEW to \in {"new", "enter", "wait", "run", "ok", "failed"},
         poolAt' = [poolAt EXCEPT ![c] = to]
  PROVE  /\ poolAt' \in [Delegation -> {"new", "enter", "wait", "run", "ok", "failed"}]
         /\ Pool!In("wait")' = IF to = "wait" THEN Pool!In("wait") \cup {c} ELSE Pool!In("wait") \ {c}
         /\ Pool!In("run")' = IF to = "run" THEN Pool!In("run") \cup {c} ELSE Pool!In("run") \ {c}
  <1>1. \A d \in Delegation : poolAt'[d] = IF d = c THEN to ELSE poolAt[d]
      BY DEF PoolTypes
  <1>2. Pool!In("wait")' = IF to = "wait" THEN Pool!In("wait") \cup {c} ELSE Pool!In("wait") \ {c}
      BY <1>1 DEF Pool!In
  <1>3. Pool!In("run")' = IF to = "run" THEN Pool!In("run") \cup {c} ELSE Pool!In("run") \ {c}
      BY <1>1 DEF Pool!In
  <1> QED BY <1>2, <1>3 DEF PoolTypes

\* The cardinality SubagentPool counts with is FiniteSets' own.
LEMMA PoolCardinality == \A S : Pool!Cardinality(S) = Cardinality(S)
  BY DEF Pool!Cardinality, Cardinality

LEMMA PoolInitInv == Pool!Init => PoolInv
  <1> SUFFICES ASSUME Pool!Init PROVE PoolInv
      OBVIOUS
  <1>1. Pool!In("wait") = {} /\ Pool!In("run") = {}
      BY DEF Pool!Init, Pool!In
  <1>2. Cardinality({}) = 0
      BY FS_EmptySet
  <1>3. Counted
      <2>1. poolQueue = 0 /\ sem = 0 /\ Cardinality(Pool!In("wait")) = 0 /\ Cardinality(Pool!In("run")) = 0
          BY <1>1, <1>2 DEF Pool!Init
      <2> QED BY <2>1, PoolAssumption DEF Counted
  <1>4. Lined
      BY <1>1 DEF Pool!Init, Lined
  <1> QED BY <1>3, <1>4 DEF Pool!Init, PoolInv, PoolTypes

\* Steps between places that nobody counts.
LEMMA PoolElsewhere ==
  ASSUME PoolInv, NEW c \in Delegation, NEW to \in {"enter", "failed"}, poolAt[c] \in {"new", "enter"},
         poolAt' = [poolAt EXCEPT ![c] = to], UNCHANGED <<poolQueue, sem, waiting, poolCancelled, said, poolHeard>>
  PROVE  PoolInv'
  <1>1. Pool!In("wait")' = Pool!In("wait") /\ Pool!In("run")' = Pool!In("run")
      <2>1. c \notin Pool!In("wait") /\ c \notin Pool!In("run")
          BY DEF Pool!In
      <2>2. Pool!In("wait")' = Pool!In("wait") \ {c} /\ Pool!In("run")' = Pool!In("run") \ {c}
          BY PoolMoves DEF PoolInv
      <2> QED BY <2>1, <2>2
  <1>2. PoolTypes'
      BY PoolMoves DEF PoolInv, PoolTypes
  <1>3. Lined' /\ Counted'
      BY <1>1 DEF PoolInv, Lined, Counted
  <1> QED BY <1>2, <1>3 DEF PoolInv

LEMMA PoolEnter ==
  ASSUME PoolInv, NEW c \in Delegation, Pool!EnterQueue(c)
  PROVE  PoolInv'
  <1>1. CASE Pool!Goto(c, "failed") /\ UNCHANGED <<poolQueue, waiting>>
      BY <1>1, PoolElsewhere DEF Pool!EnterQueue, Pool!Goto
  <1>2. CASE /\ Pool!Goto(c, "wait") /\ waiting' = Append(waiting, c)
             /\ \/ QueueSize = 0 /\ poolQueue' = poolQueue
                \/ QueueSize > poolQueue /\ poolQueue' = poolQueue + 1
      <2>1. /\ poolAt' = [poolAt EXCEPT ![c] = "wait"] /\ UNCHANGED <<sem, poolCancelled, said, poolHeard>>
            /\ c \notin Pool!In("wait") /\ c \notin Pool!In("run")
          BY <1>2 DEF Pool!EnterQueue, Pool!Goto, Pool!In
      <2>2. Pool!In("wait")' = Pool!In("wait") \cup {c} /\ Pool!In("run")' = Pool!In("run")
          <3>1. Pool!In("wait")' = Pool!In("wait") \cup {c} /\ Pool!In("run")' = Pool!In("run") \ {c}
              BY <2>1, PoolMoves DEF PoolInv
          <3> QED BY <2>1, <3>1
      <2>3. waiting \in Seq(Delegation) /\ Len(waiting) \in Nat
          BY DEF PoolInv, PoolTypes
      <2>4. /\ waiting' \in Seq(Delegation) /\ Len(waiting') = Len(waiting) + 1
            /\ \A n \in 1..Len(waiting) : waiting'[n] = waiting[n]
            /\ waiting'[Len(waiting) + 1] = c
          BY <1>2, <2>3, AppendProperties
      <2>5. \A n \in 1..Len(waiting') :
              (n \in 1..Len(waiting) /\ waiting'[n] = waiting[n]) \/ (n = Len(waiting) + 1 /\ waiting'[n] = c)
          BY <2>3, <2>4
      <2>6. PoolTypes'
          BY <2>1, <2>4, PoolMoves DEF PoolInv, PoolTypes
      <2>7. Lined'
          <3>1. \A m, n \in 1..Len(waiting') : waiting'[m] = waiting'[n] => m = n
              BY <2>1, <2>5 DEF PoolInv, Lined
          <3>2. \A n \in 1..Len(waiting') : waiting'[n] \in Pool!In("wait")'
              BY <2>2, <2>5 DEF PoolInv, Lined
          <3>3. ASSUME NEW d \in Pool!In("wait")' PROVE \E n \in 1..Len(waiting') : waiting'[n] = d
              <4>1. CASE d = c
                  <5>1. Len(waiting) + 1 \in 1..Len(waiting')
                      BY <2>3, <2>4
                  <5> QED BY <2>4, <4>1, <5>1
              <4>2. CASE d # c
                  <5>1. PICK n \in 1..Len(waiting) : waiting[n] = d
                      BY <2>2, <4>2 DEF PoolInv, Lined
                  <5>2. n \in 1..Len(waiting')
                      BY <2>3, <2>4
                  <5> QED BY <2>4, <5>1, <5>2
              <4> QED BY <4>1, <4>2
          <3> QED BY <3>1, <3>2, <3>3 DEF Lined
      <2>8. Counted'
          <3>1. Cardinality(Pool!In("wait")') = Cardinality(Pool!In("wait")) + 1
              BY <2>1, <2>2, PoolCounts, PoolComes
          <3>2. poolQueue' = IF QueueSize = 0 THEN 0 ELSE Cardinality(Pool!In("wait")')
              <4>1. CASE QueueSize = 0
                  BY <1>2, <4>1, PoolCounts DEF PoolInv, Counted
              <4>2. CASE QueueSize # 0
                  BY <1>2, <3>1, <4>2 DEF PoolInv, Counted
              <4> QED BY <4>1, <4>2
          <3> QED BY <2>1, <2>2, <3>2 DEF PoolInv, Counted
      <2> QED BY <2>1, <2>6, <2>7, <2>8 DEF PoolInv
  <1> QED BY <1>1, <1>2 DEF Pool!EnterQueue

\* A call that waits leaves the line, from its head or from wherever it is.
LEMMA PoolLeavesLine ==
  ASSUME PoolInv, NEW c \in Delegation, poolAt[c] = "wait", NEW k \in 1..Len(waiting), waiting[k] = c,
         NEW to \in {"run", "failed"}, poolAt' = [poolAt EXCEPT ![c] = to], Pool!LeaveQueue,
         waiting' \in Seq(Delegation), Len(waiting') = Len(waiting) - 1,
         \A n \in 1..Len(waiting') : waiting'[n] = IF n < k THEN waiting[n] ELSE waiting[n + 1],
         sem' = IF to = "run" THEN sem + 1 ELSE sem, sem' <= Concurrency, UNCHANGED <<poolCancelled, said, poolHeard>>
  PROVE  PoolInv'
  <1>1. waiting \in Seq(Delegation) /\ Len(waiting) \in Nat
      BY DEF PoolInv, PoolTypes
  <1>2. c \in Pool!In("wait") /\ c \notin Pool!In("run")
      BY DEF Pool!In
  <1>3. /\ Pool!In("wait")' = Pool!In("wait") \ {c}
        /\ Pool!In("run")' = IF to = "run" THEN Pool!In("run") \cup {c} ELSE Pool!In("run")
      <2>1. /\ Pool!In("wait")' = Pool!In("wait") \ {c}
            /\ Pool!In("run")' = IF to = "run" THEN Pool!In("run") \cup {c} ELSE Pool!In("run") \ {c}
          BY PoolMoves DEF PoolInv
      <2> QED BY <1>2, <2>1
  <1>4. PoolTypes'
      BY PoolMoves DEF PoolInv, PoolTypes
  <1>5. Lined'
      <2>1. ASSUME NEW m \in 1..Len(waiting'), NEW n \in 1..Len(waiting'), waiting'[m] = waiting'[n] PROVE m = n
          <3>1. \A j \in 1..Len(waiting') : \E p \in 1..Len(waiting) :
                  waiting'[j] = waiting[p] /\ p = IF j < k THEN j ELSE j + 1
              BY <1>1
          <3>2. PICK p \in 1..Len(waiting) : waiting'[m] = waiting[p] /\ p = IF m < k THEN m ELSE m + 1
              BY <3>1
          <3>3. PICK q \in 1..Len(waiting) : waiting'[n] = waiting[q] /\ q = IF n < k THEN n ELSE n + 1
              BY <3>1
          <3>4. p = q
              <4>1. waiting[p] = waiting[q]
                  BY <2>1, <3>2, <3>3
              <4> QED BY <4>1 DEF PoolInv, Lined
          <3> QED BY <3>2, <3>3, <3>4
      <2>2. ASSUME NEW n \in 1..Len(waiting') PROVE waiting'[n] \in Pool!In("wait")'
          <3> DEFINE m == IF n < k THEN n ELSE n + 1
          <3>1. m \in 1..Len(waiting) /\ m # k /\ waiting'[n] = waiting[m]
              BY <1>1
          <3> HIDE DEF m
          <3>2. waiting[m] \in Pool!In("wait") /\ waiting[m] # c
              BY <3>1 DEF PoolInv, Lined
          <3> QED BY <1>3, <3>1, <3>2
      <2>3. ASSUME NEW d \in Pool!In("wait")' PROVE \E n \in 1..Len(waiting') : waiting'[n] = d
          <3>1. PICK m \in 1..Len(waiting) : waiting[m] = d
              BY <1>3 DEF PoolInv, Lined
          <3>2. m # k
              BY <1>3, <3>1
          <3> DEFINE n == IF m < k THEN m ELSE m - 1
          <3>3. n \in 1..Len(waiting') /\ waiting'[n] = waiting[m]
              BY <1>1, <3>2
          <3> QED BY <3>1, <3>3
      <2> QED BY <2>1, <2>2, <2>3 DEF Lined
  <1>6. Counted'
      <2>1. Cardinality(Pool!In("wait")') = Cardinality(Pool!In("wait")) - 1
          BY <1>2, <1>3, PoolCounts, PoolLeaves
      <2>2. poolQueue' = IF QueueSize = 0 THEN 0 ELSE Cardinality(Pool!In("wait")')
          BY <2>1 DEF Pool!LeaveQueue, PoolInv, Counted
      <2>3. sem' = Cardinality(Pool!In("run")')
          <3>1. CASE to = "run"
              BY <1>2, <1>3, <3>1, PoolCounts, PoolComes DEF PoolInv, Counted
          <3>2. CASE to # "run"
              BY <1>3, <3>2 DEF PoolInv, Counted
          <3> QED BY <3>1, <3>2
      <2> QED BY <2>2, <2>3 DEF Counted
  <1> QED BY <1>4, <1>5, <1>6 DEF PoolInv

LEMMA PoolAcquire == ASSUME PoolInv, NEW c \in Delegation, Pool!Acquire(c) PROVE PoolInv'
  <1>1. waiting \in Seq(Delegation) /\ waiting # <<>>
      <2>1. c \in Pool!In("wait")
          BY DEF Pool!Acquire, Pool!In
      <2>2. \E n \in 1..Len(waiting) : waiting[n] = c
          BY <2>1 DEF PoolInv, Lined
      <2> QED BY <2>2 DEF PoolInv, PoolTypes
  <1>2. /\ waiting[1] = c /\ 1 \in 1..Len(waiting)
        /\ waiting' \in Seq(Delegation) /\ Len(waiting') = Len(waiting) - 1
        /\ \A n \in 1..Len(waiting') : waiting'[n] = waiting[n + 1]
      BY <1>1, HeadTailProperties DEF Pool!Acquire
  <1>3. \A n \in 1..Len(waiting') : waiting'[n] = IF n < 1 THEN waiting[n] ELSE waiting[n + 1]
      BY <1>2
  <1>4. sem < Concurrency /\ sem' = sem + 1 /\ sem \in Nat
      BY PoolCounts DEF Pool!Acquire, PoolInv, Counted
  <1>5. sem' <= Concurrency
      BY <1>4, PoolAssumption
  <1> QED BY <1>2, <1>3, <1>4, <1>5, PoolLeavesLine DEF Pool!Acquire, Pool!Goto

LEMMA PoolGiveUp == ASSUME PoolInv, NEW c \in Delegation, Pool!GiveUp(c) PROVE PoolInv'
  <1>1. PICK k \in DOMAIN waiting : waiting[k] = c /\ waiting' = Pool!RemoveAt(waiting, k)
      BY DEF Pool!GiveUp
  <1>2. waiting \in Seq(Delegation) /\ Len(waiting) \in Nat /\ k \in 1..Len(waiting)
      BY <1>1 DEF PoolInv, PoolTypes
  <1>3. /\ waiting' \in Seq(Delegation) /\ Len(waiting') = Len(waiting) - 1
        /\ \A n \in 1..Len(waiting') : waiting'[n] = IF n < k THEN waiting[n] ELSE waiting[n + 1]
      <2> DEFINE front == SubSeq(waiting, 1, k - 1)
                 back == SubSeq(waiting, k + 1, Len(waiting))
      <2>1. /\ front \in Seq(Delegation) /\ Len(front) = k - 1
            /\ \A n \in 1..k - 1 : front[n] = waiting[n]
          BY <1>2, SubSeqProperties
      <2>2. /\ back \in Seq(Delegation) /\ Len(back) = Len(waiting) - k
            /\ \A n \in 1..Len(waiting) - k : back[n] = waiting[k + n]
          BY <1>2, SubSeqProperties
      <2>3. waiting' = front \o back
          BY <1>1 DEF Pool!RemoveAt
      <2> HIDE DEF front, back
      <2>4. /\ waiting' \in Seq(Delegation) /\ Len(waiting') = (k - 1) + (Len(waiting) - k)
            /\ \A n \in 1..Len(waiting') : waiting'[n] = IF n <= k - 1 THEN front[n] ELSE back[n - (k - 1)]
          <3>1. /\ front \o back \in Seq(Delegation) /\ Len(front \o back) = Len(front) + Len(back)
                /\ \A n \in 1..Len(front) + Len(back) :
                     (front \o back)[n] = IF n <= Len(front) THEN front[n] ELSE back[n - Len(front)]
              BY <2>1, <2>2, ConcatProperties
          <3> QED BY <2>1, <2>2, <2>3, <3>1
      <2>5. Len(waiting') = Len(waiting) - 1
          BY <1>2, <2>4
      <2>6. ASSUME NEW n \in 1..Len(waiting') PROVE waiting'[n] = IF n < k THEN waiting[n] ELSE waiting[n + 1]
          <3>1. CASE n < k
              <4>1. n \in 1..k - 1
                  BY <1>2, <3>1
              <4> QED BY <1>2, <2>1, <2>4, <3>1, <4>1
          <3>2. CASE ~(n < k)
              <4>1. n - (k - 1) \in 1..Len(waiting) - k /\ k + (n - (k - 1)) = n + 1 /\ ~(n <= k - 1)
                  BY <1>2, <2>5, <3>2
              <4>2. waiting'[n] = back[n - (k - 1)]
                  BY <2>4, <4>1
              <4>3. back[n - (k - 1)] = waiting[n + 1]
                  BY <2>2, <4>1
              <4> QED BY <3>2, <4>2, <4>3
          <3> QED BY <3>1, <3>2
      <2> QED BY <2>4, <2>5, <2>6
  <1>4. sem' = sem /\ sem <= Concurrency
      BY DEF Pool!GiveUp, PoolInv, Counted
  <1> QED BY <1>1, <1>2, <1>3, <1>4, PoolLeavesLine DEF Pool!GiveUp, Pool!GiveUpQueue, Pool!Goto

\* A run says something or ends.
LEMMA PoolDelta == ASSUME PoolInv, NEW c \in Delegation, Pool!Delta(c) PROVE PoolInv'
  <1>1. PoolTypes'
      <2>1. said' \in [Delegation -> Nat]
          BY DEF Pool!Delta, PoolInv, PoolTypes
      <2>2. poolHeard' \in [Delegation -> Nat]
          BY DEF Pool!Delta, PoolInv, PoolTypes
      <2> QED BY <2>1, <2>2 DEF Pool!Delta, PoolInv, PoolTypes
  <1>2. Lined' /\ Counted'
      BY DEF Pool!Delta, PoolInv, Lined, Counted, Pool!In
  <1>3. \A d \in Delegation : poolHeard'[d] = said'[d] \/ d \in poolCancelled'
      BY DEF Pool!Delta, PoolInv, PoolTypes
  <1> QED BY <1>1, <1>2, <1>3 DEF PoolInv

LEMMA PoolEndRun == ASSUME PoolInv, NEW c \in Delegation, Pool!EndRun(c) PROVE PoolInv'
  <1>1. PICK to \in {"ok", "failed"} : poolAt' = [poolAt EXCEPT ![c] = to]
      BY DEF Pool!EndRun, Pool!Goto
  <1>2. c \in Pool!In("run") /\ c \notin Pool!In("wait")
      BY DEF Pool!EndRun, Pool!In
  <1>3. Pool!In("wait")' = Pool!In("wait") /\ Pool!In("run")' = Pool!In("run") \ {c}
      <2>1. Pool!In("wait")' = Pool!In("wait") \ {c} /\ Pool!In("run")' = Pool!In("run") \ {c}
          BY <1>1, PoolMoves DEF PoolInv
      <2> QED BY <1>2, <2>1
  <1>4. PoolTypes'
      BY <1>1, PoolMoves DEF Pool!EndRun, PoolInv, PoolTypes
  <1>5. Lined'
      BY <1>3 DEF Pool!EndRun, PoolInv, Lined
  <1>6. Counted'
      <2>1. Cardinality(Pool!In("run")') = Cardinality(Pool!In("run")) - 1 /\ Cardinality(Pool!In("run")) \in Nat
          BY <1>2, <1>3, PoolCounts, PoolLeaves
      <2>2. sem' = Cardinality(Pool!In("run")') /\ sem' <= Concurrency
          BY <2>1, PoolAssumption DEF Pool!EndRun, PoolInv, Counted
      <2> QED BY <1>3, <2>2 DEF Pool!EndRun, PoolInv, Counted
  <1>7. \A d \in Delegation : poolHeard'[d] = said'[d] \/ d \in poolCancelled'
      BY DEF Pool!EndRun, PoolInv
  <1> QED BY <1>4, <1>5, <1>6, <1>7 DEF PoolInv

LEMMA PoolNext == PoolInv /\ [Pool!Next]_(Pool!vars) => PoolInv'
  <1> SUFFICES ASSUME PoolInv, [Pool!Next]_(Pool!vars) PROVE PoolInv'
      OBVIOUS
  <1>1. CASE UNCHANGED Pool!vars
      BY <1>1 DEF Pool!vars, PoolInv, PoolTypes, Lined, Counted, Pool!In
  <1>2. ASSUME NEW c \in Delegation, Pool!Begin(c) PROVE PoolInv'
      BY <1>2, PoolElsewhere DEF Pool!Begin, Pool!Goto
  <1>3. ASSUME NEW c \in Delegation, Pool!EndContext(c) PROVE PoolInv'
      BY <1>3 DEF Pool!EndContext, PoolInv, PoolTypes, Lined, Counted, Pool!In
  <1> QED BY <1>1, <1>2, <1>3, PoolEnter, PoolAcquire, PoolGiveUp, PoolDelta, PoolEndRun DEF Pool!Next

LEMMA PoolReturned == PoolInv => Pool!SlotsAreReturned
  <1> SUFFICES ASSUME PoolInv PROVE Pool!SlotsAreReturned
      OBVIOUS
  <1>1. DOMAIN waiting = 1..Len(waiting)
      BY DEF PoolInv, PoolTypes
  <1>2. Pool!ToSet(waiting) = Pool!In("wait")
      BY <1>1 DEF Pool!ToSet, PoolInv, Lined
  <1> QED BY <1>2, PoolCardinality DEF PoolInv, Counted, Pool!SlotsAreReturned, Pool!In

-----------------------------------------------------------------------------
(* The audit log.                                                          *)

AuditTypes ==
  /\ logFile \in [0..MaxBackups -> Seq(Nat) \cup {NoLog}]
  /\ lines \in Nat /\ kept \subseteq Nat
  /\ logAt \in {"idle", "open", "remove", "rename", "reopen", "write"}

\* The line that is being written is newer than any that is.
Newer ==
  \A line \in Audit!Present \cup kept : line <= lines /\ (logAt # "idle" => line < lines)

\* A rename moves a file into a place that is free.
AuditInv ==
  /\ AuditTypes /\ Newer /\ Audit!NewestAreKept
  /\ logAt = "write" => logFile[0] # NoLog
  /\ logAt = "rename" => backup \in 1..MaxBackups /\ logFile[backup] = NoLog

\* The order of the lines that are there.
Ordered ==
  /\ \A n \in 0..MaxBackups : \A j, k \in DOMAIN Audit!Content(n) : j < k => Audit!Content(n)[j] < Audit!Content(n)[k]
  /\ \A newer, older \in 0..MaxBackups : newer < older =>
       \A j \in DOMAIN Audit!Content(newer), k \in DOMAIN Audit!Content(older) :
         Audit!Content(older)[k] < Audit!Content(newer)[j]

-----------------------------------------------------------------------------
\* The lines a file holds are numbers, and there are none in no file.
LEMMA ContentTyped ==
  ASSUME AuditTypes, NEW n \in 0..MaxBackups
  PROVE  /\ Audit!Content(n) \in Seq(Nat)
         /\ \A k \in DOMAIN Audit!Content(n) : Audit!Content(n)[k] \in Nat /\ Audit!Content(n)[k] \in Audit!Present
         /\ logFile[n] = NoLog => DOMAIN Audit!Content(n) = {}
  <1>1. Audit!Content(n) \in Seq(Nat)
      BY DEF AuditTypes, Audit!Content
  <1>2. \A k \in DOMAIN Audit!Content(n) : Audit!Content(n)[k] \in Nat
      BY <1>1
  <1>3. \A k \in DOMAIN Audit!Content(n) : Audit!Content(n)[k] \in Audit!Present
      BY DEF Audit!Present
  <1>4. logFile[n] = NoLog => DOMAIN Audit!Content(n) = {}
      BY DEF Audit!Content
  <1> QED BY <1>1, <1>2, <1>3, <1>4

LEMMA PresentTyped == ASSUME AuditTypes PROVE Audit!Present \subseteq Nat
  <1>1. ASSUME NEW n \in 0..MaxBackups, NEW k \in DOMAIN Audit!Content(n) PROVE Audit!Content(n)[k] \in Nat
      BY <1>1, ContentTyped
  <1> QED BY <1>1 DEF Audit!Present

\* Files with the same lines.
LEMMA SameContent ==
  ASSUME AuditInv, \A n \in 0..MaxBackups : Audit!Content(n)' = Audit!Content(n)
  PROVE  Audit!Present' = Audit!Present /\ Ordered'
  <1>1. Ordered
      BY DEF AuditInv, Audit!NewestAreKept, Ordered
  <1>2. Audit!Present' = Audit!Present
      BY DEF Audit!Present
  <1> QED BY <1>1, <1>2 DEF Ordered

\* Files that are opened hold what they held.
LEMMA OpenedContent ==
  ASSUME AuditTypes, logFile' = Audit!Opened
  PROVE  /\ \A n \in 0..MaxBackups : Audit!Content(n)' = Audit!Content(n)
         /\ logFile' \in [0..MaxBackups -> Seq(Nat) \cup {NoLog}] /\ logFile'[0] # NoLog
  <1>1. 0 \in 0..MaxBackups /\ <<>> \in Seq(Nat) /\ <<>> # NoLog
      <2>1. <<>> \in Seq(Nat)
          OBVIOUS
      <2>2. 0 \in 0..MaxBackups
          BY AuditAssumption
      <2> QED BY <2>1, <2>2, AuditAssumption
  <1>2. CASE logFile[0] = NoLog
      <2>1. logFile' = [logFile EXCEPT ![0] = <<>>]
          BY <1>2 DEF Audit!Opened
      <2>2. logFile'[0] = <<>> /\ \A n \in 0..MaxBackups : n # 0 => logFile'[n] = logFile[n]
          BY <1>1, <2>1 DEF AuditTypes
      <2>3. logFile' \in [0..MaxBackups -> Seq(Nat) \cup {NoLog}]
          BY <1>1, <2>1 DEF AuditTypes
      <2>4. \A n \in 0..MaxBackups : Audit!Content(n)' = Audit!Content(n)
          BY <1>1, <1>2, <2>2 DEF Audit!Content
      <2> QED BY <1>1, <2>2, <2>3, <2>4
  <1>3. CASE logFile[0] # NoLog
      <2>1. logFile' = logFile
          BY <1>3 DEF Audit!Opened
      <2> QED BY <1>3, <2>1 DEF Audit!Content, AuditTypes
  <1> QED BY <1>2, <1>3

\* A step that leaves the lines in the files alone.
LEMMA SameLines ==
  ASSUME AuditInv, AuditTypes', \A n \in 0..MaxBackups : Audit!Content(n)' = Audit!Content(n), kept' = kept,
         \/ lines' = lines /\ (logAt' # "idle" => logAt # "idle")
         \/ lines' = lines + 1
  PROVE  Newer' /\ Audit!NewestAreKept'
  <1>1. Audit!Present' = Audit!Present /\ Ordered'
      BY SameContent
  <1>2. \A line \in Audit!Present : line \in Nat
      BY PresentTyped DEF AuditInv
  <1>3. Newer'
      <2> SUFFICES ASSUME NEW line \in Audit!Present \cup kept
                   PROVE  line <= lines' /\ (logAt' # "idle" => line < lines')
          BY <1>1 DEF Newer
      <2>1. line \in Nat /\ lines \in Nat
          BY <1>2 DEF AuditInv, AuditTypes
      <2>2. line <= lines /\ (logAt # "idle" => line < lines)
          BY DEF AuditInv, Newer
      <2> QED BY <2>1, <2>2
  <1> QED BY <1>1, <1>3 DEF AuditInv, Audit!NewestAreKept, Ordered

LEMMA AuditInitInv == Audit!Init => AuditInv
  <1> SUFFICES ASSUME Audit!Init PROVE AuditInv
      OBVIOUS
  <1>1. AuditTypes
      BY DEF Audit!Init, AuditTypes
  <1>2. \A n \in 0..MaxBackups : Audit!Content(n) = <<>>
      BY DEF Audit!Init, Audit!Content
  <1>3. Audit!Present = {}
      BY <1>2 DEF Audit!Present
  <1>4. Audit!NewestAreKept
      BY <1>2, <1>3 DEF Audit!Init, Audit!NewestAreKept
  <1> QED BY <1>1, <1>3, <1>4 DEF Audit!Init, AuditInv, Newer

\* The oldest backup, or the log, goes: every line that is left is newer.
LEMMA RemoveStep ==
  ASSUME AuditInv, Audit!RemoveOldest PROVE AuditInv'
  <1>1. MaxBackups \in 0..MaxBackups
      BY AuditAssumption
  <1>2. AuditTypes'
      BY DEF Audit!RemoveOldest, AuditInv, AuditTypes
  <1>3. logFile'[MaxBackups] = NoLog /\ \A n \in 0..MaxBackups : n # MaxBackups => logFile'[n] = logFile[n]
      BY <1>1 DEF Audit!RemoveOldest, AuditInv, AuditTypes
  <1>4. Audit!Content(MaxBackups)' = <<>>
          /\ \A n \in 0..MaxBackups : n # MaxBackups => Audit!Content(n)' = Audit!Content(n)
      BY <1>3 DEF Audit!Content
  <1>5. Audit!Present' \subseteq Audit!Present
      BY <1>4 DEF Audit!Present
  <1>6. Ordered'
      BY <1>4 DEF AuditInv, Audit!NewestAreKept, Ordered
  <1>7. ASSUME NEW line \in kept, NEW old \in Audit!Present', old < line PROVE line \in Audit!Present'
      <2>1. line \in Audit!Present
          BY <1>5, <1>7 DEF AuditInv, Audit!NewestAreKept
      <2>2. PICK n \in 0..MaxBackups : \E k \in DOMAIN Audit!Content(n) : line = Audit!Content(n)[k]
          BY <2>1 DEF Audit!Present
      <2>3. PICK k \in DOMAIN Audit!Content(n) : line = Audit!Content(n)[k]
          BY <2>2
      <2>4. CASE n # MaxBackups
          BY <1>4, <2>3, <2>4 DEF Audit!Present
      <2>5. CASE n = MaxBackups
          <3>1. PICK m \in 0..MaxBackups : \E j \in DOMAIN Audit!Content(m)' : old = Audit!Content(m)'[j]
              BY <1>7 DEF Audit!Present
          <3>2. m # MaxBackups
              BY <1>4, <3>1
          <3>3. PICK j \in DOMAIN Audit!Content(m) : old = Audit!Content(m)[j]
              BY <1>4, <3>1, <3>2
          <3>4. m < n
              BY <2>5, <3>2, AuditAssumption
          <3>5. line < old
              BY <2>3, <3>3, <3>4 DEF AuditInv, Audit!NewestAreKept
          <3>6. line \in Nat /\ old \in Nat
              BY <2>3, <3>3, ContentTyped DEF AuditInv
          <3> QED BY <1>7, <3>5, <3>6
      <2> QED BY <2>4, <2>5
  <1>8. Audit!NewestAreKept'
      <2>1. kept' = kept
          BY DEF Audit!RemoveOldest
      <2> QED BY <1>6, <1>7, <2>1 DEF Audit!NewestAreKept, Ordered
  <1>9. Newer'
      BY <1>5 DEF Audit!RemoveOldest, AuditInv, Newer
  <1>10. logAt' # "write" /\ (logAt' = "rename" => backup' \in 1..MaxBackups /\ logFile'[backup'] = NoLog)
      BY <1>3, AuditAssumption DEF Audit!RemoveOldest
  <1> QED BY <1>2, <1>8, <1>9, <1>10 DEF AuditInv

\* A file that moves to the free place above it: no line is gone, and the
\* order stays.
LEMMA MoveUp ==
  ASSUME AuditInv, NEW d \in 1..MaxBackups, logFile[d] = NoLog, logFile[d - 1] # NoLog,
         logFile' = [logFile EXCEPT ![d] = logFile[d - 1], ![d - 1] = NoLog]
  PROVE  /\ logFile' \in [0..MaxBackups -> Seq(Nat) \cup {NoLog}] /\ logFile'[d - 1] = NoLog
         /\ Audit!Present' = Audit!Present /\ Ordered'
  <1>t. /\ d - 1 \in 0..MaxBackups /\ d \in 0..MaxBackups /\ d - 1 # d
        /\ logFile \in [0..MaxBackups -> Seq(Nat) \cup {NoLog}]
      BY AuditAssumption DEF AuditInv, AuditTypes
  <1>1. /\ logFile'[d] = logFile[d - 1] /\ logFile'[d - 1] = NoLog
        /\ \A n \in 0..MaxBackups : n # d /\ n # d - 1 => logFile'[n] = logFile[n]
        /\ logFile' \in [0..MaxBackups -> Seq(Nat) \cup {NoLog}]
      BY <1>t
  <1>2. /\ Audit!Content(d)' = Audit!Content(d - 1) /\ Audit!Content(d - 1)' = <<>> /\ Audit!Content(d) = <<>>
        /\ \A n \in 0..MaxBackups : n # d /\ n # d - 1 => Audit!Content(n)' = Audit!Content(n)
      BY <1>1 DEF Audit!Content
  <1>3. Audit!Present' = Audit!Present
      <2>1. Audit!Present' \subseteq Audit!Present
          <3> SUFFICES ASSUME NEW n \in 0..MaxBackups, NEW k \in DOMAIN Audit!Content(n)'
                       PROVE  Audit!Content(n)'[k] \in Audit!Present
              BY DEF Audit!Present
          <3>1. CASE n = d
              BY <1>t, <1>2, <3>1 DEF Audit!Present
          <3>2. CASE n = d - 1
              BY <1>2, <3>2
          <3>3. CASE n # d /\ n # d - 1
              BY <1>2, <3>3 DEF Audit!Present
          <3> QED BY <3>1, <3>2, <3>3
      <2>2. Audit!Present \subseteq Audit!Present'
          <3> SUFFICES ASSUME NEW n \in 0..MaxBackups, NEW k \in DOMAIN Audit!Content(n)
                       PROVE  Audit!Content(n)[k] \in Audit!Present'
              BY DEF Audit!Present
          <3>1. CASE n = d
              BY <1>2, <3>1
          <3>2. CASE n = d - 1
              BY <1>t, <1>2, <3>2 DEF Audit!Present
          <3>3. CASE n # d /\ n # d - 1
              BY <1>2, <3>3 DEF Audit!Present
          <3> QED BY <3>1, <3>2, <3>3
      <2> QED BY <2>1, <2>2
  <1>4. Ordered'
      <2> DEFINE from(n) == IF n = d THEN d - 1 ELSE n
      <2>1. \A n \in 0..MaxBackups : from(n) \in 0..MaxBackups
              /\ (n # d - 1 => Audit!Content(n)' = Audit!Content(from(n)))
          BY <1>t, <1>2
      <2>2. \A m, n \in 0..MaxBackups : m < n /\ m # d - 1 => from(m) < from(n)
          BY <1>t, AuditAssumption
      <2> HIDE DEF from
      <2>3. ASSUME NEW n \in 0..MaxBackups, NEW j \in DOMAIN Audit!Content(n)', NEW k \in DOMAIN Audit!Content(n)',
                   j < k
            PROVE  Audit!Content(n)'[j] < Audit!Content(n)'[k]
          <3>1. n # d - 1
              BY <1>2, <2>3
          <3> QED BY <2>1, <2>3, <3>1 DEF AuditInv, Audit!NewestAreKept
      <2>4. ASSUME NEW m \in 0..MaxBackups, NEW n \in 0..MaxBackups, m < n,
                   NEW j \in DOMAIN Audit!Content(m)', NEW k \in DOMAIN Audit!Content(n)'
            PROVE  Audit!Content(n)'[k] < Audit!Content(m)'[j]
          <3>1. m # d - 1 /\ n # d - 1
              BY <1>2, <2>4
          <3> QED BY <2>1, <2>2, <2>4, <3>1 DEF AuditInv, Audit!NewestAreKept
      <2> QED BY <2>3, <2>4 DEF Ordered
  <1> QED BY <1>1, <1>3, <1>4

\* A rename leaves the next place free.
LEMMA RenameStep ==
  ASSUME AuditInv, Audit!Rename PROVE AuditInv'
  <1>t. /\ backup \in 1..MaxBackups /\ logFile[backup] = NoLog
        /\ logFile \in [0..MaxBackups -> Seq(Nat) \cup {NoLog}]
        /\ lines' = lines /\ kept' = kept /\ backup' = backup - 1 /\ logAt = "rename" /\ logAt' \in {"rename", "reopen"}
        /\ logAt' = "rename" => backup # 1
      BY DEF Audit!Rename, AuditInv, AuditTypes
  <1>0. logAt' = "rename" => backup' \in 1..MaxBackups
      BY <1>t, AuditAssumption
  <1>1. CASE logFile[backup - 1] = NoLog
      <2>1. logFile' = logFile
          BY <1>1 DEF Audit!Rename, Audit!Descending
      <2>2. \A n \in 0..MaxBackups : Audit!Content(n)' = Audit!Content(n)
          BY <2>1 DEF Audit!Content
      <2>3. AuditTypes'
          BY <1>t, <2>1 DEF AuditInv, AuditTypes
      <2>4. Newer' /\ Audit!NewestAreKept'
          BY <1>t, <2>2, <2>3, SameLines
      <2> QED BY <1>t, <1>0, <1>1, <2>1, <2>3, <2>4 DEF AuditInv
  <1>2. CASE logFile[backup - 1] # NoLog
      <2>1. logFile' = [logFile EXCEPT ![backup] = logFile[backup - 1], ![backup - 1] = NoLog]
          BY <1>2 DEF Audit!Rename, Audit!Descending
      <2>2. /\ logFile' \in [0..MaxBackups -> Seq(Nat) \cup {NoLog}] /\ logFile'[backup - 1] = NoLog
            /\ Audit!Present' = Audit!Present /\ Ordered'
          BY <1>t, <1>2, <2>1, MoveUp
      <2>3. Audit!NewestAreKept'
          BY <1>t, <2>2 DEF AuditInv, Audit!NewestAreKept, Ordered
      <2>4. Newer'
          BY <1>t, <2>2 DEF AuditInv, Newer
      <2>5. AuditTypes'
          BY <1>t, <2>2 DEF AuditInv, AuditTypes
      <2> QED BY <1>t, <1>0, <2>2, <2>3, <2>4, <2>5 DEF AuditInv
  <1> QED BY <1>1, <1>2

\* The new line is the newest, and goes behind all others.
LEMMA WriteStep ==
  ASSUME AuditInv, Audit!Write PROVE AuditInv'
  <1>t. /\ logFile[0] \in Seq(Nat) /\ 0 \in 0..MaxBackups /\ lines \in Nat /\ logFile[0] # NoLog
        /\ logFile \in [0..MaxBackups -> Seq(Nat) \cup {NoLog}]
        /\ logFile' = [logFile EXCEPT ![0] = Append(logFile[0], lines)]
        /\ logAt = "write" /\ logAt' = "idle" /\ lines' = lines /\ kept' \in {kept, kept \cup {lines}}
      BY AuditAssumption DEF Audit!Write, AuditInv, AuditTypes
  <1>1. /\ Append(logFile[0], lines) \in Seq(Nat)
        /\ DOMAIN Append(logFile[0], lines) = DOMAIN logFile[0] \cup {Len(logFile[0]) + 1}
        /\ Append(logFile[0], lines)[Len(logFile[0]) + 1] = lines
        /\ \A k \in DOMAIN logFile[0] : Append(logFile[0], lines)[k] = logFile[0][k]
        /\ DOMAIN logFile[0] = 1..Len(logFile[0]) /\ Len(logFile[0]) \in Nat
      BY <1>t
  <1> DEFINE last == Len(logFile[0]) + 1
  <1>2. /\ logFile'[0] = Append(logFile[0], lines) /\ \A n \in 0..MaxBackups : n # 0 => logFile'[n] = logFile[n]
        /\ logFile' \in [0..MaxBackups -> Seq(Nat) \cup {NoLog}] /\ logFile'[0] # NoLog
      BY <1>t, <1>1, AuditAssumption
  <1>3. /\ Audit!Content(0) = logFile[0] /\ Audit!Content(0)' = Append(logFile[0], lines)
        /\ \A n \in 0..MaxBackups : n # 0 => Audit!Content(n)' = Audit!Content(n)
      BY <1>t, <1>2 DEF Audit!Content
  <1>4. /\ DOMAIN Audit!Content(0)' = DOMAIN Audit!Content(0) \cup {last} /\ Audit!Content(0)'[last] = lines
        /\ \A k \in DOMAIN Audit!Content(0) : Audit!Content(0)'[k] = Audit!Content(0)[k] /\ k < last
        /\ last \in Nat
      <2>1. \A k \in DOMAIN logFile[0] : k < last
          BY <1>1
      <2>2. last \in Nat
          BY <1>1
      <2> HIDE DEF last
      <2> QED BY <1>1, <1>3, <2>1, <2>2 DEF last
  <1> HIDE DEF last
  <1>5. Audit!Present' = Audit!Present \cup {lines}
      <2>1. Audit!Present' \subseteq Audit!Present \cup {lines}
          <3> SUFFICES ASSUME NEW n \in 0..MaxBackups, NEW k \in DOMAIN Audit!Content(n)'
                       PROVE  Audit!Content(n)'[k] \in Audit!Present \cup {lines}
              BY DEF Audit!Present
          <3>1. CASE n = 0
              BY <1>4, <1>t, <3>1 DEF Audit!Present
          <3>2. CASE n # 0
              BY <1>3, <3>2 DEF Audit!Present
          <3> QED BY <3>1, <3>2
      <2>2. Audit!Present \subseteq Audit!Present'
          <3> SUFFICES ASSUME NEW n \in 0..MaxBackups, NEW k \in DOMAIN Audit!Content(n)
                       PROVE  Audit!Content(n)[k] \in Audit!Present'
              BY DEF Audit!Present
          <3>1. CASE n = 0
              BY <1>4, <1>t, <3>1 DEF Audit!Present
          <3>2. CASE n # 0
              BY <1>3, <3>2 DEF Audit!Present
          <3> QED BY <3>1, <3>2
      <2>3. lines \in Audit!Present'
          BY <1>4, <1>t DEF Audit!Present
      <2> QED BY <2>1, <2>2, <2>3
  <1>6. \A line \in Audit!Present \cup kept : line < lines
      BY <1>t DEF AuditInv, Newer
  <1>7. \A n \in 0..MaxBackups : \A k \in DOMAIN Audit!Content(n) : Audit!Content(n)[k] < lines
          /\ Audit!Content(n)[k] \in Nat
      BY <1>6, ContentTyped DEF AuditInv
  <1>8. Ordered'
      <2>1. ASSUME NEW n \in 0..MaxBackups, NEW j \in DOMAIN Audit!Content(n)', NEW k \in DOMAIN Audit!Content(n)',
                   j < k
            PROVE  Audit!Content(n)'[j] < Audit!Content(n)'[k]
          <3>1. CASE n # 0
              BY <1>3, <2>1, <3>1 DEF AuditInv, Audit!NewestAreKept
          <3>2. CASE n = 0 /\ k = last
              <4>1. j \in DOMAIN Audit!Content(0)
                  BY <1>4, <2>1, <3>2
              <4> QED BY <1>4, <1>7, <1>t, <3>2, <4>1
          <3>3. CASE n = 0 /\ k # last
              <4>1. k \in DOMAIN Audit!Content(0) /\ k < last /\ k \in Nat
                  BY <1>1, <1>3, <1>4, <2>1, <3>3
              <4>2. j \in DOMAIN Audit!Content(0)
                  BY <1>4, <2>1, <3>3, <4>1
              <4> QED BY <1>4, <1>t, <2>1, <3>3, <4>1, <4>2 DEF AuditInv, Audit!NewestAreKept
          <3> QED BY <3>1, <3>2, <3>3
      <2>2. ASSUME NEW m \in 0..MaxBackups, NEW n \in 0..MaxBackups, m < n,
                   NEW j \in DOMAIN Audit!Content(m)', NEW k \in DOMAIN Audit!Content(n)'
            PROVE  Audit!Content(n)'[k] < Audit!Content(m)'[j]
          <3>1. n # 0 /\ Audit!Content(n)' = Audit!Content(n)
              BY <1>3, <2>2, AuditAssumption
          <3>2. CASE m # 0 \/ j \in DOMAIN Audit!Content(0)
              BY <1>3, <1>4, <2>2, <3>1, <3>2 DEF AuditInv, Audit!NewestAreKept
          <3>3. CASE m = 0 /\ j = last
              BY <1>4, <1>7, <2>2, <3>1, <3>3
          <3> QED BY <1>4, <2>2, <3>2, <3>3
      <2> QED BY <2>1, <2>2 DEF Ordered
  <1>9. Audit!NewestAreKept'
      <2>1. ASSUME NEW line \in kept', NEW old \in Audit!Present', old < line PROVE line \in Audit!Present'
          <3>1. CASE line = lines
              BY <1>5, <3>1
          <3>2. CASE line # lines
              <4>1. line \in kept /\ line < lines /\ line \in Nat
                  BY <1>6, <1>t, <3>2, <2>1 DEF AuditInv, AuditTypes
              <4>2. old \in Audit!Present
                  BY <1>5, <1>t, <2>1, <4>1
              <4> QED BY <1>5, <2>1, <4>1, <4>2 DEF AuditInv, Audit!NewestAreKept
          <3> QED BY <3>1, <3>2
      <2> QED BY <1>8, <2>1 DEF Audit!NewestAreKept, Ordered
  <1>10. Newer'
      <2>1. \A line \in Audit!Present \cup kept : line \in Nat
          BY PresentTyped DEF AuditInv, AuditTypes
      <2> QED BY <1>5, <1>6, <1>t, <2>1 DEF Newer
  <1>11. AuditTypes'
      BY <1>2, <1>t DEF AuditInv, AuditTypes
  <1> QED BY <1>9, <1>10, <1>11, <1>t DEF AuditInv

LEMMA AuditNext == AuditInv /\ [Audit!Next]_(Audit!vars) => AuditInv'
  <1> SUFFICES ASSUME AuditInv, [Audit!Next]_(Audit!vars) PROVE AuditInv'
      OBVIOUS
  <1>t. AuditTypes
      BY DEF AuditInv
  <1>1. ASSUME UNCHANGED <<logFile, kept>>, lines' \in Nat, logAt' \in {"idle", "open"} \/ UNCHANGED <<logAt, backup>>,
               \/ lines' = lines /\ (logAt' # "idle" => logAt # "idle")
               \/ lines' = lines + 1
        PROVE  AuditInv'
      <2>1. AuditTypes'
          BY <1>1, <1>t DEF AuditTypes
      <2>2. \A n \in 0..MaxBackups : Audit!Content(n)' = Audit!Content(n)
          BY <1>1 DEF Audit!Content
      <2>3. Newer' /\ Audit!NewestAreKept'
          BY <1>1, <2>1, <2>2, SameLines
      <2> QED BY <1>1, <2>1, <2>3 DEF AuditInv
  <1>2. CASE Audit!Log
      BY <1>1, <1>2, <1>t DEF Audit!Log, AuditTypes
  <1>3. CASE Audit!Fail
      BY <1>1, <1>3, <1>t DEF Audit!Fail, AuditTypes
  <1>4. CASE Audit!End
      BY <1>1, <1>4, <1>t DEF Audit!End, AuditTypes
  <1>5. CASE Audit!Open \/ Audit!Reopen
      <2>1. /\ logFile' = Audit!Opened /\ kept' = kept /\ lines' = lines /\ logAt # "idle"
            /\ logAt' \in {"write", "remove"}
          BY <1>5 DEF Audit!Open, Audit!Reopen
      <2>2. /\ \A n \in 0..MaxBackups : Audit!Content(n)' = Audit!Content(n)
            /\ logFile' \in [0..MaxBackups -> Seq(Nat) \cup {NoLog}] /\ logFile'[0] # NoLog
          BY <1>t, <2>1, OpenedContent
      <2>3. AuditTypes'
          BY <1>t, <2>1, <2>2 DEF AuditTypes
      <2>4. Newer' /\ Audit!NewestAreKept'
          BY <2>1, <2>2, <2>3, SameLines
      <2> QED BY <2>1, <2>2, <2>3, <2>4 DEF AuditInv
  <1>6. CASE UNCHANGED Audit!vars
      BY <1>1, <1>6, <1>t DEF Audit!vars, AuditTypes
  <1> QED BY <1>2, <1>3, <1>4, <1>5, <1>6, RemoveStep, RenameStep, WriteStep DEF Audit!Next

LEMMA AuditKept == AuditInv => Audit!NewestAreKept
  BY DEF AuditInv

-----------------------------------------------------------------------------
(* The configuration.                                                      *)

\* How many of the sources have been gone through.
Reached == [user |-> 0, project |-> 1, env |-> 2, overrides |-> 3, build |-> 4, built |-> 4]

\* Patch p sets field f, or field f of server s.
SetBy(p, f) == p.kind = "patch" /\ f \in DOMAIN p.set
ServedBy(p, s, f) == p.kind = "patch" /\ s \in DOMAIN p.servers /\ f \in DOMAIN p.servers[s]

\* Field f of configuration c is from the highest of the first k sources
\* that sets it.
FieldFrom(sources, c, k, f) ==
  \/ (\A m \in 1..k : ~SetBy(sources[m], f)) /\ c.set[f] = Default[f]
  \/ \E n \in 1..k :
       /\ SetBy(sources[n], f) /\ c.set[f] = sources[n].set[f]
       /\ \A m \in (n + 1)..k : ~SetBy(sources[m], f)

Has(c, s, f) == s \in DOMAIN c.servers /\ f \in DOMAIN c.servers[s]

ServerFrom(sources, c, k, s, f) ==
  \/ (\A m \in 1..k : ~ServedBy(sources[m], s, f)) /\ ~Has(c, s, f)
  \/ \E n \in 1..k :
       /\ ServedBy(sources[n], s, f) /\ Has(c, s, f) /\ c.servers[s][f] = sources[n].servers[s][f]
       /\ \A m \in (n + 1)..k : ~ServedBy(sources[m], s, f)

Fields == {"command", "args"}

AllFrom(sources, c, k) ==
  /\ \A f \in Config!Field : f \in DOMAIN c.set /\ FieldFrom(sources, c, k, f)
  /\ \A s \in Server, f \in Fields : ServerFrom(sources, c, k, s, f)

ConfigInv ==
  /\ cfgAt \in {"user", "project", "env", "overrides", "build", "built", "failed"}
  /\ cfgFiles.overrides.kind = "patch"
  /\ cfgAt # "failed" => AllFrom(Config!Layers, cfg, Reached[cfgAt])
  /\ cfgAt = "built" => cfgUsed.key = Config!APIKey /\ cfgUsed.key # ""

-----------------------------------------------------------------------------
\* A patch hides what is below it, and where it says nothing changes nothing.
LEMMA PatchField ==
  ASSUME NEW S, NEW c, NEW k \in 0..3, NEW f, S[k + 1].kind = "patch",
         f \in DOMAIN c.set, FieldFrom(S, c, k, f)
  PROVE  /\ f \in DOMAIN Config!Patched(c, S[k + 1]).set
         /\ FieldFrom(S, Config!Patched(c, S[k + 1]), k + 1, f)
  <1> DEFINE d == Config!Patched(c, S[k + 1])
  <1>1. /\ f \in DOMAIN d.set
        /\ d.set[f] = IF f \in DOMAIN S[k + 1].set THEN S[k + 1].set[f] ELSE c.set[f]
      BY DEF Config!Patched, Config!Over
  <1> HIDE DEF d
  <1>2. CASE f \in DOMAIN S[k + 1].set
    <2>1. SetBy(S[k + 1], f) /\ d.set[f] = S[k + 1].set[f]
        BY <1>1, <1>2 DEF SetBy
    <2>2. k + 1 \in 1..(k + 1) /\ (k + 1 + 1)..(k + 1) = {}
        OBVIOUS
    <2>3. FieldFrom(S, d, k + 1, f)
        BY <2>1, <2>2 DEF FieldFrom
    <2> QED BY <1>1, <2>3 DEF d
  <1>3. CASE f \notin DOMAIN S[k + 1].set
    <2>1. ~SetBy(S[k + 1], f) /\ d.set[f] = c.set[f]
        BY <1>1, <1>3 DEF SetBy
    <2>2. \A m \in 1..(k + 1) : m \in 1..k \/ m = k + 1
        OBVIOUS
    <2>3. FieldFrom(S, d, k + 1, f)
      <3>1. CASE (\A m \in 1..k : ~SetBy(S[m], f)) /\ c.set[f] = Default[f]
          BY <2>1, <2>2, <3>1 DEF FieldFrom
      <3>2. CASE \E n \in 1..k : /\ SetBy(S[n], f) /\ c.set[f] = S[n].set[f]
                                 /\ \A m \in (n + 1)..k : ~SetBy(S[m], f)
        <4>1. PICK n \in 1..k : /\ SetBy(S[n], f) /\ c.set[f] = S[n].set[f]
                                /\ \A m \in (n + 1)..k : ~SetBy(S[m], f)
            BY <3>2
        <4>2. n \in 1..(k + 1) /\ \A m \in (n + 1)..(k + 1) : m \in (n + 1)..k \/ m = k + 1
            OBVIOUS
        <4> QED BY <2>1, <4>1, <4>2 DEF FieldFrom
      <3> QED BY <3>1, <3>2 DEF FieldFrom
    <2> QED BY <1>1, <2>3 DEF d
  <1> QED BY <1>2, <1>3

\* The same for a field of a server.
LEMMA PatchServer ==
  ASSUME NEW S, NEW c, NEW k \in 0..3, NEW s, NEW f, S[k + 1].kind = "patch", ServerFrom(S, c, k, s, f)
  PROVE  ServerFrom(S, Config!Patched(c, S[k + 1]), k + 1, s, f)
  <1> DEFINE d == Config!Patched(c, S[k + 1])
             new == S[k + 1].servers
             old == c.servers
  <1>1. d.servers = Config!MergeServers(new, old)
      BY DEF Config!Patched
  <1>2. /\ DOMAIN d.servers = DOMAIN new \cup DOMAIN old
        /\ \A t \in DOMAIN new \cup DOMAIN old : d.servers[t] =
             IF t \notin DOMAIN new THEN old[t]
             ELSE IF t \notin DOMAIN old THEN new[t] ELSE Config!Over(new[t], old[t])
      BY <1>1 DEF Config!MergeServers
  <1>3. /\ DOMAIN Config!Over(new[s], old[s]) = DOMAIN new[s] \cup DOMAIN old[s]
        /\ \A g \in DOMAIN new[s] \cup DOMAIN old[s] :
             Config!Over(new[s], old[s])[g] = IF g \in DOMAIN new[s] THEN new[s][g] ELSE old[s][g]
      BY DEF Config!Over
  <1> HIDE DEF d
  <1>4. CASE ServedBy(S[k + 1], s, f)
    <2>1. s \in DOMAIN new /\ f \in DOMAIN new[s]
        BY <1>4 DEF ServedBy
    <2>2. s \in DOMAIN d.servers /\ d.servers[s] = IF s \notin DOMAIN old THEN new[s] ELSE Config!Over(new[s], old[s])
        BY <1>2, <2>1
    <2>5. /\ f \in DOMAIN Config!Over(new[s], old[s])
          /\ Config!Over(new[s], old[s])[f] = new[s][f]
        BY <1>3, <2>1
    <2>6. f \in DOMAIN d.servers[s] /\ d.servers[s][f] = new[s][f]
        BY <2>1, <2>2, <2>5
    <2>7. Has(d, s, f) /\ d.servers[s][f] = S[k + 1].servers[s][f]
        BY <2>2, <2>6 DEF Has
    <2>3. k + 1 \in 1..(k + 1) /\ (k + 1 + 1)..(k + 1) = {}
        OBVIOUS
    <2>4. ServerFrom(S, d, k + 1, s, f)
        BY <1>4, <2>7, <2>3 DEF ServerFrom
    <2> QED BY <2>4 DEF d
  <1>5. CASE ~ServedBy(S[k + 1], s, f)
    <2>1. ~(s \in DOMAIN new /\ f \in DOMAIN new[s])
        BY <1>5 DEF ServedBy
    <2>2. (Has(d, s, f) <=> Has(c, s, f)) /\ (Has(c, s, f) => d.servers[s][f] = c.servers[s][f])
      <3>1. CASE s \notin DOMAIN new
          BY <1>2, <3>1 DEF Has
      <3>2. CASE s \in DOMAIN new /\ s \notin DOMAIN old
          BY <1>2, <2>1, <3>2 DEF Has
      <3>3. CASE s \in DOMAIN new /\ s \in DOMAIN old
        <4>1. s \in DOMAIN d.servers /\ d.servers[s] = Config!Over(new[s], old[s])
            BY <1>2, <3>3
        <4>2. f \notin DOMAIN new[s]
            BY <2>1, <3>3
        <4>3. /\ DOMAIN Config!Over(new[s], old[s]) = DOMAIN new[s] \cup DOMAIN old[s]
              /\ f \in DOMAIN old[s] => Config!Over(new[s], old[s])[f] = old[s][f]
            BY <1>3, <4>2
        <4> QED BY <3>3, <4>1, <4>2, <4>3 DEF Has
      <3> QED BY <3>1, <3>2, <3>3
    <2>3. \A m \in 1..(k + 1) : m \in 1..k \/ m = k + 1
        OBVIOUS
    <2>4. ServerFrom(S, d, k + 1, s, f)
      <3>1. CASE (\A m \in 1..k : ~ServedBy(S[m], s, f)) /\ ~Has(c, s, f)
          BY <1>5, <2>2, <2>3, <3>1 DEF ServerFrom
      <3>2. CASE \E n \in 1..k : /\ ServedBy(S[n], s, f) /\ Has(c, s, f) /\ c.servers[s][f] = S[n].servers[s][f]
                                 /\ \A m \in (n + 1)..k : ~ServedBy(S[m], s, f)
        <4>1. PICK n \in 1..k : /\ ServedBy(S[n], s, f) /\ Has(c, s, f) /\ c.servers[s][f] = S[n].servers[s][f]
                                /\ \A m \in (n + 1)..k : ~ServedBy(S[m], s, f)
            BY <3>2
        <4>2. n \in 1..(k + 1) /\ \A m \in (n + 1)..(k + 1) : m \in (n + 1)..k \/ m = k + 1
            OBVIOUS
        <4> QED BY <1>5, <2>2, <4>1, <4>2 DEF ServerFrom
      <3> QED BY <3>1, <3>2 DEF ServerFrom
    <2> QED BY <2>4 DEF d
  <1> QED BY <1>4, <1>5

LEMMA PatchAll ==
  ASSUME NEW S, NEW c, NEW k \in 0..3, S[k + 1].kind = "patch", AllFrom(S, c, k)
  PROVE  AllFrom(S, Config!Patched(c, S[k + 1]), k + 1)
  BY PatchField, PatchServer DEF AllFrom

\* A source that is not there is passed over.
LEMMA PassOver ==
  ASSUME NEW S, NEW c, NEW k \in 0..3, S[k + 1].kind # "patch", AllFrom(S, c, k)
  PROVE  AllFrom(S, c, k + 1)
  <1>1. \A m \in 1..(k + 1) : m \in 1..k \/ m = k + 1
      OBVIOUS
  <1>2. \A n \in 1..k : n \in 1..(k + 1) /\ \A m \in (n + 1)..(k + 1) : m \in (n + 1)..k \/ m = k + 1
      OBVIOUS
  <1>3. ASSUME NEW f \in Config!Field PROVE FieldFrom(S, c, k + 1, f)
    <2>1. ~SetBy(S[k + 1], f) /\ FieldFrom(S, c, k, f)
        BY DEF SetBy, AllFrom
    <2>2. CASE (\A m \in 1..k : ~SetBy(S[m], f)) /\ c.set[f] = Default[f]
        BY <1>1, <2>1, <2>2 DEF FieldFrom
    <2>3. CASE \E n \in 1..k : /\ SetBy(S[n], f) /\ c.set[f] = S[n].set[f]
                               /\ \A m \in (n + 1)..k : ~SetBy(S[m], f)
      <3>1. PICK n \in 1..k : /\ SetBy(S[n], f) /\ c.set[f] = S[n].set[f]
                              /\ \A m \in (n + 1)..k : ~SetBy(S[m], f)
          BY <2>3
      <3>2. \A m \in (n + 1)..(k + 1) : ~SetBy(S[m], f)
          BY <1>2, <2>1, <3>1
      <3> QED BY <1>2, <3>1, <3>2 DEF FieldFrom
    <2> QED BY <2>1, <2>2, <2>3 DEF FieldFrom
  <1>4. ASSUME NEW s \in Server, NEW f \in Fields PROVE ServerFrom(S, c, k + 1, s, f)
    <2>1. ~ServedBy(S[k + 1], s, f) /\ ServerFrom(S, c, k, s, f)
        BY DEF ServedBy, AllFrom
    <2>2. CASE (\A m \in 1..k : ~ServedBy(S[m], s, f)) /\ ~Has(c, s, f)
        BY <1>1, <2>1, <2>2 DEF ServerFrom
    <2>3. CASE \E n \in 1..k : /\ ServedBy(S[n], s, f) /\ Has(c, s, f) /\ c.servers[s][f] = S[n].servers[s][f]
                               /\ \A m \in (n + 1)..k : ~ServedBy(S[m], s, f)
      <3>1. PICK n \in 1..k : /\ ServedBy(S[n], s, f) /\ Has(c, s, f) /\ c.servers[s][f] = S[n].servers[s][f]
                              /\ \A m \in (n + 1)..k : ~ServedBy(S[m], s, f)
          BY <2>3
      <3>2. \A m \in (n + 1)..(k + 1) : ~ServedBy(S[m], s, f)
          BY <1>2, <2>1, <3>1
      <3> QED BY <1>2, <3>1, <3>2 DEF ServerFrom
    <2> QED BY <2>1, <2>2, <2>3 DEF ServerFrom
  <1> QED BY <1>3, <1>4 DEF AllFrom

LEMMA ConfigInitInv == Config!Init => ConfigInv
  <1> SUFFICES ASSUME Config!Init PROVE ConfigInv
      OBVIOUS
  <1>1. /\ cfgAt = "user" /\ cfg = [set |-> Default, servers |-> Config!NoServers]
        /\ cfgFiles.overrides.kind = "patch"
      BY DEF Config!Init
  <1>2. DOMAIN cfg.servers = {}
      BY <1>1 DEF Config!NoServers
  <1>3. Reached[cfgAt] = 0
      BY <1>1 DEF Reached
  <1>4. AllFrom(Config!Layers, cfg, 0)
      BY <1>1, <1>2, ConfigAssumption DEF AllFrom, FieldFrom, ServerFrom, Has
  <1> QED BY <1>1, <1>3, <1>4 DEF ConfigInv

\* The next source is applied or passed over, or the loading fails.
LEMMA ApplyStep ==
  ASSUME ConfigInv, NEW k \in 0..3, UNCHANGED <<cfgFiles, env, cfgUsed>>,
         cfgAt \in {"user", "project", "env", "overrides"}, Reached[cfgAt] = k,
         cfgAt' \in {"project", "env", "overrides", "build", "failed"},
         cfgAt' # "failed" =>
           /\ Reached[cfgAt'] = k + 1
           /\ \/ Config!Layers[k + 1].kind # "patch" /\ cfg' = cfg
              \/ Config!Layers[k + 1].kind = "patch" /\ cfg' = Config!Patched(cfg, Config!Layers[k + 1])
  PROVE  ConfigInv'
  <1>1. Config!Layers' = Config!Layers
      BY DEF Config!Layers
  <1>2. cfgFiles'.overrides.kind = "patch"
      BY DEF ConfigInv
  <1>3. cfgAt' # "failed" => AllFrom(Config!Layers, cfg', k + 1)
    <2>1. AllFrom(Config!Layers, cfg, k)
        BY DEF ConfigInv
    <2> QED BY <2>1, PassOver, PatchAll
  <1> QED BY <1>1, <1>2, <1>3 DEF ConfigInv

LEMMA ConfigNext ==
  ASSUME ConfigInv, [Config!Next]_(Config!vars)
  PROVE  ConfigInv'
  <1>0. /\ Reached["user"] = 0 /\ Reached["project"] = 1 /\ Reached["env"] = 2 /\ Reached["overrides"] = 3
        /\ Reached["build"] = 4 /\ Reached["built"] = 4
        /\ Config!Layers[0 + 1] = cfgFiles.user /\ Config!Layers[1 + 1] = cfgFiles.project
        /\ Config!Layers[2 + 1] = Config!EnvPatch(env) /\ Config!Layers[3 + 1] = cfgFiles.overrides
        /\ Config!EnvPatch(env).kind = "patch"
      BY DEF Reached, Config!Layers, Config!EnvPatch
  <1>1. CASE Config!ApplyUser
    <2>1. /\ UNCHANGED <<cfgFiles, env, cfgUsed>> /\ cfgAt = "user" /\ cfgAt' \in {"project", "failed"}
          /\ cfgAt' # "failed" => \/ cfgFiles.user.kind # "patch" /\ cfg' = cfg
                                  \/ cfgFiles.user.kind = "patch" /\ cfg' = Config!Patched(cfg, cfgFiles.user)
        BY <1>1 DEF Config!ApplyUser, Config!ApplyFile, Config!ApplyPatch
    <2> QED BY <1>0, <2>1, ApplyStep
  <1>2. CASE Config!ApplyProject
    <2>1. /\ UNCHANGED <<cfgFiles, env, cfgUsed>> /\ cfgAt = "project" /\ cfgAt' \in {"env", "failed"}
          /\ cfgAt' # "failed" => \/ cfgFiles.project.kind # "patch" /\ cfg' = cfg
                                  \/ cfgFiles.project.kind = "patch" /\ cfg' = Config!Patched(cfg, cfgFiles.project)
        BY <1>2 DEF Config!ApplyProject, Config!ApplyFile, Config!ApplyPatch
    <2> QED BY <1>0, <2>1, ApplyStep
  <1>3. CASE Config!ApplyEnv
    <2>1. /\ UNCHANGED <<cfgFiles, env, cfgUsed>> /\ cfgAt = "env" /\ cfgAt' \in {"overrides", "failed"}
          /\ cfgAt' # "failed" => cfg' = Config!Patched(cfg, Config!EnvPatch(env))
        BY <1>3 DEF Config!ApplyEnv, Config!ApplyPatch
    <2> QED BY <1>0, <2>1, ApplyStep
  <1>4. CASE Config!ApplyOverrides
    <2>1. /\ UNCHANGED <<cfgFiles, env, cfgUsed>> /\ cfgAt = "overrides" /\ cfgAt' \in {"build", "failed"}
          /\ cfgAt' # "failed" => cfg' = Config!Patched(cfg, cfgFiles.overrides)
        BY <1>4 DEF Config!ApplyOverrides, Config!ApplyPatch
    <2>2. cfgFiles.overrides.kind = "patch"
        BY DEF ConfigInv
    <2> QED BY <1>0, <2>1, <2>2, ApplyStep
  <1>5. CASE Config!Build
    <2>1. /\ UNCHANGED <<cfgFiles, env, cfg>> /\ cfgAt = "build"
          /\ \/ cfgAt' = "failed"
             \/ cfgAt' = "built" /\ cfgUsed'.key = Config!APIKey /\ Config!APIKey # ""
      <3>1. CASE Config!APIKey = ""
          BY <1>5, <3>1 DEF Config!Build
      <3>2. CASE Config!APIKey # ""
        <4>1. cfgUsed' = [key |-> Config!APIKey, web_fetch |-> cfg.set.proxy,
                          web_search |-> Config!ProxyOf(cfg.set.duckduckgo), rounds |-> Config!Rounds]
            BY <1>5, <3>2 DEF Config!Build
        <4> QED BY <1>5, <3>2, <4>1 DEF Config!Build
      <3> QED BY <3>1, <3>2
    <2>2. Config!Layers' = Config!Layers /\ Config!APIKey' = Config!APIKey
        BY <2>1 DEF Config!Layers, Config!APIKey
    <2>3. AllFrom(Config!Layers, cfg, 4)
        BY <1>0, <2>1 DEF ConfigInv
    <2>4. cfgFiles'.overrides.kind = "patch"
        BY <2>1 DEF ConfigInv
    <2> QED BY <1>0, <2>1, <2>2, <2>3, <2>4 DEF ConfigInv
  <1>6. CASE UNCHANGED Config!vars
    <2>1. UNCHANGED <<cfgFiles, env, cfgAt, cfg, cfgUsed>>
        BY <1>6 DEF Config!vars
    <2>2. Config!Layers' = Config!Layers /\ Config!APIKey' = Config!APIKey
        BY <2>1 DEF Config!Layers, Config!APIKey
    <2> QED BY <2>1, <2>2 DEF ConfigInv
  <1> QED BY <1>1, <1>2, <1>3, <1>4, <1>5, <1>6 DEF Config!Next

\* The highest of a few.
LEMMA HighestOf ==
  ASSUME NEW N \in SUBSET (1..4), NEW n \in N, \A m \in (n + 1)..4 : m \notin N
  PROVE  Config!Max(N) = n
  <1>1. \A m \in N : n >= m
      OBVIOUS
  <1>2. \A x \in N : (\A y \in N : x >= y) => x = n
      BY <1>1
  <1> QED BY <1>1, <1>2 DEF Config!Max

\* The lowest of a few.
LEMMA LowestOf ==
  ASSUME NEW N \in SUBSET (1..4), N # {}
  PROVE  Config!Min(N) \in N /\ \A m \in N : Config!Min(N) <= m
  <1>1. \E n \in N : \A m \in N : n <= m
    <2>1. CASE 1 \in N
        BY <2>1
    <2>2. CASE 1 \notin N /\ 2 \in N
        BY <2>2
    <2>3. CASE 1 \notin N /\ 2 \notin N /\ 3 \in N
        BY <2>3
    <2>4. CASE 1 \notin N /\ 2 \notin N /\ 3 \notin N
      <3>1. \A m \in N : m = 4
          BY <2>4
      <3>2. PICK n \in N : n = 4
          BY <3>1
      <3> QED BY <3>1, <3>2
    <2> QED BY <2>1, <2>2, <2>3, <2>4
  <1> QED BY <1>1 DEF Config!Min

LEMMA FourTexts ==
  ASSUME NEW a, NEW b, NEW c, NEW d
  PROVE  DOMAIN <<a, b, c, d>> = 1..4
  OBVIOUS

LEMMA BelowOf ==
  ASSUME NEW n \in 1..4, NEW N, \A m \in N : n <= m
  PROVE  \A k \in 1..(n - 1) : k \in 1..4 /\ k \notin N
  OBVIOUS

\* The first text that is there and not empty.
LEMMA FirstText ==
  ASSUME NEW texts, DOMAIN texts = 1..4, Config!FirstNonEmpty(texts) # ""
  PROVE  \E n \in 1..4 : /\ Config!FirstNonEmpty(texts) = texts[n]
                         /\ \A k \in 1..(n - 1) : texts[k] \in {Unset, ""}
  <1>1. PICK good \in SUBSET (1..4) : good = {n \in DOMAIN texts : texts[n] \notin {Unset, ""}}
      OBVIOUS
  <1>2. good # {} /\ Config!FirstNonEmpty(texts) = texts[Config!Min(good)]
      BY <1>1 DEF Config!FirstNonEmpty
  <1>3. Config!Min(good) \in good /\ \A m \in good : Config!Min(good) <= m
      BY <1>2, LowestOf
  <1>4. PICK n \in 1..4 : n = Config!Min(good)
      BY <1>3
  <1>5. \A k \in 1..(n - 1) : k \in 1..4 /\ k \notin good
    <2>1. \A m \in good : n <= m
        BY <1>3, <1>4
    <2> QED BY <2>1, BelowOf
  <1> QED BY <1>1, <1>2, <1>4, <1>5

LEMMA ConfigWins == ConfigInv => Config!HighestSourceWins
  <1> SUFFICES ASSUME ConfigInv, cfgAt = "built" PROVE Config!HighestSourceWins
      BY DEF Config!HighestSourceWins
  <1>1. AllFrom(Config!Layers, cfg, 4) /\ cfgUsed.key = Config!APIKey /\ cfgUsed.key # ""
      BY DEF ConfigInv, Reached
  <1>2. ASSUME NEW f \in Config!Field
        PROVE  LET n == {m \in 1..4 : Config!SetsField(m, f)}
               IN  cfg.set[f] = IF n = {} THEN Default[f] ELSE Config!Layers[Config!Max(n)].set[f]
    <2> DEFINE N == {m \in 1..4 : Config!SetsField(m, f)}
    <2>1. \A m : Config!SetsField(m, f) <=> SetBy(Config!Layers[m], f)
        BY DEF Config!SetsField, SetBy
    <2>2. FieldFrom(Config!Layers, cfg, 4, f)
        BY <1>1 DEF AllFrom
    <2>3. CASE (\A m \in 1..4 : ~SetBy(Config!Layers[m], f)) /\ cfg.set[f] = Default[f]
        BY <2>1, <2>3
    <2>4. CASE \E n \in 1..4 : /\ SetBy(Config!Layers[n], f) /\ cfg.set[f] = Config!Layers[n].set[f]
                               /\ \A m \in (n + 1)..4 : ~SetBy(Config!Layers[m], f)
      <3>1. PICK n \in 1..4 : /\ SetBy(Config!Layers[n], f) /\ cfg.set[f] = Config!Layers[n].set[f]
                              /\ \A m \in (n + 1)..4 : ~SetBy(Config!Layers[m], f)
          BY <2>4
      <3>2. n \in N /\ \A m \in (n + 1)..4 : m \notin N
          BY <2>1, <3>1
      <3>3. Config!Max(N) = n
          BY <3>2, HighestOf
      <3> QED BY <3>1, <3>2, <3>3
    <2> QED BY <2>2, <2>3, <2>4 DEF FieldFrom
  <1>3. ASSUME NEW s \in Server, NEW f \in Fields
        PROVE  LET n == {m \in 1..4 : Config!SetsServer(m, s, f)}
                   has == s \in DOMAIN cfg.servers /\ f \in DOMAIN cfg.servers[s]
               IN  /\ has <=> n # {}
                   /\ has => cfg.servers[s][f] = Config!Layers[Config!Max(n)].servers[s][f]
    <2> DEFINE N == {m \in 1..4 : Config!SetsServer(m, s, f)}
    <2>1. \A m : Config!SetsServer(m, s, f) <=> ServedBy(Config!Layers[m], s, f)
        BY DEF Config!SetsServer, ServedBy
    <2>2. ServerFrom(Config!Layers, cfg, 4, s, f)
        BY <1>1 DEF AllFrom
    <2>3. CASE (\A m \in 1..4 : ~ServedBy(Config!Layers[m], s, f)) /\ ~Has(cfg, s, f)
        BY <2>1, <2>3 DEF Has
    <2>4. CASE \E n \in 1..4 : /\ ServedBy(Config!Layers[n], s, f) /\ Has(cfg, s, f)
                               /\ cfg.servers[s][f] = Config!Layers[n].servers[s][f]
                               /\ \A m \in (n + 1)..4 : ~ServedBy(Config!Layers[m], s, f)
      <3>1. PICK n \in 1..4 : /\ ServedBy(Config!Layers[n], s, f) /\ Has(cfg, s, f)
                              /\ cfg.servers[s][f] = Config!Layers[n].servers[s][f]
                              /\ \A m \in (n + 1)..4 : ~ServedBy(Config!Layers[m], s, f)
          BY <2>4
      <3>2. n \in N /\ \A m \in (n + 1)..4 : m \notin N
          BY <2>1, <3>1
      <3>3. Config!Max(N) = n
          BY <3>2, HighestOf
      <3> QED BY <3>1, <3>2, <3>3 DEF Has
    <2> QED BY <2>2, <2>3, <2>4 DEF ServerFrom
  <1>4. LET keys == <<env["OPENAI_API_KEY"], env["ICOO_AI_OPENAI_API_KEY"], env["ICOO_AI_API_KEY"], cfg.set.api_key>>
        IN  \E n \in 1..4 : cfgUsed.key = keys[n] /\ cfgUsed.key # "" /\ \A k \in 1..(n - 1) : keys[k] \in {Unset, ""}
    <2> DEFINE keys == <<env["OPENAI_API_KEY"], env["ICOO_AI_OPENAI_API_KEY"], env["ICOO_AI_API_KEY"], cfg.set.api_key>>
    <2>1. DOMAIN keys = 1..4
        BY FourTexts
    <2>2. cfgUsed.key = Config!FirstNonEmpty(keys) /\ cfgUsed.key # ""
        BY <1>1 DEF Config!APIKey
    <2> HIDE DEF keys
    <2>3. \E n \in 1..4 : /\ Config!FirstNonEmpty(keys) = keys[n]
                          /\ \A k \in 1..(n - 1) : keys[k] \in {Unset, ""}
        BY <2>1, <2>2, FirstText
    <2>4. \E n \in 1..4 : cfgUsed.key = keys[n] /\ cfgUsed.key # "" /\ \A k \in 1..(n - 1) : keys[k] \in {Unset, ""}
        BY <2>2, <2>3
    <2> QED BY <2>4 DEF keys
  <1> QED BY <1>2, <1>3, <1>4 DEF Config!HighestSourceWins, Fields

-----------------------------------------------------------------------------
(* The types of the services, as the runs check them, where the invariants *)
(* say less: the counters keep their bounds and the log its size.          *)

ModelTyped ==
  /\ modelAt \in {"ask", "wait", "read", "error", "closed"} /\ attempt \in 1..ModelAttempts
  /\ modelAt = "wait" => attempt < ModelAttempts
  /\ modelLoop \in {"listens", "failed", "done"}
  /\ \A i \in Item : modelCalls[i].id \in {Model!CallId(i), Model!ItemId(i)}
  /\ emitted \subseteq {Model!CallId(i) : i \in Item} \cup {Model!ItemId(i) : i \in Item}

LEMMA ModelTypedInit == Model!Init => ModelTyped
  BY ModelAssumption DEF Model!Init, Model!NoCall, ModelTyped

LEMMA ModelTypedEmit ==
  ASSUME ModelInv, ModelTyped, NEW i \in Item, NEW shape, Model!EmitToolCall(i, shape),
         UNCHANGED <<modelAt, attempt, modelLoop>>
  PROVE  ModelTyped'
  <1> DEFINE id == IF "call" \in shape THEN Model!CallId(i) ELSE modelCalls[i].id
  <1>1. id \in {Model!CallId(i), Model!ItemId(i)}
      BY DEF ModelTyped
  <1>2. \A j \in Item : modelCalls'[j].id = IF j = i THEN id ELSE modelCalls[j].id
      BY DEF Model!EmitToolCall, ModelInv, ModelTypes
  <1>3. emitted' \subseteq emitted \cup {id}
      BY DEF Model!EmitToolCall
  <1> QED BY <1>1, <1>2, <1>3 DEF ModelTyped

LEMMA ModelTypedStep == ModelInv /\ ModelTyped /\ [Model!Next]_(Model!vars) => ModelTyped'
  <1> SUFFICES ASSUME ModelInv, ModelTyped, [Model!Next]_(Model!vars) PROVE ModelTyped'
      OBVIOUS
  <1>1. CASE Model!Ask \/ Model!Wait
      BY <1>1, ModelAssumption DEF Model!Ask, Model!Wait, ModelTyped
  <1>2. CASE Model!Say \/ Model!EndOfStream \/ Model!Take \/ Model!Go \/ Model!EndContext
      BY <1>2 DEF Model!Say, Model!EndOfStream, Model!Take, Model!Go, Model!EndContext, ModelTyped
  <1>3. ASSUME NEW i \in Item, Model!Delta(i) PROVE ModelTyped'
      <2>1. \A j \in Item : modelCalls'[j].id = modelCalls[j].id
          BY <1>3 DEF Model!Delta, ModelInv, ModelTypes, StreamCalls
      <2> QED BY <1>3, <2>1 DEF Model!Delta, ModelTyped
  <1>4. ASSUME NEW i \in Item, Model!ArgumentsDone(i) \/ Model!ItemDone(i) PROVE ModelTyped'
      BY <1>4, ModelTypedEmit DEF Model!ArgumentsDone, Model!ItemDone
  <1>5. CASE UNCHANGED Model!vars
      BY <1>5 DEF Model!vars, ModelTyped
  <1> QED BY <1>1, <1>2, <1>3, <1>4, <1>5 DEF Model!Next

PoolTyped ==
  /\ poolCancelled \subseteq Delegation /\ poolQueue \in 0..QueueSize
  /\ said \in [Delegation -> 0..Deltas] /\ poolHeard \in [Delegation -> 0..Deltas]
  /\ \A c \in Delegation : poolHeard[c] <= said[c]

LEMMA PoolTypedInit == Pool!Init => PoolTyped
  BY PoolAssumption DEF Pool!Init, PoolTyped

\* A slot that is given back was taken: the queue counts the calls that wait.
LEMMA PoolTypedStep == PoolInv /\ PoolTyped /\ [Pool!Next]_(Pool!vars) => PoolTyped'
  <1> SUFFICES ASSUME PoolInv, PoolTyped, [Pool!Next]_(Pool!vars) PROVE PoolTyped'
      OBVIOUS
  <1>1. poolQueue' \in Nat
      <2>1. poolQueue' = IF QueueSize = 0 THEN 0 ELSE Cardinality(Pool!In("wait")')
          BY PoolNext DEF PoolInv, Counted
      <2>2. IsFiniteSet(Pool!In("wait")')
          BY PoolAssumption, FS_Subset DEF Pool!In
      <2> QED BY <2>1, <2>2, FS_CardinalityType
  <1>2. ASSUME NEW c \in Delegation, Pool!Begin(c) \/ Pool!EndContext(c) \/ Pool!EndRun(c) PROVE PoolTyped'
      BY <1>2 DEF Pool!Begin, Pool!EndContext, Pool!EndRun, PoolTyped
  <1>3. ASSUME NEW c \in Delegation, Pool!EnterQueue(c) \/ Pool!Acquire(c) \/ Pool!GiveUp(c) PROVE PoolTyped'
      <2>1. poolQueue' <= QueueSize
          BY <1>3, PoolAssumption DEF Pool!EnterQueue, Pool!Acquire, Pool!GiveUp, Pool!GiveUpQueue, Pool!LeaveQueue,
             PoolTyped
      <2> QED BY <1>1, <1>3, <2>1, PoolAssumption DEF Pool!EnterQueue, Pool!Acquire, Pool!GiveUp, PoolTyped
  <1>4. ASSUME NEW c \in Delegation, Pool!Delta(c) PROVE PoolTyped'
      BY <1>4, PoolAssumption DEF Pool!Delta, PoolTyped
  <1>5. CASE UNCHANGED Pool!vars
      BY <1>5 DEF Pool!vars, PoolTyped
  <1> QED BY <1>2, <1>3, <1>4, <1>5 DEF Pool!Next

\* Nobody waits twice, so that the line is no longer than there are calls.
LEMMA PoolLine == PoolInv => waiting \in Pool!BoundedSeq(Delegation, Pool!Cardinality(Delegation))
  <1> SUFFICES ASSUME PoolInv PROVE waiting \in Pool!BoundedSeq(Delegation, Pool!Cardinality(Delegation))
      OBVIOUS
  <1>1. Len(waiting) \in Nat /\ waiting \in [1..Len(waiting) -> Delegation]
      BY LenProperties DEF PoolInv, PoolTypes
  <1>2. waiting \in Injection(1..Len(waiting), Delegation)
      BY <1>1 DEF PoolInv, Lined, Injection, IsInjective
  <1>3. Len(waiting) <= Cardinality(Delegation) /\ Cardinality(Delegation) \in Nat
      <2>1. Cardinality(1..Len(waiting)) = Len(waiting)
          BY <1>1, FS_Interval
      <2> QED BY <1>2, <2>1, PoolAssumption, FS_Injection, FS_CardinalityType
  <1>4. Pool!Cardinality(Delegation) = Cardinality(Delegation)
      BY PoolCardinality
  <1>5. waiting \in UNION {[1..m -> Delegation] : m \in 0..Cardinality(Delegation)}
      BY <1>1, <1>3
  <1> QED BY <1>4, <1>5 DEF Pool!BoundedSeq, Pool!SeqOf

\* The log that is open has room for a line, and a rotated one is gone.
AuditTyped ==
  /\ \A n \in 0..MaxBackups : logFile[n] # NoLog => Len(logFile[n]) <= Full
  /\ logOpen \in BOOLEAN /\ (logOpen <=> logAt = "write")
  /\ logSize \in 0..Full
  /\ logAt = "write" => logSize = Len(logFile[0]) /\ logSize < Full
  /\ logAt = "reopen" => logFile[0] = NoLog
  /\ lines \in 0..MaxLines /\ kept \subseteq 1..MaxLines
  /\ logAt # "idle" => lines > 0

LEMMA AuditTypedInit == Audit!Init => AuditTyped
  BY AuditAssumption DEF Audit!Init, AuditTyped

LEMMA AuditTypedStep == AuditInv /\ AuditTyped /\ [Audit!Next]_(Audit!vars) => AuditTyped'
  <1> SUFFICES ASSUME AuditInv, AuditTyped, [Audit!Next]_(Audit!vars) PROVE AuditTyped'
      OBVIOUS
  <1>t. /\ logFile \in [0..MaxBackups -> Seq(Nat) \cup {NoLog}] /\ 0 \in 0..MaxBackups
        /\ \A n \in 0..MaxBackups : logFile[n] # NoLog => Len(logFile[n]) \in Nat
      BY AuditAssumption, LenProperties DEF AuditInv, AuditTypes
  <1>o. /\ Audit!Opened \in [0..MaxBackups -> Seq(Nat) \cup {NoLog}] /\ Audit!Opened[0] # NoLog
        /\ Len(Audit!Opened[0]) \in 0..Full
        /\ \A n \in 0..MaxBackups : Audit!Opened[n] # NoLog => Len(Audit!Opened[n]) <= Full
        /\ logFile[0] = NoLog => Len(Audit!Opened[0]) = 0
      <2>1. <<>> \in Seq(Nat) /\ Len(<<>>) = 0
          OBVIOUS
      <2>2. <<>> # NoLog
          BY <2>1, AuditAssumption
      <2> QED BY <1>t, <2>1, <2>2, AuditAssumption DEF Audit!Opened, AuditTyped
  <1>1. CASE Audit!Log \/ Audit!Fail \/ Audit!End
      <2>1. UNCHANGED <<logFile, kept>> /\ logAt' \in {"open", "idle"}
          BY <1>1 DEF Audit!Log, Audit!Fail, Audit!End
      <2>2. lines' \in 0..MaxLines /\ logSize' \in 0..Full /\ (logAt' # "idle" => lines' > 0)
          <3>1. CASE Audit!Log
              BY <3>1, AuditAssumption DEF Audit!Log, AuditTyped
          <3>2. CASE Audit!Fail \/ Audit!End
              <4>1. lines' = lines /\ logAt' = "idle" /\ logSize' \in {logSize, 0}
                  BY <3>2 DEF Audit!Fail, Audit!End
              <4> QED BY <4>1, AuditAssumption DEF AuditTyped
          <3> QED BY <1>1, <3>1, <3>2
      <2>3. ~logOpen' /\ logOpen' \in BOOLEAN
          <3>1. CASE Audit!Log
              BY <3>1 DEF Audit!Log, AuditTyped
          <3>2. CASE Audit!Fail
              BY <3>2 DEF Audit!Fail, AuditTyped
          <3>3. CASE Audit!End
              BY <3>3 DEF Audit!End
          <3> QED BY <1>1, <3>1, <3>2, <3>3
      <2> QED BY <2>1, <2>2, <2>3 DEF AuditTyped
  <1>2. CASE Audit!Open
      BY <1>2, <1>o, AuditAssumption DEF Audit!Open, AuditTyped
  <1>3. CASE Audit!RemoveOldest
      BY <1>3, <1>t, AuditAssumption DEF Audit!RemoveOldest, AuditTyped
  <1>4. CASE Audit!Rename
      <2>1. backup \in 1..MaxBackups /\ backup - 1 \in 0..MaxBackups /\ backup \in 0..MaxBackups
          BY <1>4, AuditAssumption DEF Audit!Rename, AuditInv
      <2>2. logFile' = IF logFile[backup - 1] = NoLog THEN logFile
                       ELSE [logFile EXCEPT ![backup] = logFile[backup - 1], ![backup - 1] = NoLog]
          BY <1>4 DEF Audit!Rename, Audit!Descending
      <2>3. \A n \in 0..MaxBackups : logFile'[n] # NoLog => Len(logFile'[n]) <= Full
          BY <1>t, <2>1, <2>2 DEF AuditTyped
      <2>4. logFile'[backup - 1] = NoLog
          BY <1>t, <2>1, <2>2
      <2>5. /\ UNCHANGED <<logOpen, logSize, lines, kept>> /\ logAt = "rename"
            /\ logAt' = IF backup = 1 THEN "reopen" ELSE "rename"
          BY <1>4 DEF Audit!Rename
      <2>6. logAt' = "reopen" => logFile'[0] = NoLog
          BY <2>1, <2>4, <2>5
      <2> QED BY <2>3, <2>5, <2>6 DEF AuditTyped
  <1>5. CASE Audit!Reopen
      BY <1>5, <1>o, AuditAssumption DEF Audit!Reopen, AuditTyped
  <1>6. CASE Audit!Write
      <2>1. logFile[0] \in Seq(Nat) /\ lines \in Nat
          BY <1>6, <1>t DEF Audit!Write, AuditInv, AuditTypes
      <2>2. Len(Append(logFile[0], lines)) = Len(logFile[0]) + 1
          BY <2>1, AppendProperties
      <2>3. \A n \in 0..MaxBackups : logFile'[n] = IF n = 0 THEN Append(logFile[0], lines) ELSE logFile[n]
          BY <1>6, <1>t DEF Audit!Write
      <2>4. \A n \in 0..MaxBackups : logFile'[n] # NoLog => Len(logFile'[n]) <= Full
          BY <1>6, <1>t, <2>2, <2>3, AuditAssumption DEF Audit!Write, AuditTyped
      <2>5. /\ logOpen' = FALSE /\ logAt' = "idle" /\ lines' = lines /\ kept' \subseteq kept \cup {lines}
            /\ logSize' = logSize + 1 /\ logAt = "write"
          BY <1>6 DEF Audit!Write
      <2>6. logSize' \in 0..Full /\ lines \in 1..MaxLines
          BY <2>5, AuditAssumption DEF AuditTyped
      <2> QED BY <2>4, <2>5, <2>6 DEF AuditTyped
  <1>7. CASE UNCHANGED Audit!vars
      BY <1>7 DEF Audit!vars, AuditTyped
  <1> QED BY <1>1, <1>2, <1>3, <1>4, <1>5, <1>6, <1>7 DEF Audit!Next

ConfigTyped ==
  /\ cfgFiles \in [user : Layer, project : Layer, overrides : {l \in Layer : l.kind = "patch"}]
  /\ DOMAIN cfg.set = Config!Field /\ DOMAIN cfg.servers \subseteq Server
  /\ cfgUsed = Unset \/ cfgUsed.rounds > 0

LEMMA ConfigTypedInit == Config!Init => ConfigTyped
  BY ConfigAssumption DEF Config!Init, Config!NoServers, ConfigTyped

LEMMA ConfigTypedPatch ==
  ASSUME ConfigTyped, NEW patch, DOMAIN patch.set \subseteq Config!Field, DOMAIN patch.servers \subseteq Server,
         NEW next, Config!ApplyPatch(patch, next)
  PROVE  ConfigTyped'
  <1>1. DOMAIN cfg'.set = DOMAIN patch.set \cup DOMAIN cfg.set
      BY DEF Config!ApplyPatch, Config!Patched, Config!Over
  <1>2. DOMAIN cfg'.servers = DOMAIN patch.servers \cup DOMAIN cfg.servers
      BY DEF Config!ApplyPatch, Config!Patched, Config!MergeServers
  <1> QED BY <1>1, <1>2 DEF Config!ApplyPatch, ConfigTyped

LEMMA ConfigTypedStep == ConfigTyped /\ [Config!Next]_(Config!vars) => ConfigTyped'
  <1> SUFFICES ASSUME ConfigTyped, [Config!Next]_(Config!vars) PROVE ConfigTyped'
      OBVIOUS
  <1>1. ASSUME NEW layer \in Layer, NEW here, NEW next, Config!ApplyFile(layer, here, next) PROVE ConfigTyped'
      <2>1. CASE layer.kind = "patch" /\ Config!ApplyPatch(layer, next)
          BY <2>1, ConfigAssumption, ConfigTypedPatch
      <2>2. CASE UNCHANGED <<cfgFiles, env, cfg, cfgUsed>>
          BY <2>2 DEF ConfigTyped
      <2> QED BY <1>1, <2>1, <2>2 DEF Config!ApplyFile
  <1>2. CASE Config!ApplyUser \/ Config!ApplyProject
      BY <1>1, <1>2 DEF Config!ApplyUser, Config!ApplyProject, ConfigTyped
  <1>3. CASE Config!ApplyEnv
      <2>1. CASE Config!ApplyPatch(Config!EnvPatch(env), "overrides")
          <3> DEFINE patch == Config!EnvPatch(env)
          <3>1. DOMAIN patch.servers = {}
              BY DEF Config!EnvPatch, Config!NoServers
          <3>2. DOMAIN patch.set \subseteq {"api_key", "proxy", "rounds"}
              BY DEF Config!EnvPatch, Config!Over, Config!SetString, Config!SetInt
          <3>3. DOMAIN patch.set \subseteq Config!Field
              BY <3>2 DEF Config!Field
          <3> HIDE DEF patch
          <3> QED BY <2>1, <3>1, <3>3, ConfigTypedPatch DEF patch
      <2>2. CASE UNCHANGED <<cfgFiles, env, cfg, cfgUsed>>
          BY <2>2 DEF ConfigTyped
      <2> QED BY <1>3, <2>1, <2>2 DEF Config!ApplyEnv
  <1>4. CASE Config!ApplyOverrides
      BY <1>4, ConfigAssumption, ConfigTypedPatch DEF Config!ApplyOverrides, ConfigTyped
  <1>5. CASE Config!Build
      <2>0. /\ UNCHANGED <<cfgFiles, env, cfg>>
            /\ \/ cfgUsed' = cfgUsed
               \/ cfgUsed' = [key |-> Config!APIKey, web_fetch |-> cfg.set.proxy,
                              web_search |-> Config!ProxyOf(cfg.set.duckduckgo), rounds |-> Config!Rounds]
          BY <1>5 DEF Config!Build
      <2>1. UNCHANGED <<cfgFiles, env, cfg>> /\ (cfgUsed' = cfgUsed \/ cfgUsed'.rounds = Config!Rounds)
          BY <2>0
      <2>2. Config!Rounds > 0
          BY DEF Config!Rounds
      <2> QED BY <2>1, <2>2 DEF ConfigTyped
  <1>6. CASE UNCHANGED Config!vars
      BY <1>6 DEF Config!vars, ConfigTyped
  <1> QED BY <1>2, <1>3, <1>4, <1>5, <1>6 DEF Config!Next

-----------------------------------------------------------------------------
(* The services together.                                                  *)

\* A step of the services is a step of each of them, or leaves it alone.
LEMMA ServiceSteps ==
  ASSUME [ServicesNext]_serviceVars
  PROVE  [Model!Next]_(Model!vars) /\ [Pool!Next]_(Pool!vars) /\ [Audit!Next]_(Audit!vars)
         /\ [Config!Next]_(Config!vars)
  <1> USE DEF serviceVars, modelVars, poolVars, auditVars, configVars, Model!vars, Pool!vars, Audit!vars, Config!vars
  <1>1. CASE UNCHANGED serviceVars
      BY <1>1
  <1>2. CASE Model!Next /\ UNCHANGED <<poolVars, auditVars, configVars>>
      BY <1>2
  <1>3. CASE Pool!Next /\ UNCHANGED <<modelVars, auditVars, configVars>>
      BY <1>3
  <1>4. CASE Audit!Next /\ UNCHANGED <<modelVars, poolVars, configVars>>
      BY <1>4
  <1>5. CASE Config!Next /\ UNCHANGED <<modelVars, poolVars, auditVars>>
      BY <1>5
  <1> QED BY <1>1, <1>2, <1>3, <1>4, <1>5 DEF ServicesNext

(* Each tool call the loop is handed has all its arguments, in order, its  *)
(* own id, and is handed once, in whatever order the pieces and the final  *)
(* events of several calls arrive (llm/openai_responses.go).               *)
THEOREM CallsStayWhole == ServicesSpec => []CallsAreWhole
  <1>1. ServicesInit => ModelInv
      BY ModelInitInv DEF ServicesInit
  <1>2. ModelInv /\ [ServicesNext]_serviceVars => ModelInv'
      BY ServiceSteps, ModelNext
  <1>3. ModelInv => CallsAreWhole
      BY ModelWhole DEF CallsAreWhole
  <1> QED BY <1>1, <1>2, <1>3, PTL DEF ServicesSpec

(* Whoever gives up, is cancelled or ends: the queue counts the calls that *)
(* wait, each has one place in the line, the slots count those that run,   *)
(* no more than the limit, and no call that runs lost what its sub-agent   *)
(* said (subagent/runner.go).                                              *)
THEOREM SlotsStayReturned == ServicesSpec => []SlotsAreReturned
  <1>1. ServicesInit => PoolInv
      BY PoolInitInv DEF ServicesInit
  <1>2. PoolInv /\ [ServicesNext]_serviceVars => PoolInv'
      BY ServiceSteps, PoolNext
  <1>3. PoolInv => SlotsAreReturned
      BY PoolReturned DEF SlotsAreReturned
  <1> QED BY <1>1, <1>2, <1>3, PTL DEF ServicesSpec

(* Wherever an operation on a file failed or the process ended: the log    *)
(* and its backups hold the lines in the order they were logged, and only  *)
(* lines older than all of these are gone (audit/logger.go).               *)
THEOREM NewestStay == ServicesSpec => []NewestAreKept
  <1>1. ServicesInit => AuditInv
      BY AuditInitInv DEF ServicesInit
  <1>2. AuditInv /\ [ServicesNext]_serviceVars => AuditInv'
      BY ServiceSteps, AuditNext
  <1>3. AuditInv => NewestAreKept
      BY DEF AuditInv, NewestAreKept
  <1> QED BY <1>1, <1>2, <1>3, PTL DEF ServicesSpec

(* Whatever the layers set, leave out or empty, and however the servers of *)
(* several layers are merged: an agent that was built works with what the  *)
(* highest source that sets a field gives it (config/patch.go, loader.go). *)
THEOREM HighestSourceStands == ServicesSpec => []HighestSourceWins
  <1>1. ServicesInit => ConfigInv
      BY ConfigInitInv DEF ServicesInit
  <1>2. ConfigInv /\ [ServicesNext]_serviceVars => ConfigInv'
      BY ServiceSteps, ConfigNext
  <1>3. ConfigInv => HighestSourceWins
      BY ConfigWins DEF HighestSourceWins
  <1> QED BY <1>1, <1>2, <1>3, PTL DEF ServicesSpec
(* Every variable of the services keeps its type, for any answers of the   *)
(* model, delegations, sizes of the log and layers of the configuration.   *)
THEOREM ServicesAreTyped == ServicesSpec => []ServiceTypes
  <1> DEFINE Inv == /\ ModelInv /\ ModelTyped /\ PoolInv /\ PoolTyped
                    /\ AuditInv /\ AuditTyped /\ ConfigInv /\ ConfigTyped
  <1>1. ServicesInit => Inv
      BY ModelInitInv, ModelTypedInit, PoolInitInv, PoolTypedInit, AuditInitInv, AuditTypedInit, ConfigInitInv,
         ConfigTypedInit DEF ServicesInit
  <1>2. Inv /\ [ServicesNext]_serviceVars => Inv'
      BY ServiceSteps, ModelNext, ModelTypedStep, PoolNext, PoolTypedStep, AuditNext, AuditTypedStep, ConfigNext,
         ConfigTypedStep
  <1>3. Inv => ServiceTypes
      <2> SUFFICES ASSUME Inv PROVE ServiceTypes
          OBVIOUS
      <2>1. Model!TypeOK
          <3>1. \A n \in 0..Pieces : Len(Beginning(n)) = n
              BY ModelAssumption DEF Beginning
          <3>2. Len(Model!Whole) = Pieces
              BY ModelAssumption DEF Model!Whole
          <3>3. \A i \in Item : /\ model[i].pieces \in 0..Pieces /\ modelCalls[i].named \in BOOLEAN
                                /\ Len(modelCalls[i].arguments) <= Pieces
              BY <3>1, <3>2, ModelAssumption, ModelFields DEF ModelInv, CallSound
          <3> QED BY <3>3 DEF ModelTyped, Model!TypeOK
      <2>2. Pool!TypeOK
          BY PoolLine, PoolCounts, PoolAssumption DEF PoolInv, PoolTypes, Counted, PoolTyped, Pool!TypeOK
      <2>3. Audit!TypeOK
          BY DEF AuditInv, AuditTypes, AuditTyped, Audit!TypeOK
      <2>4. Config!TypeOK
          BY DEF ConfigInv, ConfigTyped, Config!TypeOK
      <2> QED BY <2>1, <2>2, <2>3, <2>4 DEF ServiceTypes
  <1> QED BY <1>1, <1>2, <1>3, PTL DEF ServicesSpec

-----------------------------------------------------------------------------
(* The whole agent, as the model of MCAgent runs it: a step is a step of   *)
(* its loop, of its tools or of its services, and the others stay.         *)

LEMMA AgentSteps ==
  ASSUME [AgentNext]_<<hostVars, toolVars, serviceVars>>
  PROVE  [Next]_vars /\ [ToolsNext]_toolVars /\ [ServicesNext]_serviceVars
  <1>1. CASE UNCHANGED <<hostVars, toolVars, serviceVars>>
      BY <1>1 DEF hostVars
  <1>2. CASE Next /\ UNCHANGED <<part, toolVars, serviceVars>>
      BY <1>2
  <1>3. CASE Guard!Next /\ Others /\ UNCHANGED <<netVars, fileVars, skillVars>>
      BY <1>3 DEF Others, hostVars, ToolsNext
  <1>4. CASE Network!Next /\ Others /\ UNCHANGED <<mode, guardVars, fileVars, skillVars>>
      BY <1>4 DEF Others, hostVars, ToolsNext
  <1>5. CASE Files!Next /\ Others /\ UNCHANGED <<mode, guardVars, netVars, skillVars>>
      BY <1>5 DEF Others, hostVars, ToolsNext
  <1>6. CASE Skill!Next /\ Others /\ UNCHANGED <<guardVars, netVars, fileVars>>
      BY <1>6 DEF Others, hostVars, ToolsNext
  <1>7. CASE Model!Next /\ UNCHANGED <<hostVars, toolVars, poolVars, auditVars, configVars>>
      BY <1>7 DEF hostVars, ServicesNext
  <1>8. CASE Pool!Next /\ UNCHANGED <<hostVars, toolVars, modelVars, auditVars, configVars>>
      BY <1>8 DEF hostVars, ServicesNext
  <1>9. CASE Audit!Next /\ UNCHANGED <<hostVars, toolVars, modelVars, poolVars, configVars>>
      BY <1>9 DEF hostVars, ServicesNext
  <1>10. CASE Config!Next /\ UNCHANGED <<hostVars, toolVars, modelVars, poolVars, auditVars>>
      BY <1>10 DEF hostVars, ServicesNext
  <1> QED BY <1>1, <1>2, <1>3, <1>4, <1>5, <1>6, <1>7, <1>8, <1>9, <1>10 DEF AgentNext

\* What the runs of MCAgent check are behaviours of the loop, of the tools
\* and of the services, so what is proved of these holds there.
THEOREM AgentIsComposed == AgentSpec => Spec /\ ToolsSpec /\ ServicesSpec
  <1>1. AgentInit => Init /\ ToolsInit /\ ServicesInit
      BY DEF AgentInit
  <1> QED BY <1>1, AgentSteps, PTL DEF AgentSpec, Spec, ToolsSpec, ServicesSpec

\* Every variable of the agent's modules keeps its type, whichever part runs.
THEOREM AgentIsTyped == AgentSpec => []Types
  <1>1. TypeOK /\ ToolTypes /\ ServiceTypes => Types
      BY DEF ToolTypes, ServiceTypes, Types
  <1> QED BY <1>1, AgentIsComposed, RuntimeTypes, ToolsAreTyped, ServicesAreTyped, PTL
=============================================================================
