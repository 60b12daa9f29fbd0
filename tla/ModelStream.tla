---------------------------- MODULE ModelStream ----------------------------
(***************************************************************************)
(* One request to the model (llm/openai_responses.go): it is sent again    *)
(* after an error or a busy answer, and the answer is a stream of events   *)
(* in which the arguments of several tool calls arrive in pieces, in any   *)
(* order.  A goroutine reads the stream and hands the loop what it found   *)
(* over an unbuffered channel, so that each event is either taken or lost  *)
(* with the request's context.  The text of lines, headers and errors and  *)
(* the delays are left out.                                                *)
(***************************************************************************)
EXTENDS Naturals, FiniteSets, Sequences

CONSTANTS
  Item,       \* the tool calls of an answer
  Pieces,     \* the pieces the arguments of a call come in
  Shapes,     \* what the final events carry: subsets of {"name", "call", "whole"}
  Attempts,   \* RetryConfig.MaxAttempts (3)
  None

VARIABLES
  at,        \* the request: "ask", "wait", "read", "error", "closed"
  attempt,
  model,     \* the model's side of each call: pieces sent, final events sent
  calls,     \* openAIStreamState.toolCalls: arguments, name and id of each
  emitted,   \* openAIStreamState.emitted
  out,       \* the event the reader offers, or None
  got,       \* history: the tool calls the loop took
  loop       \* the loop: "listens", "failed" or "done"

vars == <<at, attempt, model, calls, emitted, out, got, loop>>

Whole == [n \in 1..Pieces |-> n]

\* The ids the final events give a call: its own, or its item's.
CallId(i) == <<"call", i>>
ItemId(i) == <<"item", i>>

\* toolCall's zero value
NoCall(i) == [id |-> ItemId(i), named |-> FALSE, arguments |-> <<>>]

Init ==
  /\ at = "ask" /\ attempt = 1
  /\ model = [i \in Item |-> [pieces |-> 0, arguments |-> FALSE, item |-> FALSE]]
  /\ calls = [i \in Item |-> NoCall(i)]
  /\ emitted = {} /\ out = None /\ got = <<>> /\ loop = "listens"

-----------------------------------------------------------------------------
(* doWithRetry: only an answer with a good status is read, and it is the   *)
(* last one asked for.                                                     *)

Ask ==
  /\ at = "ask"
  /\ \/ at' = "read"
     \/ at' \in {"error"} \cup (IF attempt < Attempts THEN {"wait"} ELSE {})
  /\ UNCHANGED <<attempt, model, calls, emitted, out, got, loop>>

\* retrySleeper: the wait, unless the context ends.
Wait ==
  /\ at = "wait"
  /\ \/ at' = "ask" /\ attempt' = attempt + 1
     \/ at' = "error" /\ UNCHANGED attempt
  /\ UNCHANGED <<model, calls, emitted, out, got, loop>>

-----------------------------------------------------------------------------
Reading == at = "read" /\ out = None

Delta(i) ==
  /\ Reading
  /\ model[i].pieces < Pieces /\ ~model[i].arguments /\ ~model[i].item
  /\ model' = [model EXCEPT ![i].pieces = @ + 1]
  /\ calls' = [calls EXCEPT ![i].arguments = Append(@, model[i].pieces + 1)]
  /\ UNCHANGED <<at, attempt, emitted, out, got, loop>>

\* Defective variant: the whole arguments are added to what came before.
ArgumentsAppended(i, shape) ==
  IF "whole" \in shape THEN calls[i].arguments \o Whole ELSE calls[i].arguments

\* An event that carries the arguments replaces the pieces.
Arguments(i, shape) == IF "whole" \in shape THEN Whole ELSE calls[i].arguments

\* emitOpenAIToolCall
EmitToolCall(i, shape) ==
  LET call == [id |-> IF "call" \in shape THEN CallId(i) ELSE calls[i].id,
               named |-> calls[i].named \/ "name" \in shape,
               arguments |-> Arguments(i, shape)]
  IN  /\ calls' = [calls EXCEPT ![i] = call]
      /\ IF call.named /\ call.id \notin emitted
         THEN /\ emitted' = emitted \cup {call.id}
              /\ out' = [type |-> "tool_call", item |-> i, id |-> call.id, arguments |-> call.arguments]
         ELSE UNCHANGED <<emitted, out>>

\* The model may leave out the pieces when the final events have them all.
Finished(i, shape) == model[i].pieces = Pieces \/ (model[i].pieces = 0 /\ "whole" \in shape)

ArgumentsDone(i) ==
  /\ Reading /\ ~model[i].arguments /\ ~model[i].item
  /\ \E shape \in Shapes : Finished(i, shape) /\ EmitToolCall(i, shape)
  /\ model' = [model EXCEPT ![i].arguments = TRUE]
  /\ UNCHANGED <<at, attempt, got, loop>>

\* The item's own final event names the call and its id.
ItemDone(i) ==
  /\ Reading /\ ~model[i].item
  /\ \E shape \in {{"name", "call"}, {"name", "call", "whole"}} : Finished(i, shape) /\ EmitToolCall(i, shape)
  /\ model' = [model EXCEPT ![i].item = TRUE]
  /\ UNCHANGED <<at, attempt, got, loop>>

\* Text; the end of the response, which does not end the reading; a failure
\* the model reports, or an event that cannot be decoded.
Say ==
  /\ Reading
  /\ out' \in {[type |-> t] : t \in {"message_delta", "completed", "failed"}}
  /\ UNCHANGED <<at, attempt, model, calls, emitted, got, loop>>

\* The stream ends, wherever it is, or breaks, which is told.
EndOfStream ==
  /\ Reading
  /\ at' = "closed"
  /\ out' \in {None, [type |-> "failed"]}
  /\ UNCHANGED <<attempt, model, calls, emitted, got, loop>>

\* The loop takes what is offered; a failure is the last thing it takes.
Take ==
  /\ out # None /\ loop = "listens"
  /\ out' = None
  /\ got' = IF out.type = "tool_call" THEN Append(got, out) ELSE got
  /\ loop' = IF out.type = "failed" THEN "failed" ELSE loop
  /\ UNCHANGED <<at, attempt, model, calls, emitted>>

\* The channel is closed and the loop goes on with the calls it took.
Go ==
  /\ at = "closed" /\ out = None /\ loop = "listens"
  /\ loop' = "done"
  /\ UNCHANGED <<at, attempt, model, calls, emitted, out, got>>

\* emitCompletionEvent gives up with the context, and the reader with it.
EndContext ==
  /\ at = "read" /\ out # None
  /\ at' = "closed" /\ out' = None
  /\ UNCHANGED <<attempt, model, calls, emitted, got, loop>>

Next ==
  \/ Ask \/ Wait \/ Say \/ EndOfStream \/ Take \/ Go \/ EndContext
  \/ \E i \in Item : Delta(i) \/ ArgumentsDone(i) \/ ItemDone(i)

Spec == Init /\ [][Next]_vars

-----------------------------------------------------------------------------
TypeOK ==
  /\ at \in {"ask", "wait", "read", "error", "closed"} /\ attempt \in 1..Attempts
  /\ loop \in {"listens", "failed", "done"}
  /\ \A i \in Item : /\ model[i].pieces \in 0..Pieces
                     /\ calls[i].id \in {CallId(i), ItemId(i)} /\ calls[i].named \in BOOLEAN
                     /\ Len(calls[i].arguments) <= Pieces
  /\ emitted \subseteq {CallId(i) : i \in Item} \cup {ItemId(i) : i \in Item}

(* However the pieces of several calls are mixed, with or without the      *)
(* first of the two final events, and wherever the stream ends: the loop   *)
(* gets a call once, after the model finished its arguments, with all of   *)
(* them, and under the id that the model gave the call.                    *)
CallsAreWhole ==
  /\ \A n \in 1..Len(got) : /\ got[n].arguments = Whole
                            /\ got[n].id = CallId(got[n].item)
                            /\ model[got[n].item].arguments \/ model[got[n].item].item
  /\ \A m, n \in 1..Len(got) : got[m].item = got[n].item => m = n
=============================================================================
