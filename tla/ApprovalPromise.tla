--------------------------- MODULE ApprovalPromise ---------------------------
(***************************************************************************)
(* What the gateway's approval broker promises, with no goroutine, channel *)
(* or event: a permission request is asked once, settled once, and the     *)
(* agent that asked is answered once, either with the settled outcome or   *)
(* with the news that its own call was cancelled - which it hears only     *)
(* after the request has been settled.                                     *)
(***************************************************************************)

CONSTANTS
  Request,      \* permission requests
  Outcome,      \* what a request can be settled with
  Unasked,      \* decision of a request that is not made yet
  Open,         \* decision of a request that waits for one
  NoAnswer,     \* the requester has not returned
  Abandoned     \* the requester returned "request cancelled"

VARIABLES decision, answer

vars == <<decision, answer>>

Init ==
  /\ decision = [r \in Request |-> Unasked]
  /\ answer = [r \in Request |-> NoAnswer]

Ask(r) ==
  /\ decision[r] = Unasked
  /\ decision' = [decision EXCEPT ![r] = Open]
  /\ UNCHANGED answer

Settle(r, o) ==
  /\ decision[r] = Open
  /\ decision' = [decision EXCEPT ![r] = o]
  /\ UNCHANGED answer

Return(r) ==
  /\ decision[r] \in Outcome
  /\ answer[r] = NoAnswer
  /\ answer' \in {[answer EXCEPT ![r] = a] : a \in {decision[r], Abandoned}}
  /\ UNCHANGED decision

Next == \E r \in Request : Ask(r) \/ Return(r) \/ \E o \in Outcome : Settle(r, o)

Safety == Init /\ [][Next]_vars

Spec == Safety /\ \A r \in Request : WF_vars(Return(r))
=============================================================================
