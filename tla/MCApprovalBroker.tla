-------------------------- MODULE MCApprovalBroker --------------------------
(***************************************************************************)
(* A small instance of ApprovalBroker: the first request offers an option  *)
(* of two kinds, the second only one that allows, so that a decision word  *)
(* may name no offered option.                                             *)
(***************************************************************************)
EXTENDS ApprovalBroker

CONSTANTS r1, r2, allow, reject

MCRequest == {r1, r2}
MCOptionId == {allow, reject}
MCOffer ==
  [r \in MCRequest |->
     IF r = r1
     THEN <<[id |-> allow, kind |-> "allow_always"], [id |-> reject, kind |-> "reject_once"]>>
     ELSE <<[id |-> allow, kind |-> "allow_once"]>>]
=============================================================================
