---------------------------- MODULE MCSSEBroker ----------------------------
(* An instance of SSEBroker for TLC.                                       *)
EXTENDS SSEBroker, TLC

CONSTANTS u1, u2, c1, c2

\* Two users, a connection each.
TwoUsers == c1 :> u1 @@ c2 :> u2

\* Enough events of a lab for one to be missed between two others.
MessageLimits == [t \in Topics |-> IF t = QuotaTopic THEN 1 ELSE 3]
=============================================================================
