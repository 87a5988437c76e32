----------------------------- MODULE MCOrderFlow -----------------------------
(* TLC instance of OrderFlow: two Submit calls and one or two Cancel calls.  *)
EXTENDS OrderFlowClaims

OwnClient    == [s \in Submissions |-> s]
SharedClient == [s \in Submissions |-> 1]

MCTradeKeys == OrderIds \X (1..2)
=============================================================================
