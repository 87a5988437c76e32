-------------------------- MODULE MCEventReactorLoop --------------------------
(* TLC instance of EventReactorLoop: a lane that refuses at two events and a *)
(* lane that drops its oldest at one.                                        *)
EXTENDS EventReactorClaims

MCPolicies == {[capacity |-> 2, drop_oldest |-> FALSE],
               [capacity |-> 1, drop_oldest |-> TRUE]}
=============================================================================
