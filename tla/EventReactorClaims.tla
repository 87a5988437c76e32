-------------------------- MODULE EventReactorClaims --------------------------
(***************************************************************************)
(* What the headers of event_bus/ say of the reactor loop, where the code  *)
(* does something else.  Each is refuted by a configuration of its own.    *)
(***************************************************************************)
EXTENDS EventReactorLoop

\* event_reactor_loop.hpp:52 and :73, Stop makes sure that the reactor thread
\* exits and joins it.  Its flag and its notification both fall between the test
\* and the wait of a consumer that then waits for good.
StopReturns == (control = "join") ~> (control = "idle")

\* event_reactor_loop.cpp:51, Stop first closes the producers' entrance and then
\* has the consumer leave.  It clears running_ before accepting_, and a consumer
\* that leaves in between leaves Publish answering true for events that nobody
\* will handle.
EntranceClosesFirst == consumer = "exited" => ~accepting
=============================================================================
