------------------------- MODULE EngineLifecycleClaims -------------------------
(***************************************************************************)
(* What documents and comments say of the engine's lifecycle, where the    *)
(* code does something else.  Each is refuted by its own configuration.    *)
(***************************************************************************)
EXTENDS EngineLifecycle

\* docs/Architecture.md:646, with an unhealthy market the engine must not become
\* READY.  AdvanceReadyGates reads IsHealthy and changes the state steps later;
\* an invalid tick in between finds the engine Initiated and freezes nothing.
ReadyOnlyIfHealthy ==
  [][state # "Ready" /\ state' = "Ready" => healthy]_vars

\* docs/Architecture.md:646, with an expired configuration the engine must not
\* become READY.  During Init the freeze is an illegal transition and is ignored.
ExpiredNeverReady == state = "Ready" => config # "expired"

\* trading_engine.cpp:844, a recovered market resumes an engine that was frozen
\* for it.  The notifications of the monitor's thread and of the tick callback
\* may arrive in the other order, or the later reason be overwritten.
RecoveryResumes ==
  (running /\ healthy /\ state = "Frozen") ~> (~running \/ ~healthy \/ state # "Frozen")

\* core/quote_health_monitor.hpp:4, the monitor tells the READY gate of a silent
\* feed.  An invalid tick may overtake the transition to Ready, and a market that
\* is unhealthy already is not looked at again (quote_health_monitor.cpp:108).
SilentFeedFreezes ==
  (state = "Ready" /\ running /\ tick = "stale") ~> (state # "Ready" \/ tick # "stale")

\* docs/Architecture.md:643, only READY takes new orders.  The sender checks
\* IsReady once, before the pipeline runs.
OnlyReadyTakesOrders ==
  [][sender = "submit" /\ sender' = "idle" => state = "Ready"]_vars

\* core/engine_lifecycle.hpp, Reason() is the reason of the last transition.  The
\* reason is written after the compare-and-swap, by whoever comes last.
ReasonIsOfLastTransition ==
  (\A t \in Threads : call[t].at # "reason") => reason = lastReason

\* docs/Architecture.md:645, once the engine drains it takes no new orders.  When
\* the swap to Draining loses against a notification, Stop goes on regardless and
\* a recovery may make the engine Ready while its modules are being released.
DrainingIsNotReady ==
  control \in {"release", "join", "disconnect"} => state # "Ready"
=============================================================================
