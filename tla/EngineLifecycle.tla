---------------------------- MODULE EngineLifecycle ----------------------------
(***************************************************************************)
(* The engine's life from Init to Stop: the state machine of               *)
(* core/engine_lifecycle.cpp, the market-health gate of                    *)
(* core/quote_health_monitor.cpp, and TradingEngine's Init, Start, Stop,   *)
(* OnMarketHealthChanged and order sender that use them.                   *)
(*                                                                         *)
(* Four threads meet here without a common lock: the control thread, the   *)
(* adapter's tick callback (feed), the monitor's own thread (watch) and a  *)
(* strategy that sends orders.  A step is one atomic read or write, so a   *)
(* Transition is a load, a compare-and-swap and, later, a reason.          *)
(*                                                                         *)
(* The modules that Init and Start set up succeed or fail as one choice.   *)
(* The adapter is external: Disconnect returns when its callback has.      *)
(* A definition marked "Fault:" is a bug this code could have had, which   *)
(* no behaviour uses; PROJECT.json pairs it with the property that would   *)
(* notice it.                                                              *)
(***************************************************************************)
EXTENDS Integers

CONSTANTS
  Snapshots,     \* what the config service may answer: "valid", "expired"
  SlowCallbacks  \* whether a tick callback may take as long as max_stale_age

ASSUME EngineAssumption ==
  /\ Snapshots \subseteq {"valid", "expired"}
  /\ SlowCallbacks \in BOOLEAN

States == {"New", "Initiated", "Ready", "Frozen", "Draining", "Stopped", "Failed"}

Allowed(from) ==
  CASE from = "New"       -> {"Initiated", "Failed", "Stopped"}
    [] from = "Stopped"   -> {"Initiated"}
    [] from = "Initiated" -> {"Ready", "Frozen", "Draining", "Failed", "Stopped"}
    [] from = "Ready"     -> {"Frozen", "Draining", "Failed", "Stopped"}
    [] from = "Frozen"    -> {"Ready", "Draining", "Failed", "Stopped"}
    [] from = "Draining"  -> {"Stopped", "Failed"}
    [] from = "Failed"    -> {"Stopped"}

Reasons == {"", "MARKET_UNHEALTHY", "CONFIG_EXPIRED", "FAILURE"}
Threads == {"control", "feed", "watch"}

VARIABLES
  state,        \* state_ of the EngineLifecycle
  reason,       \* reason_
  initialized,  \* initialized_
  running,      \* running_ of the TradingEngine
  config,       \* the snapshot the last Init was given
  monitoring,   \* running_ of the QuoteHealthMonitor
  healthy,      \* healthy_
  tick,         \* age of last_valid_tick_ms_: "none", "fresh" or "stale"
  control,      \* where the control thread is in Init, Start or Stop
  feed,         \* where the tick callback is
  watch,        \* where the monitor's thread is in WatchHealth
  sender,       \* where a strategy's call of the order sender is
  call,         \* per thread: its activation of OnMarketHealthChanged or Transition
  lastReason    \* history: the reason given by the last change of state

life    == <<state, reason, lastReason>>
monitor == <<monitoring, healthy, tick>>
vars == <<state, reason, initialized, running, config, monitoring, healthy, tick,
          control, feed, watch, sender, call, lastReason>>

Returned(ok) == [at |-> "returned", target |-> "New", why |-> "", seen |-> "New", ok |-> ok]

Init ==
  /\ state = "New" /\ reason = "" /\ lastReason = ""
  /\ initialized = FALSE /\ running = FALSE /\ config = "none"
  /\ monitoring = FALSE /\ healthy = FALSE /\ tick = "none"
  /\ control = "idle" /\ feed = "idle" /\ watch = "none" /\ sender = "idle"
  /\ call = [t \in Threads |-> Returned(TRUE)]

-----------------------------------------------------------------------------
(* EngineLifecycle::Transition, as called by thread t.                     *)

Free(t) == call[t].at = "returned"

Activation(target, why) ==
  [at |-> "load", target |-> target, why |-> why, seen |-> "New", ok |-> TRUE]

Transition(t, target, why) == call' = [call EXCEPT ![t] = Activation(target, why)]

Returns(t, ok) == call' = [call EXCEPT ![t] = Returned(ok)]

Goes(t, at) == call' = [call EXCEPT ![t].at = at, ![t].seen = state]

Others == UNCHANGED <<initialized, running, config, monitor, control, feed, watch, sender>>

Load(t) ==
  /\ call[t].at = "load"
  /\ CASE call[t].target = state          -> Goes(t, "reason")
       [] call[t].target \in Allowed(state) -> Goes(t, "swap")
       [] OTHER                           -> Returns(t, FALSE)
  /\ UNCHANGED life /\ Others

\* Fault: the state is stored without comparing it.
SwapUnconditionally(t) ==
  /\ call[t].at = "swap"
  /\ state' = call[t].target
  /\ lastReason' = call[t].why
  /\ Goes(t, "reason")
  /\ UNCHANGED reason /\ Others

Swap(t) ==
  /\ call[t].at = "swap"
  /\ IF state = call[t].seen
     THEN /\ state' = call[t].target
          /\ lastReason' = call[t].why
          /\ Goes(t, "reason")
     ELSE Returns(t, FALSE) /\ UNCHANGED <<state, lastReason>>
  /\ UNCHANGED reason /\ Others

SetReason(t) ==
  /\ call[t].at = "reason"
  /\ reason' = call[t].why
  /\ Returns(t, TRUE)
  /\ UNCHANGED <<state, lastReason>> /\ Others

-----------------------------------------------------------------------------
(* TradingEngine::OnMarketHealthChanged: what it decides on is read first. *)

OnMarketHealthChanged(t, good) ==
  call' = [call EXCEPT ![t].at = IF good THEN "good" ELSE "bad"]

BadMarket(t) ==
  /\ call[t].at = "bad"
  /\ IF state = "Ready" THEN Transition(t, "Frozen", "MARKET_UNHEALTHY")
                        ELSE Returns(t, TRUE)
  /\ UNCHANGED life /\ Others

GoodMarket(t) ==
  /\ call[t].at = "good"
  /\ CASE state = "Initiated" -> Transition(t, "Ready", "")
       [] state = "Frozen"    -> Goes(t, "why")
       [] OTHER               -> Returns(t, TRUE)
  /\ UNCHANGED life /\ Others

WhyFrozen(t) ==
  /\ call[t].at = "why"
  /\ IF reason = "MARKET_UNHEALTHY" THEN Transition(t, "Ready", "") ELSE Returns(t, TRUE)
  /\ UNCHANGED life /\ Others

Call(t) ==
  Load(t) \/ Swap(t) \/ SetReason(t) \/ BadMarket(t) \/ GoodMarket(t) \/ WhyFrozen(t)

-----------------------------------------------------------------------------
(* Init, Start and Stop, on the control thread.                            *)

ControlAt(pc) == control = pc /\ Free("control")

\* OnEngineConfig: a snapshot it refuses asks for Frozen, a state that neither
\* New nor Stopped has an edge to; Init goes on all the same.
InitFetch ==
  /\ ControlAt("idle") /\ ~initialized
  /\ \E c \in Snapshots :
       /\ config' = c
       /\ IF c = "expired" THEN Transition("control", "Frozen", "CONFIG_EXPIRED")
                           ELSE UNCHANGED call
  /\ control' = "configured"
  /\ UNCHANGED <<life, initialized, running, monitor, feed, watch, sender>>

InitFails ==
  /\ ControlAt("configured")
  /\ Transition("control", "Failed", "FAILURE")
  /\ control' = "idle"
  /\ UNCHANGED <<life, initialized, running, config, monitor, feed, watch, sender>>

InitInitiates ==
  /\ ControlAt("configured")
  /\ Transition("control", "Initiated", "")
  /\ control' = "initiated"
  /\ UNCHANGED <<life, initialized, running, config, monitor, feed, watch, sender>>

InitReturns ==
  /\ ControlAt("initiated")
  /\ IF call["control"].ok THEN initialized' = TRUE /\ UNCHANGED call
     ELSE Transition("control", "Failed", "FAILURE") /\ UNCHANGED initialized
  /\ control' = "idle"
  /\ UNCHANGED <<life, running, config, monitor, feed, watch, sender>>

\* A wrong state, an adapter that is not connected or a broker snapshot that
\* does not reconcile.
StartFails ==
  /\ ControlAt("idle") /\ initialized /\ ~running
  /\ Transition("control", "Failed", "FAILURE")
  /\ UNCHANGED <<life, initialized, running, config, monitor, control, feed, watch, sender>>

StartMonitor ==
  /\ ControlAt("idle") /\ initialized /\ ~running
  /\ state = "Initiated"
  /\ monitoring' = TRUE /\ healthy' = FALSE /\ tick' = "none"
  /\ watch' = "wait"
  /\ control' = "modules"
  /\ UNCHANGED <<life, initialized, running, config, feed, sender, call>>

StartModules ==
  /\ ControlAt("modules")
  /\ running' = TRUE
  /\ control' = "gates"
  /\ UNCHANGED <<life, initialized, config, monitor, feed, watch, sender, call>>

AdvanceReadyGates ==
  /\ ControlAt("gates")
  /\ IF healthy THEN OnMarketHealthChanged("control", TRUE) ELSE UNCHANGED call
  /\ control' = "idle"
  /\ UNCHANGED <<life, initialized, running, config, monitor, feed, watch, sender>>

\* The answer of the transition to Draining is not looked at.
Stop ==
  /\ ControlAt("idle")
  /\ IF running THEN Transition("control", "Draining", "") ELSE UNCHANGED call
  /\ control' = "stopping"
  /\ UNCHANGED <<life, initialized, running, config, monitor, feed, watch, sender>>

StopRunning ==
  /\ ControlAt("stopping")
  /\ running' = FALSE
  /\ control' = "release"
  /\ UNCHANGED <<life, initialized, config, monitor, feed, watch, sender, call>>

\* Fault: the monitor's thread is not told to leave.
ReleaseMonitorSilently ==
  /\ ControlAt("release")
  /\ watch # "store"
  /\ control' = "join"
  /\ UNCHANGED <<life, initialized, running, config, monitor, feed, watch, sender, call>>

\* QuoteHealthMonitor::Stop, which waits for the mutex.
ReleaseMonitor ==
  /\ ControlAt("release")
  /\ watch # "store"
  /\ monitoring' = FALSE
  /\ healthy' = IF monitoring THEN FALSE ELSE healthy
  /\ control' = "join"
  /\ UNCHANGED <<life, initialized, running, config, tick, feed, watch, sender, call>>

\* Fault: the monitor's thread is left to itself.
JoinNobody ==
  /\ ControlAt("join")
  /\ control' = "disconnect"
  /\ UNCHANGED <<life, initialized, running, config, monitor, feed, watch, sender, call>>

JoinWatch ==
  /\ ControlAt("join")
  /\ watch \in {"none", "exited"}
  /\ watch' = "none"
  /\ control' = "disconnect"
  /\ UNCHANGED <<life, initialized, running, config, monitor, feed, sender, call>>

DisconnectAdapters ==
  /\ ControlAt("disconnect")
  /\ feed = "idle"
  /\ initialized' = FALSE
  /\ Transition("control", "Stopped", "")
  /\ control' = "idle"
  /\ UNCHANGED <<life, running, config, monitor, feed, watch, sender>>

Control ==
  \/ InitFetch \/ InitFails \/ InitInitiates \/ InitReturns
  \/ StartFails \/ StartMonitor \/ StartModules \/ AdvanceReadyGates
  \/ Stop \/ StopRunning \/ ReleaseMonitor \/ JoinWatch \/ DisconnectAdapters

-----------------------------------------------------------------------------
(* QuoteHealthMonitor: the tick callback and the monitor's own thread.     *)

FeedOnly == UNCHANGED <<life, initialized, running, config, monitoring, control, watch, sender>>

TickArrives ==
  /\ feed = "idle" /\ running
  /\ feed' \in {"valid", "invalid"}
  /\ FeedOnly /\ UNCHANGED <<healthy, tick, call>>

StampTick ==
  /\ feed = "valid"
  /\ tick' = "fresh"
  /\ feed' = "stamped"
  /\ FeedOnly /\ UNCHANGED <<healthy, call>>

\* healthy_.exchange, and the notification when it changed.
MarkHealth(good) ==
  /\ healthy' = good
  /\ IF healthy # good THEN OnMarketHealthChanged("feed", good) ELSE UNCHANGED call
  /\ feed' = "notifying"
  /\ FeedOnly /\ UNCHANGED tick

OnValidTick   == feed = "stamped" /\ MarkHealth(TRUE)
OnInvalidTick == feed = "invalid" /\ MarkHealth(FALSE)

TickDone ==
  /\ feed = "notifying" /\ Free("feed")
  /\ feed' = "idle"
  /\ FeedOnly /\ UNCHANGED <<healthy, tick, call>>

Feed == StampTick \/ OnValidTick \/ OnInvalidTick \/ TickDone

\* max_stale_age passes without a tick.
Silence ==
  /\ tick = "fresh"
  /\ SlowCallbacks \/ feed = "idle"
  /\ tick' = "stale"
  /\ FeedOnly /\ UNCHANGED <<healthy, feed, call>>

WatchOnly == UNCHANGED <<life, initialized, running, config, monitoring, tick,
                         control, feed, sender>>

\* One round under the mutex: leave, go round again, or find the feed silent.
WatchTest ==
  /\ watch = "wait"
  /\ watch' = CASE ~monitoring -> "exited"
                [] monitoring /\ healthy /\ tick = "stale" -> "store"
                [] OTHER -> "wait"
  /\ WatchOnly /\ UNCHANGED <<healthy, call>>

\* Fault: the monitor records the silence and tells nobody.
WatchStoreSilently ==
  /\ watch = "store"
  /\ healthy' = FALSE
  /\ watch' = "wait"
  /\ WatchOnly /\ UNCHANGED call

WatchStore ==
  /\ watch = "store"
  /\ healthy' = FALSE
  /\ OnMarketHealthChanged("watch", FALSE)
  /\ watch' = "notifying"
  /\ WatchOnly

WatchDone ==
  /\ watch = "notifying" /\ Free("watch")
  /\ watch' = "wait"
  /\ WatchOnly /\ UNCHANGED <<healthy, call>>

Watch == WatchTest \/ WatchStore \/ WatchDone

-----------------------------------------------------------------------------
(* MakeOrderSender: IsReady, and then the pipeline.                        *)

SenderOnly == UNCHANGED <<life, initialized, running, config, monitor, control,
                          feed, watch, call>>

SenderChecks == sender = "idle" /\ state = "Ready" /\ sender' = "submit" /\ SenderOnly

SenderSubmits == sender = "submit" /\ sender' = "idle" /\ SenderOnly

-----------------------------------------------------------------------------
Next ==
  \/ Control
  \/ TickArrives \/ Feed \/ Silence
  \/ Watch
  \/ SenderChecks \/ SenderSubmits
  \/ \E t \in Threads : Call(t)

Spec == Init /\ [][Next]_vars

\* A thread inside the engine's code goes on, and Stop goes through; nobody has
\* to call Init, Start or Stop, and no tick has to come.
Fairness ==
  /\ \A t \in Threads : WF_vars(Call(t))
  /\ WF_vars(InitInitiates \/ InitReturns \/ StartModules \/ AdvanceReadyGates)
  /\ WF_vars(StopRunning \/ ReleaseMonitor \/ JoinWatch \/ DisconnectAdapters)
  /\ WF_vars(Feed)
  /\ WF_vars(Watch)

FairSpec == Spec /\ Fairness

-----------------------------------------------------------------------------
(* Correctness.                                                            *)

\* Type invariant of the engine and its threads; a thread runs the lifecycle's
\* code only from where it has called it.
TypeOK ==
  /\ state \in States /\ reason \in Reasons /\ lastReason \in Reasons
  /\ initialized \in BOOLEAN /\ running \in BOOLEAN
  /\ config \in {"none", "valid", "expired"}
  /\ monitoring \in BOOLEAN /\ healthy \in BOOLEAN
  /\ tick \in {"none", "fresh", "stale"}
  /\ control \in {"idle", "configured", "initiated", "modules", "gates",
                  "stopping", "release", "join", "disconnect"}
  /\ feed \in {"idle", "valid", "invalid", "stamped", "notifying"}
  /\ watch \in {"none", "wait", "store", "notifying", "exited"}
  /\ sender \in {"idle", "submit"}
  /\ call \in [Threads -> [at : {"returned", "load", "swap", "reason", "bad", "good", "why"},
                           target : States, why : Reasons, seen : States, ok : BOOLEAN]]
  /\ Free("feed") \/ feed = "notifying"
  /\ Free("watch") \/ watch = "notifying"

\* However the control thread, the tick callback and the monitor overlap, the
\* state moves along the edges of the table only: never out of Draining to Ready.
LegalSteps == [][state' # state => state' \in Allowed(state)]_vars

\* Once Stop has returned nothing of the engine acts any more: the state is final
\* for this session, the monitor's thread is gone and no callback is under way.
StoppedIsQuiet ==
  ControlAt("idle") /\ ~initialized =>
    /\ state \in {"New", "Stopped", "Failed"}
    /\ ~running /\ ~monitoring
    /\ watch = "none" /\ feed = "idle"

\* An engine that is Ready on a market the monitor holds for healthy does not stay
\* Ready when that market falls silent: the monitor finds the stale tick and its
\* notification freezes the engine.  It looks at a healthy market only: an engine
\* made Ready after an invalid tick is not covered (SilentFeedFreezes).
SilenceFreezes ==
  (state = "Ready" /\ healthy /\ tick = "stale") ~> (state # "Ready" \/ tick # "stale")

\* Stop always returns, although it joins a thread that may just be notifying.
StopReturns == (control = "stopping") ~> (control = "idle")
=============================================================================
