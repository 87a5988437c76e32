----------------------------- MODULE EngineBringUp -----------------------------
(***************************************************************************)
(* Bringing an engine up and taking it down: the stages of TradingEngine's *)
(* Init, Start and Stop, in the order they run, with the bridges and       *)
(* adapters its owner injects between the calls.  A stage can fail, an     *)
(* adapter can lose its connection before any stage, and ticks arrive      *)
(* while the control thread is in Start or Stop.                           *)
(*                                                                         *)
(* The owner calls in any order, except that it sets bridges while the     *)
(* engine is not initialized, as IEngine asks (engine.hpp:9).  At least    *)
(* one strategy has an instrument, so Start has something to subscribe.    *)
(* The tick callback and the monitor's thread check, write healthy_ and    *)
(* notify in steps of their own, between any two stages.  EngineLifecycle  *)
(* has the same calls at the grain of single atomic reads and writes; here *)
(* a Transition is one step, and Stop's may lose its compare-and-swap to   *)
(* a notification.                                                         *)
(*                                                                         *)
(* The adapter is external: disconnecting it and destroying it wait for    *)
(* its callback in progress, as the stub's do by joining its thread.       *)
(***************************************************************************)
EXTENDS FiniteSets

CONSTANTS Adapters,      \* trader adapters the owner may inject
          RiskBridges,   \* account-risk bridges it may inject
          OtherBridges,  \* configuration and account bridges
          None

Bridges == RiskBridges \cup OtherBridges

ASSUME BringUpAssumption == None \notin Adapters \cup Bridges

Services == {"config", "account", "account_risk"}
Modules == {"oms", "lanes", "monitor", "strategies", "ems"}
States == {"New", "Initiated", "Ready", "Frozen", "Draining", "Stopped", "Failed"}

Allowed(from) ==
  CASE from = "New"       -> {"Initiated", "Failed", "Stopped"}
    [] from = "Stopped"   -> {"Initiated"}
    [] from = "Initiated" -> {"Ready", "Frozen", "Draining", "Failed", "Stopped"}
    [] from = "Ready"     -> {"Frozen", "Draining", "Failed", "Stopped"}
    [] from = "Frozen"    -> {"Ready", "Draining", "Failed", "Stopped"}
    [] from = "Draining"  -> {"Stopped", "Failed"}
    [] from = "Failed"    -> {"Stopped"}

VARIABLES
  state,         \* the lifecycle's state
  initialized, running,
  call,          \* the call in progress: "none", "Init", "Start" or "Stop"
  stage,         \* the stage it is about to run
  enabled,       \* services the bootstrap configuration enables
  bridge,        \* the bridge injected for each service
  riskBridge,    \* the account-risk bridge that the pipeline and the EMS hold
  quote,         \* the quote adapter: "none", "off" or "on" line
  trader,        \* the trader adapter
  online,        \* whether the trader adapter is connected
  emsApi,        \* the trader adapter that the EMS holds
  up,            \* the modules that are initialized or started
  reconciled,    \* the adapter whose snapshot the OMS was rebuilt from
  subscription,  \* of market data: "none", "live" or "refused"
  healthy,       \* healthy_ of the monitor
  feed,          \* where the tick callback is
  watch          \* where the monitor's thread is

life     == <<state, initialized, running>>
control  == <<call, stage>>
injected == <<enabled, bridge, riskBridge>>
adapters == <<quote, trader, online>>
modules  == <<emsApi, up, reconciled>>
threads  == <<feed, watch>>
market   == <<subscription, healthy, threads>>
vars == <<life, control, injected, adapters, modules, market>>

Init ==
  /\ state = "New" /\ initialized = FALSE /\ running = FALSE
  /\ call = "none" /\ stage = "idle"
  /\ enabled = {} /\ bridge = [s \in Services |-> None] /\ riskBridge = None
  /\ quote = "none" /\ trader = None /\ online = FALSE
  /\ emsApi = None /\ up = {} /\ reconciled = None
  /\ subscription = "none" /\ healthy = FALSE
  /\ feed = "idle" /\ watch = "wait"

-----------------------------------------------------------------------------
(* The lifecycle: where a Transition leads, and what the market makes of it. *)

Moved(target) == IF target \in Allowed(state) THEN target ELSE state

Recovered == IF state \in {"Initiated", "Frozen"} THEN "Ready" ELSE state
Degraded  == IF state = "Ready" THEN "Frozen" ELSE state

Transition(target) == state' = Moved(target)

\* OnMarketHealthChanged, called by the tick callback or the monitor's thread.
FeedNotifies ==
  /\ feed \in {"good", "bad"} /\ feed' = "idle"
  /\ state' = IF feed = "good" THEN Recovered ELSE Degraded
  /\ UNCHANGED watch

WatchNotifies ==
  /\ watch = "bad" /\ watch' = "wait"
  /\ state' = Degraded
  /\ UNCHANGED feed

Notification == FeedNotifies \/ WatchNotifies

-----------------------------------------------------------------------------
(* The owner's injections, between calls.                                  *)

Idle == call = "none"

BridgesOf(s) == IF s = "account_risk" THEN RiskBridges ELSE OtherBridges

SetBridge(s, b) ==
  /\ Idle /\ ~initialized /\ b \in BridgesOf(s) \cup {None}
  /\ bridge' = [bridge EXCEPT ![s] = b]
  /\ UNCHANGED <<life, control, enabled, riskBridge, adapters, modules, market>>

SetQuoteApi(line) ==
  /\ Idle /\ ~running
  /\ quote' = line /\ subscription' = "none"
  /\ UNCHANGED <<life, control, injected, trader, online, modules, healthy, threads>>

\* Fault: the adapter can be replaced while orders are being sent.
SetTraderApiAnyTime(a) ==
  /\ Idle /\ a # trader
  /\ trader' = a /\ online' = TRUE
  /\ UNCHANGED <<life, control, injected, quote, modules, market>>

\* The adapter replaced is destroyed.
SetTraderApi(a) ==
  /\ Idle /\ ~running /\ a # trader
  /\ trader' = a /\ online' = TRUE
  /\ UNCHANGED <<life, control, injected, quote, modules, market>>

-----------------------------------------------------------------------------
(* Stages: At is where the control thread is, Then where it goes, and      *)
(* Return ends the call.                                                   *)

At(c, s) == call = c /\ stage = s
Then(s)  == stage' = s /\ UNCHANGED call
Return == call' = "none" /\ stage' = "idle"

\* Init releases what it set up when a stage fails; Start leaves it to Stop.
InitFails  == Transition("Failed") /\ Then("strategies_stop") /\ UNCHANGED <<initialized, running>>
StartFails == Transition("Failed") /\ Return /\ UNCHANGED <<initialized, running>>

\* The quote-health options are the defaults, which Configure accepts.
ApplyBootstrapConfig(services) == enabled' = services

\* Init of an initialized engine answers success and changes nothing.
CallInit(services) ==
  /\ Idle /\ ~initialized
  /\ call' = "Init" /\ stage' = "bridges"
  /\ ApplyBootstrapConfig(services)
  /\ UNCHANGED <<life, bridge, riskBridge, adapters, modules, market>>

ValidateSupportBridges ==
  /\ At("Init", "bridges")
  /\ IF \E s \in enabled : bridge[s] = None
     THEN InitFails
     ELSE Then("config") /\ UNCHANGED life
  /\ UNCHANGED <<injected, adapters, modules, market>>

\* The service may answer with a configuration, with an error, or with
\* success and nothing: the last marks the engine failed and goes on.
FetchRuntimeConfig ==
  /\ At("Init", "config")
  /\ \/ Then("modules") /\ UNCHANGED life
     \/ /\ bridge["config"] # None
        /\ InitFails
     \/ /\ bridge["config"] # None
        /\ Transition("Failed") /\ Then("modules") /\ UNCHANGED <<initialized, running>>
  /\ UNCHANGED <<injected, adapters, modules, market>>

\* The OMS refuses to be initialized twice.
InitEngineModules ==
  /\ At("Init", "modules")
  /\ IF "oms" \in up
     THEN InitFails /\ UNCHANGED <<up, riskBridge>>
     ELSE /\ up' = up \cup {"oms"}
          /\ riskBridge' = IF bridge["account_risk"] # None THEN bridge["account_risk"] ELSE riskBridge
          /\ Then("adapters") /\ UNCHANGED life
  /\ UNCHANGED <<enabled, bridge, adapters, emsApi, reconciled, market>>

Injected == quote # "none" /\ trader # None
AdaptersOptional == "config" \notin enabled

\* Fault: a missing adapter ends Init without releasing the OMS.
InitAdaptersKeeping ==
  /\ At("Init", "adapters")
  /\ IF Injected \/ AdaptersOptional
     THEN Then("initiate") /\ UNCHANGED life
     ELSE Transition("Failed") /\ Return /\ UNCHANGED <<initialized, running>>
  /\ UNCHANGED <<injected, adapters, modules, market>>

InitAdapters ==
  /\ At("Init", "adapters")
  /\ IF Injected \/ AdaptersOptional
     THEN Then("initiate") /\ UNCHANGED life
     ELSE InitFails
  /\ UNCHANGED <<injected, adapters, modules, market>>

Initiate ==
  /\ At("Init", "initiate")
  /\ IF "Initiated" \in Allowed(state)
     THEN state' = "Initiated" /\ initialized' = TRUE /\ Return /\ UNCHANGED running
     ELSE InitFails
  /\ UNCHANGED <<injected, adapters, modules, market>>

CallStart ==
  /\ Idle /\ initialized /\ ~running
  /\ IF state = "Initiated"
     THEN call' = "Start" /\ stage' = "adapters" /\ UNCHANGED life
     ELSE Transition("Failed") /\ UNCHANGED <<initialized, running, control>>
  /\ UNCHANGED <<injected, adapters, modules, market>>

StartAdapters ==
  /\ At("Start", "adapters")
  /\ IF quote = "on" /\ online
     THEN Then("snapshot") /\ UNCHANGED life
     ELSE StartFails
  /\ UNCHANGED <<injected, adapters, modules, market>>

\* Any of the four queries can fail.
SyncBrokerSnapshot ==
  /\ At("Start", "snapshot")
  /\ \/ online /\ reconciled' = trader /\ Then("lanes") /\ UNCHANGED life
     \/ StartFails /\ UNCHANGED reconciled
  /\ UNCHANGED <<injected, adapters, emsApi, up, market>>

StartEventLanes ==
  /\ At("Start", "lanes")
  /\ up' = up \cup {"lanes", "monitor"}
  /\ healthy' = FALSE
  /\ Then("strategies")
  /\ UNCHANGED <<life, injected, adapters, emsApi, reconciled, subscription, threads>>

StartStrategies ==
  /\ At("Start", "strategies")
  /\ up' = up \cup {"strategies"}
  /\ Then("ems")
  /\ UNCHANGED <<life, injected, adapters, emsApi, reconciled, market>>

StartExecution ==
  /\ At("Start", "ems")
  /\ emsApi' = trader /\ up' = up \cup {"ems"} /\ running' = TRUE
  /\ Then("market")
  /\ UNCHANGED <<state, initialized, injected, adapters, reconciled, market>>

\* A refused subscription is only logged.
SubscribeQuote ==
  IF running /\ quote # "none" THEN subscription' \in {"live", "refused"} ELSE UNCHANGED subscription

\* Fault: market data is subscribed by a ready engine only.
StartMarketDataWhenReady ==
  /\ At("Start", "market")
  /\ IF state = "Ready" THEN SubscribeQuote ELSE UNCHANGED subscription
  /\ Then("gates")
  /\ UNCHANGED <<life, injected, adapters, modules, healthy, threads>>

StartMarketData ==
  /\ At("Start", "market")
  /\ SubscribeQuote
  /\ Then("gates")
  /\ UNCHANGED <<life, injected, adapters, modules, healthy, threads>>

AdvanceReadyGates ==
  /\ At("Start", "gates")
  /\ state' = IF healthy THEN Recovered ELSE state
  /\ Return
  /\ UNCHANGED <<initialized, running, injected, adapters, modules, market>>

-----------------------------------------------------------------------------
(* Stop, and Release, which Init's failures run too.                       *)

\* The answer of the transition to Draining is not looked at; a notification
\* that changes the state in front of its compare-and-swap wins.
CallStop ==
  /\ Idle
  /\ call' = "Stop" /\ stage' = "strategies_stop"
  /\ \/ /\ IF running THEN Transition("Draining") ELSE UNCHANGED state
        /\ UNCHANGED threads
     \/ running /\ Notification /\ state' # state
  /\ running' = FALSE
  /\ UNCHANGED <<initialized, injected, adapters, modules, subscription, healthy>>

Down(m, here, next) ==
  /\ stage = here /\ Then(next)
  /\ up' = up \ {m}

StopStrategies ==
  /\ Down("strategies", "strategies_stop", "monitor_stop")
  /\ UNCHANGED <<life, injected, adapters, emsApi, reconciled, market>>

\* Joins the monitor's thread; a monitor that is not running is left as it is.
StopMonitor ==
  /\ Down("monitor", "monitor_stop", "ems_stop")
  /\ watch = "wait"
  /\ healthy' = IF "monitor" \in up THEN FALSE ELSE healthy
  /\ UNCHANGED <<life, injected, adapters, emsApi, reconciled, subscription, threads>>

StopExecution ==
  /\ Down("ems", "ems_stop", "disconnect")
  /\ UNCHANGED <<life, injected, adapters, emsApi, reconciled, market>>

\* Only an adapter that is on line is disconnected.
DisconnectAdapters ==
  /\ stage = "disconnect" /\ Then("lanes_stop")
  /\ quote = "on" => feed = "idle"
  /\ quote' = IF quote = "on" THEN "off" ELSE quote
  /\ online' = FALSE
  /\ UNCHANGED <<life, injected, trader, modules, market>>

StopLanes ==
  /\ Down("lanes", "lanes_stop", "oms_stop")
  /\ UNCHANGED <<life, injected, adapters, emsApi, reconciled, market>>

ShutdownOrders ==
  /\ Down("oms", "oms_stop", "reset")
  /\ reconciled' = None
  /\ UNCHANGED <<life, injected, adapters, emsApi, market>>

ResetAdapters ==
  /\ stage = "reset" /\ Return
  /\ feed = "idle"
  /\ quote' = "none" /\ trader' = None /\ online' = FALSE /\ subscription' = "none"
  /\ IF call = "Stop"
     THEN initialized' = FALSE /\ state' = Moved("Stopped") /\ UNCHANGED running
     ELSE UNCHANGED life
  /\ UNCHANGED <<injected, modules, healthy, threads>>

-----------------------------------------------------------------------------
(* The adapters and the market.                                            *)

QuoteLine ==
  /\ quote # "none"
  /\ quote' = IF quote = "on" THEN "off" ELSE "on"
  /\ UNCHANGED <<life, control, injected, trader, online, modules, market>>

TraderLine ==
  /\ trader # None
  /\ online' = ~online
  /\ UNCHANGED <<life, control, injected, quote, trader, modules, market>>

MarketOnly == UNCHANGED <<initialized, running, control, injected, adapters, modules, subscription>>

\* Fault: the tick callback does not look at running_.
TickUnguarded(kind) ==
  /\ quote = "on" /\ "monitor" \in up /\ feed = "idle"
  /\ feed' = kind
  /\ MarketOnly /\ UNCHANGED <<state, healthy, watch>>

\* A tick comes, valid or not, and the callback sees the engine running; its
\* owner may have subscribed the adapter beforehand.
TickArrives(kind) ==
  /\ quote = "on" /\ running /\ feed = "idle"
  /\ feed' = kind
  /\ MarketOnly /\ UNCHANGED <<state, healthy, watch>>

\* OnValidTick and OnInvalidTick: healthy_.exchange, whoever has stopped since.
MarkHealth ==
  /\ feed \in {"valid", "invalid"}
  /\ healthy' = (feed = "valid")
  /\ feed' = IF healthy' = healthy THEN "idle" ELSE IF healthy' THEN "good" ELSE "bad"
  /\ MarketOnly /\ UNCHANGED <<state, watch>>

\* WatchHealth finds the last tick too old.
Silence ==
  /\ "monitor" \in up /\ watch = "wait" /\ healthy
  /\ healthy' = FALSE /\ watch' = "bad"
  /\ MarketOnly /\ UNCHANGED <<state, feed>>

Notify == Notification /\ MarketOnly /\ UNCHANGED healthy

-----------------------------------------------------------------------------

Owner ==
  \/ \E s \in Services, b \in Bridges \cup {None} : SetBridge(s, b)
  \/ \E line \in {"off", "on"} : SetQuoteApi(line)
  \/ \E a \in Adapters : SetTraderApi(a)
  \/ \E services \in SUBSET Services : CallInit(services)
  \/ CallStart
  \/ CallStop

Control ==
  \/ ValidateSupportBridges \/ FetchRuntimeConfig \/ InitEngineModules \/ InitAdapters \/ Initiate
  \/ StartAdapters \/ SyncBrokerSnapshot \/ StartEventLanes \/ StartStrategies
  \/ StartExecution \/ StartMarketData \/ AdvanceReadyGates
  \/ StopStrategies \/ StopMonitor \/ StopExecution \/ DisconnectAdapters
  \/ StopLanes \/ ShutdownOrders \/ ResetAdapters

Feed == (\E kind \in {"valid", "invalid"} : TickArrives(kind)) \/ MarkHealth \/ Notify

Next == Owner \/ Control \/ QuoteLine \/ TraderLine \/ Feed \/ Silence

\* The control thread and the callbacks run on; a subscribed market that is
\* on line goes on sending valid ticks, with others in between.
Fairness ==
  /\ WF_vars(Control) /\ WF_vars(MarkHealth) /\ WF_vars(Notify)
  /\ SF_vars(subscription = "live" /\ TickArrives("valid"))

Spec == Init /\ [][Next]_vars /\ Fairness

-----------------------------------------------------------------------------
(* Properties.                                                             *)

Stages == {"idle", "bridges", "config", "modules", "adapters", "initiate", "snapshot", "lanes",
           "strategies", "ems", "market", "gates", "strategies_stop", "monitor_stop", "ems_stop",
           "disconnect", "lanes_stop", "oms_stop", "reset"}

\* Every variable holds a value of its kind, and a stage belongs to a call.
TypeOK ==
  /\ state \in States /\ initialized \in BOOLEAN /\ running \in BOOLEAN
  /\ call \in {"none", "Init", "Start", "Stop"} /\ stage \in Stages
  /\ (call = "none") <=> (stage = "idle")
  /\ enabled \subseteq Services
  /\ bridge \in [Services -> Bridges \cup {None}] /\ riskBridge \in Bridges \cup {None}
  /\ quote \in {"none", "off", "on"} /\ trader \in Adapters \cup {None} /\ online \in BOOLEAN
  /\ emsApi \in Adapters \cup {None} /\ up \subseteq Modules /\ reconciled \in Adapters \cup {None}
  /\ subscription \in {"none", "live", "refused"} /\ healthy \in BOOLEAN
  /\ feed \in {"idle", "valid", "invalid", "good", "bad"} /\ watch \in {"wait", "bad"}

\* An engine that takes orders has every module up, an OMS rebuilt from the
\* counter it sends to, and an EMS that holds that counter's adapter
\* (Start's order of stages, and the tick callback's check of running_).
ReadyIsBacked ==
  state = "Ready" /\ call # "Stop" =>
    /\ running /\ up = Modules
    /\ trader # None /\ reconciled = trader /\ emsApi = trader

\* The EMS's worker never runs with an adapter that was destroyed: it is
\* given the adapter before it starts, stops before Release resets it, and
\* a running engine refuses another (SetTraderApi).
SendsToLiveAdapter == "ems" \in up => trader # None /\ emsApi = trader

\* Between calls an engine that is not initialized has nothing running,
\* whichever stage of Init failed and wherever Start had got to (Release).
\* What healthy_ says then is HealthEndsWithStop's question.
NothingOutlivesStop == Idle /\ ~initialized => up = {} /\ ~running

\* An engine initialized with an account-risk bridge reserves and releases
\* through that one, not through the bridge of an earlier Init.
BridgeIsCurrent ==
  initialized /\ bridge["account_risk"] # None => riskBridge = bridge["account_risk"]

\* The three together: types, and both wirings of the engine.
WiringOK == TypeOK /\ SendsToLiveAdapter /\ BridgeIsCurrent

\* Whatever came before, a Stop that returns leaves the state Stopped, from
\* which Init can start over.
StopAlwaysStops == [][call = "Stop" /\ call' = "none" => state' = "Stopped" /\ "Initiated" \in Allowed(state')]_vars

\* An engine that runs becomes ready once the market ticks: the subscription
\* must not wait for what only its ticks can bring about.  Excepted are a
\* refused subscription, a lost line and an engine being stopped.
GetsReady ==
  running ~> (state # "Initiated" \/ ~running \/ quote # "on" \/ subscription = "refused")

\* As documented: the owner may inject the adapters after Init
\* (engine.hpp:9-11, "可在 Init 前后设置，但须在 Start 之前").
AdaptersMayFollowInit == At("Init", "adapters") => Injected \/ AdaptersOptional

\* As documented: a bridge must outlive Stop and no longer (engine.hpp:18).
NoDeadBridge == initialized => riskBridge \in {None, bridge["account_risk"]}

\* As documented: IsHealthy says that a valid tick came and has not timed out
\* (core/quote_health_monitor.hpp:67); a stopped monitor times nothing out.
HealthEndsWithStop == Idle /\ ~initialized => ~healthy

\* As documented: a failed start leaves the engine Failed (engine.hpp:55).
FailedInitIsFailed == [][call = "Init" /\ call' = "none" /\ ~initialized' => state' = "Failed"]_vars
=============================================================================
