-------------------------- MODULE EngineBringUpProofs --------------------------
(***************************************************************************)
(* What EngineBringUp's stages keep, for any adapters and bridges and any  *)
(* sequence of calls.  The properties speak of ready and of uninitialized  *)
(* engines; the invariant that carries them says what is up at every stage *)
(* of every call.                                                          *)
(***************************************************************************)
EXTENDS EngineBringUp, TLAPS

Serving == running /\ call # "Stop"
Snapshot == call = "Start" /\ stage \in {"lanes", "strategies", "ems", "market", "gates"}

\* How far up the modules are while Init and Start work through their stages.
Rising ==
  /\ Idle /\ ~initialized => up = {}
  /\ Idle /\ initialized /\ ~running => up = {"oms"}
  /\ call = "Init" /\ stage \in {"bridges", "config", "modules"} => up = {}
  /\ call = "Init" /\ stage \in {"adapters", "initiate"} => up = {"oms"}
  /\ call = "Start" /\ stage \in {"adapters", "snapshot", "lanes"} => up = {"oms"}
  /\ call = "Start" /\ stage = "strategies" => up = {"oms", "lanes", "monitor"}
  /\ call = "Start" /\ stage = "ems" => up = {"oms", "lanes", "monitor", "strategies"}
  /\ running => up = Modules

\* What Release has taken down already.
Falling ==
  /\ stage \in {"monitor_stop", "ems_stop", "disconnect", "lanes_stop", "oms_stop", "reset"}
       => "strategies" \notin up
  /\ stage \in {"ems_stop", "disconnect", "lanes_stop", "oms_stop", "reset"} => "monitor" \notin up
  /\ stage \in {"disconnect", "lanes_stop", "oms_stop", "reset"} => "ems" \notin up
  /\ stage \in {"oms_stop", "reset"} => "lanes" \notin up
  /\ stage = "reset" => "oms" \notin up

\* Which stages belong to which call, and what the flags say during it.
Order ==
  /\ call = "none" <=> stage = "idle"
  /\ call = "Init" => stage \in {"bridges", "config", "modules", "adapters", "initiate",
       "strategies_stop", "monitor_stop", "ems_stop", "disconnect", "lanes_stop", "oms_stop", "reset"}
  /\ call = "Start" => stage \in {"adapters", "snapshot", "lanes", "strategies", "ems", "market", "gates"}
  /\ call = "Stop" => stage \in {"strategies_stop", "monitor_stop", "ems_stop", "disconnect",
       "lanes_stop", "oms_stop", "reset"}
  /\ call = "Init" => ~initialized
  /\ call = "Start" => initialized /\ (running <=> stage \in {"market", "gates"})
  /\ call \in {"Init", "Stop"} => ~running
  /\ running => initialized

\* The market moves the state of an engine that runs or is in Stop only: a
\* callback that found it running ends before the adapter is gone, and the
\* monitor's thread before the monitor is down.
Calm ==
  /\ state \in {"Ready", "Frozen"} => running \/ call = "Stop"
  /\ feed # "idle" => running \/ call = "Stop"
  /\ watch = "bad" => "monitor" \in up

\* The adapter reconciled with is the one in place, and the one the EMS has;
\* the bridge handed on is the one injected.
Wired ==
  /\ online => trader # None
  /\ Snapshot \/ Serving => trader # None /\ reconciled = trader
  /\ "ems" \in up => trader # None /\ emsApi = trader
  /\ /\ initialized \/ (call = "Init" /\ stage \in {"adapters", "initiate"})
     /\ bridge["account_risk"] # None
     => riskBridge = bridge["account_risk"]

Inv == TypeOK /\ Order /\ Rising /\ Falling /\ Calm /\ Wired

\* A Transition leads to its target or stays.
LEMMA TransitionLeads ==
  ASSUME state \in States, NEW target \in States, Transition(target)
  PROVE  state' \in States /\ state' \in {state, target}
BY DEF Transition, Moved, States

\* A notification moves the state between Initiated, Ready and Frozen.
LEMMA NotificationLeads ==
  ASSUME Inv, Notification
  PROVE  /\ state' \in States
         /\ state' \in {"Ready", "Frozen"} => state' = state \/ feed # "idle" \/ state = "Ready"
         /\ feed' \in {"idle", feed} /\ watch' \in {"wait", watch}
BY DEF Inv, TypeOK, Notification, FeedNotifies, WatchNotifies, Recovered, Degraded, States

\* Every step of the owner, the control thread, the adapters and the market
\* keeps what is up, wired and moved in line with the stage.
LEMMA InvKept == Inv /\ [Next]_vars => Inv'
<1> SUFFICES ASSUME Inv, [Next]_vars PROVE Inv'
  OBVIOUS
<1> USE BringUpAssumption
    DEF Inv, TypeOK, Order, Rising, Falling, Calm, Wired, Serving, Snapshot, Idle, Stages,
    Modules, Services, States, vars, life, control, injected, adapters, modules, market, threads
<1>1. CASE \E s \in Services, b \in Bridges \cup {None} : SetBridge(s, b)
  BY <1>1 DEF SetBridge, BridgesOf, Bridges
<1>2. CASE \E line \in {"off", "on"} : SetQuoteApi(line)
  BY <1>2 DEF SetQuoteApi
<1>3. CASE \E a \in Adapters : SetTraderApi(a)
  BY <1>3 DEF SetTraderApi
<1>4. CASE \E services \in SUBSET Services : CallInit(services)
  BY <1>4 DEF CallInit, ApplyBootstrapConfig
<1>5. CASE CallStart
  <2>0. /\ state' \in States
        /\ state' \in {state, "Failed"}
    BY <1>5, TransitionLeads DEF CallStart
  <2>1. TypeOK'
    <3>1. state' \in States /\ initialized' \in BOOLEAN /\ running' \in BOOLEAN
      BY <1>5, <2>0 DEF CallStart
    <3>2. call' \in {"none", "Init", "Start", "Stop"} /\ stage' \in Stages /\ ((call' = "none") <=> (stage' = "idle"))
      BY <1>5, <2>0 DEF CallStart
    <3>3. enabled' \subseteq Services /\ bridge' \in [Services -> Bridges \cup {None}] /\ riskBridge' \in Bridges \cup {None}
      BY <1>5, <2>0 DEF CallStart
    <3>4. /\ quote' \in {"none", "off", "on"} /\ trader' \in Adapters \cup {None} /\ online' \in BOOLEAN
         /\ emsApi' \in Adapters \cup {None} /\ up' \subseteq Modules /\ reconciled' \in Adapters \cup {None}
      BY <1>5, <2>0 DEF CallStart
    <3>5. /\ subscription' \in {"none", "live", "refused"} /\ healthy' \in BOOLEAN
         /\ feed' \in {"idle", "valid", "invalid", "good", "bad"} /\ watch' \in {"wait", "bad"}
      BY <1>5, <2>0 DEF CallStart
    <3> QED
      BY <3>1, <3>2, <3>3, <3>4, <3>5 DEF TypeOK
  <2>2. Order'
    BY <1>5, <2>0 DEF CallStart
  <2>3. Rising'
    <3>1. CASE state = "Initiated"
      BY <1>5, <2>0, <3>1 DEF CallStart
    <3>2. CASE state # "Initiated"
      BY <1>5, <2>0, <3>2 DEF CallStart
    <3> QED
      BY <3>1, <3>2, <1>5 DEF CallStart
  <2>4. Falling'
    BY <1>5, <2>0 DEF CallStart
  <2>5. Calm'
    BY <1>5, <2>0 DEF CallStart
  <2>6. Wired'
    <3>1. CASE state = "Initiated"
      BY <1>5, <2>0, <3>1 DEF CallStart
    <3>2. CASE state # "Initiated"
      BY <1>5, <2>0, <3>2 DEF CallStart
    <3> QED
      BY <3>1, <3>2, <1>5 DEF CallStart
  <2> QED
    BY <2>1, <2>2, <2>3, <2>4, <2>5, <2>6
<1>6. CASE ValidateSupportBridges
  BY <1>6 DEF ValidateSupportBridges, At, Then, InitFails, Transition, Moved, Allowed
<1>7. CASE FetchRuntimeConfig
  BY <1>7 DEF FetchRuntimeConfig, At, Then, InitFails, Transition, Moved, Allowed
<1>8. CASE InitEngineModules
  BY <1>8 DEF InitEngineModules, At, Then, InitFails, Transition, Moved, Allowed
<1>9. CASE InitAdapters
  BY <1>9 DEF InitAdapters, At, Then, InitFails, Transition, Moved, Allowed
<1>10. CASE Initiate
  <2>0. /\ state' \in States
        /\ state' \in {state, "Failed", "Initiated"}
    BY <1>10, TransitionLeads DEF Initiate, InitFails, Return, Then
  <2>1. TypeOK'
    <3>1. state' \in States /\ initialized' \in BOOLEAN /\ running' \in BOOLEAN
      BY <1>10, <2>0 DEF Initiate, At, Then, Return, InitFails
    <3>2. call' \in {"none", "Init", "Start", "Stop"} /\ stage' \in Stages /\ ((call' = "none") <=> (stage' = "idle"))
      BY <1>10, <2>0 DEF Initiate, At, Then, Return, InitFails
    <3>3. enabled' \subseteq Services /\ bridge' \in [Services -> Bridges \cup {None}] /\ riskBridge' \in Bridges \cup {None}
      BY <1>10, <2>0 DEF Initiate, At, Then, Return, InitFails
    <3>4. /\ quote' \in {"none", "off", "on"} /\ trader' \in Adapters \cup {None} /\ online' \in BOOLEAN
         /\ emsApi' \in Adapters \cup {None} /\ up' \subseteq Modules /\ reconciled' \in Adapters \cup {None}
      BY <1>10, <2>0 DEF Initiate, At, Then, Return, InitFails
    <3>5. /\ subscription' \in {"none", "live", "refused"} /\ healthy' \in BOOLEAN
         /\ feed' \in {"idle", "valid", "invalid", "good", "bad"} /\ watch' \in {"wait", "bad"}
      BY <1>10, <2>0 DEF Initiate, At, Then, Return, InitFails
    <3> QED
      BY <3>1, <3>2, <3>3, <3>4, <3>5 DEF TypeOK
  <2>2. Order'
    BY <1>10, <2>0 DEF Initiate, At, Then, Return, InitFails
  <2>3. Rising'
    BY <1>10, <2>0 DEF Initiate, At, Then, Return, InitFails
  <2>4. Falling'
    BY <1>10, <2>0 DEF Initiate, At, Then, Return, InitFails
  <2>5. Calm'
    BY <1>10, <2>0 DEF Initiate, At, Then, Return, InitFails
  <2>6. Wired'
    BY <1>10, <2>0 DEF Initiate, At, Then, Return, InitFails
  <2> QED
    BY <2>1, <2>2, <2>3, <2>4, <2>5, <2>6
<1>11. CASE StartAdapters
  <2>0. /\ state' \in States
        /\ state' \in {state, "Failed"}
    BY <1>11, TransitionLeads DEF StartAdapters, StartFails
  <2>1. TypeOK'
    BY <1>11, <2>0 DEF StartAdapters, At, Then, Return, StartFails
  <2>2. Order'
    BY <1>11, <2>0 DEF StartAdapters, At, Then, Return, StartFails
  <2>3. Rising'
    BY <1>11, <2>0 DEF StartAdapters, At, Then, Return, StartFails
  <2>4. Falling'
    BY <1>11, <2>0 DEF StartAdapters, At, Then, Return, StartFails
  <2>5. Calm'
    BY <1>11, <2>0 DEF StartAdapters, At, Then, Return, StartFails
  <2>6. Wired'
    BY <1>11, <2>0 DEF StartAdapters, At, Then, Return, StartFails
  <2> QED
    BY <2>1, <2>2, <2>3, <2>4, <2>5, <2>6
<1>12. CASE SyncBrokerSnapshot
  <2>0. /\ state' \in States
        /\ state' \in {state, "Failed"}
    BY <1>12, TransitionLeads DEF SyncBrokerSnapshot, StartFails
  <2>1. TypeOK'
    BY <1>12, <2>0 DEF SyncBrokerSnapshot, At, Then, Return, StartFails
  <2>2. Order'
    <3>1. CASE Return
      BY <1>12, <2>0, <3>1 DEF SyncBrokerSnapshot, At, Then, Return, StartFails
    <3>2. CASE Then("lanes") /\ reconciled' = trader /\ online /\ UNCHANGED life
      BY <1>12, <2>0, <3>2 DEF SyncBrokerSnapshot, At, Then, Return, StartFails
    <3> QED
      BY <3>1, <3>2, <1>12 DEF SyncBrokerSnapshot, At, Then, Return, StartFails
  <2>3. Rising'
    <3>1. CASE Return
      BY <1>12, <2>0, <3>1 DEF SyncBrokerSnapshot, At, Then, Return, StartFails
    <3>2. CASE Then("lanes") /\ reconciled' = trader /\ online /\ UNCHANGED life
      BY <1>12, <2>0, <3>2 DEF SyncBrokerSnapshot, At, Then, Return, StartFails
    <3> QED
      BY <3>1, <3>2, <1>12 DEF SyncBrokerSnapshot, At, Then, Return, StartFails
  <2>4. Falling'
    BY <1>12, <2>0 DEF SyncBrokerSnapshot, At, Then, Return, StartFails
  <2>5. Calm'
    BY <1>12, <2>0 DEF SyncBrokerSnapshot, At, Then, Return, StartFails
  <2>6. Wired'
    <3>1. CASE Return
      BY <1>12, <2>0, <3>1 DEF SyncBrokerSnapshot, At, Then, Return, StartFails
    <3>2. CASE Then("lanes") /\ reconciled' = trader /\ online /\ UNCHANGED life
      BY <1>12, <2>0, <3>2 DEF SyncBrokerSnapshot, At, Then, Return, StartFails
    <3> QED
      BY <3>1, <3>2, <1>12 DEF SyncBrokerSnapshot, At, Then, Return, StartFails
  <2> QED
    BY <2>1, <2>2, <2>3, <2>4, <2>5, <2>6
<1>13. CASE StartEventLanes
  <2>1. TypeOK'
    BY <1>13 DEF StartEventLanes, At, Then
  <2>2. Order'
    BY <1>13 DEF StartEventLanes, At, Then
  <2>3. Rising'
    BY <1>13 DEF StartEventLanes, At, Then
  <2>4. Falling'
    BY <1>13 DEF StartEventLanes, At, Then
  <2>5. Calm'
    BY <1>13 DEF StartEventLanes, At, Then
  <2>6. Wired'
    BY <1>13 DEF StartEventLanes, At, Then
  <2> QED
    BY <2>1, <2>2, <2>3, <2>4, <2>5, <2>6
<1>14. CASE StartStrategies
  BY <1>14 DEF StartStrategies, At, Then
<1>15. CASE StartExecution
  BY <1>15 DEF StartExecution, At, Then
<1>16. CASE StartMarketData
  BY <1>16 DEF StartMarketData, At, Then, SubscribeQuote
<1>17. CASE AdvanceReadyGates
  BY <1>17 DEF AdvanceReadyGates, At, Return, Recovered
<1>18. CASE CallStop
  <2>0. /\ state' \in States
        /\ feed' \in {"idle", feed} /\ watch' \in {"wait", watch}
    <3>1. CASE UNCHANGED threads
      BY <1>18, <3>1, TransitionLeads DEF CallStop, Transition, Moved, Notification, FeedNotifies,
         WatchNotifies, Recovered, Degraded
    <3>2. CASE Notification
      BY <3>2, NotificationLeads
    <3> QED
      BY <1>18, <3>1, <3>2 DEF CallStop
  <2>1. TypeOK'
    <3>1. state' \in States /\ initialized' \in BOOLEAN /\ running' \in BOOLEAN
      BY <1>18, <2>0 DEF CallStop
    <3>2. call' \in {"none", "Init", "Start", "Stop"} /\ stage' \in Stages /\ ((call' = "none") <=> (stage' = "idle"))
      BY <1>18, <2>0 DEF CallStop
    <3>3. enabled' \subseteq Services /\ bridge' \in [Services -> Bridges \cup {None}] /\ riskBridge' \in Bridges \cup {None}
      BY <1>18, <2>0 DEF CallStop
    <3>4. /\ quote' \in {"none", "off", "on"} /\ trader' \in Adapters \cup {None} /\ online' \in BOOLEAN
         /\ emsApi' \in Adapters \cup {None} /\ up' \subseteq Modules /\ reconciled' \in Adapters \cup {None}
      BY <1>18, <2>0 DEF CallStop
    <3>5. /\ subscription' \in {"none", "live", "refused"} /\ healthy' \in BOOLEAN
         /\ feed' \in {"idle", "valid", "invalid", "good", "bad"} /\ watch' \in {"wait", "bad"}
      BY <1>18, <2>0 DEF CallStop
    <3> QED
      BY <3>1, <3>2, <3>3, <3>4, <3>5 DEF TypeOK
  <2>2. Order'
    BY <1>18, <2>0 DEF CallStop
  <2>3. Rising'
    BY <1>18, <2>0 DEF CallStop
  <2>4. Falling'
    BY <1>18, <2>0 DEF CallStop
  <2>5. Calm'
    BY <1>18, <2>0 DEF CallStop
  <2>6. Wired'
    BY <1>18, <2>0 DEF CallStop
  <2> QED
    BY <2>1, <2>2, <2>3, <2>4, <2>5, <2>6
<1>19. CASE StopStrategies
  BY <1>19 DEF StopStrategies, Down, Then
<1>20. CASE StopMonitor
  <2>1. TypeOK'
    <3>1. state' \in States /\ initialized' \in BOOLEAN /\ running' \in BOOLEAN
      BY <1>20 DEF StopMonitor, Down, Then
    <3>2. call' \in {"none", "Init", "Start", "Stop"} /\ stage' \in Stages /\ ((call' = "none") <=> (stage' = "idle"))
      BY <1>20 DEF StopMonitor, Down, Then
    <3>3. enabled' \subseteq Services /\ bridge' \in [Services -> Bridges \cup {None}] /\ riskBridge' \in Bridges \cup {None}
      BY <1>20 DEF StopMonitor, Down, Then
    <3>4. /\ quote' \in {"none", "off", "on"} /\ trader' \in Adapters \cup {None} /\ online' \in BOOLEAN
         /\ emsApi' \in Adapters \cup {None} /\ up' \subseteq Modules /\ reconciled' \in Adapters \cup {None}
      BY <1>20 DEF StopMonitor, Down, Then
    <3>5. /\ subscription' \in {"none", "live", "refused"} /\ healthy' \in BOOLEAN
         /\ feed' \in {"idle", "valid", "invalid", "good", "bad"} /\ watch' \in {"wait", "bad"}
      BY <1>20 DEF StopMonitor, Down, Then
    <3> QED
      BY <3>1, <3>2, <3>3, <3>4, <3>5 DEF TypeOK
  <2>2. Order'
    BY <1>20 DEF StopMonitor, Down, Then
  <2>3. Rising'
    BY <1>20 DEF StopMonitor, Down, Then
  <2>4. Falling'
    BY <1>20 DEF StopMonitor, Down, Then
  <2>5. Calm'
    BY <1>20 DEF StopMonitor, Down, Then
  <2>6. Wired'
    BY <1>20 DEF StopMonitor, Down, Then
  <2> QED
    BY <2>1, <2>2, <2>3, <2>4, <2>5, <2>6
<1>21. CASE StopExecution
  BY <1>21 DEF StopExecution, Down, Then
<1>22. CASE DisconnectAdapters
  <2>1. TypeOK'
    <3>1. state' \in States /\ initialized' \in BOOLEAN /\ running' \in BOOLEAN
      BY <1>22 DEF DisconnectAdapters, Then
    <3>2. call' \in {"none", "Init", "Start", "Stop"} /\ stage' \in Stages /\ ((call' = "none") <=> (stage' = "idle"))
      BY <1>22 DEF DisconnectAdapters, Then
    <3>3. enabled' \subseteq Services /\ bridge' \in [Services -> Bridges \cup {None}] /\ riskBridge' \in Bridges \cup {None}
      BY <1>22 DEF DisconnectAdapters, Then
    <3>4. /\ quote' \in {"none", "off", "on"} /\ trader' \in Adapters \cup {None} /\ online' \in BOOLEAN
         /\ emsApi' \in Adapters \cup {None} /\ up' \subseteq Modules /\ reconciled' \in Adapters \cup {None}
      BY <1>22 DEF DisconnectAdapters, Then
    <3>5. /\ subscription' \in {"none", "live", "refused"} /\ healthy' \in BOOLEAN
         /\ feed' \in {"idle", "valid", "invalid", "good", "bad"} /\ watch' \in {"wait", "bad"}
      BY <1>22 DEF DisconnectAdapters, Then
    <3> QED
      BY <3>1, <3>2, <3>3, <3>4, <3>5 DEF TypeOK
  <2>2. Order'
    BY <1>22 DEF DisconnectAdapters, Then
  <2>3. Rising'
    BY <1>22 DEF DisconnectAdapters, Then
  <2>4. Falling'
    BY <1>22 DEF DisconnectAdapters, Then
  <2>5. Calm'
    BY <1>22 DEF DisconnectAdapters, Then
  <2>6. Wired'
    BY <1>22 DEF DisconnectAdapters, Then
  <2> QED
    BY <2>1, <2>2, <2>3, <2>4, <2>5, <2>6
<1>23. CASE StopLanes
  BY <1>23 DEF StopLanes, Down, Then
<1>24. CASE ShutdownOrders
  BY <1>24 DEF ShutdownOrders, Down, Then
<1>25. CASE ResetAdapters
  <2>1. TypeOK'
    <3>1. state' \in States /\ initialized' \in BOOLEAN /\ running' \in BOOLEAN
      BY <1>25 DEF ResetAdapters, Return, Moved, Allowed
    <3>2. call' \in {"none", "Init", "Start", "Stop"} /\ stage' \in Stages /\ ((call' = "none") <=> (stage' = "idle"))
      BY <1>25 DEF ResetAdapters, Return, Moved, Allowed
    <3>3. enabled' \subseteq Services /\ bridge' \in [Services -> Bridges \cup {None}] /\ riskBridge' \in Bridges \cup {None}
      BY <1>25 DEF ResetAdapters, Return, Moved, Allowed
    <3>4. /\ quote' \in {"none", "off", "on"} /\ trader' \in Adapters \cup {None} /\ online' \in BOOLEAN
         /\ emsApi' \in Adapters \cup {None} /\ up' \subseteq Modules /\ reconciled' \in Adapters \cup {None}
      BY <1>25 DEF ResetAdapters, Return, Moved, Allowed
    <3>5. /\ subscription' \in {"none", "live", "refused"} /\ healthy' \in BOOLEAN
         /\ feed' \in {"idle", "valid", "invalid", "good", "bad"} /\ watch' \in {"wait", "bad"}
      BY <1>25 DEF ResetAdapters, Return, Moved, Allowed
    <3> QED
      BY <3>1, <3>2, <3>3, <3>4, <3>5 DEF TypeOK
  <2>2. Order'
    BY <1>25 DEF ResetAdapters, Return, Moved, Allowed
  <2>3. Rising'
    BY <1>25 DEF ResetAdapters, Return, Moved, Allowed
  <2>4. Falling'
    BY <1>25 DEF ResetAdapters, Return, Moved, Allowed
  <2>5. Calm'
    BY <1>25 DEF ResetAdapters, Return, Moved, Allowed
  <2>6. Wired'
    BY <1>25 DEF ResetAdapters, Return, Moved, Allowed
  <2> QED
    BY <2>1, <2>2, <2>3, <2>4, <2>5, <2>6
<1>26. CASE QuoteLine
  BY <1>26 DEF QuoteLine
<1>27. CASE TraderLine
  BY <1>27 DEF TraderLine
<1>28. CASE \E kind \in {"valid", "invalid"} : TickArrives(kind)
  <2>1. TypeOK'
    BY <1>28 DEF TickArrives, MarketOnly
  <2>2. Order'
    BY <1>28 DEF TickArrives, MarketOnly
  <2>3. Rising'
    BY <1>28 DEF TickArrives, MarketOnly
  <2>4. Falling'
    BY <1>28 DEF TickArrives, MarketOnly
  <2>5. Calm'
    BY <1>28 DEF TickArrives, MarketOnly
  <2>6. Wired'
    BY <1>28 DEF TickArrives, MarketOnly
  <2> QED
    BY <2>1, <2>2, <2>3, <2>4, <2>5, <2>6
<1>29. CASE MarkHealth
  <2>1. TypeOK'
    BY <1>29 DEF MarkHealth, MarketOnly
  <2>2. Order'
    BY <1>29 DEF MarkHealth, MarketOnly
  <2>3. Rising'
    BY <1>29 DEF MarkHealth, MarketOnly
  <2>4. Falling'
    BY <1>29 DEF MarkHealth, MarketOnly
  <2>5. Calm'
    BY <1>29 DEF MarkHealth, MarketOnly
  <2>6. Wired'
    BY <1>29 DEF MarkHealth, MarketOnly
  <2> QED
    BY <2>1, <2>2, <2>3, <2>4, <2>5, <2>6
<1>30. CASE Notify
  <2>0. /\ state' \in States
        /\ state' \in {"Ready", "Frozen"} => state' = state \/ feed # "idle" \/ state = "Ready"
        /\ feed' \in {"idle", feed} /\ watch' \in {"wait", watch}
    BY <1>30, NotificationLeads DEF Notify
  <2>1. TypeOK'
    BY <1>30, <2>0 DEF Notify, MarketOnly
  <2>2. Order'
    BY <1>30, <2>0 DEF Notify, MarketOnly
  <2>3. Rising'
    BY <1>30, <2>0 DEF Notify, MarketOnly
  <2>4. Falling'
    BY <1>30, <2>0 DEF Notify, MarketOnly
  <2>5. Calm'
    BY <1>30, <2>0 DEF Notify, MarketOnly
  <2>6. Wired'
    BY <1>30, <2>0 DEF Notify, MarketOnly
  <2> QED
    BY <2>1, <2>2, <2>3, <2>4, <2>5, <2>6
<1>31. CASE Silence
  <2>1. TypeOK'
    <3>1. state' \in States /\ initialized' \in BOOLEAN /\ running' \in BOOLEAN
      BY <1>31 DEF Silence, MarketOnly
    <3>2. call' \in {"none", "Init", "Start", "Stop"} /\ stage' \in Stages /\ ((call' = "none") <=> (stage' = "idle"))
      BY <1>31 DEF Silence, MarketOnly
    <3>3. enabled' \subseteq Services /\ bridge' \in [Services -> Bridges \cup {None}] /\ riskBridge' \in Bridges \cup {None}
      BY <1>31 DEF Silence, MarketOnly
    <3>4. /\ quote' \in {"none", "off", "on"} /\ trader' \in Adapters \cup {None} /\ online' \in BOOLEAN
         /\ emsApi' \in Adapters \cup {None} /\ up' \subseteq Modules /\ reconciled' \in Adapters \cup {None}
      BY <1>31 DEF Silence, MarketOnly
    <3>5. /\ subscription' \in {"none", "live", "refused"} /\ healthy' \in BOOLEAN
         /\ feed' \in {"idle", "valid", "invalid", "good", "bad"} /\ watch' \in {"wait", "bad"}
      BY <1>31 DEF Silence, MarketOnly
    <3> QED
      BY <3>1, <3>2, <3>3, <3>4, <3>5 DEF TypeOK
  <2>2. Order'
    BY <1>31 DEF Silence, MarketOnly
  <2>3. Rising'
    BY <1>31 DEF Silence, MarketOnly
  <2>4. Falling'
    BY <1>31 DEF Silence, MarketOnly
  <2>5. Calm'
    BY <1>31 DEF Silence, MarketOnly
  <2>6. Wired'
    BY <1>31 DEF Silence, MarketOnly
  <2> QED
    BY <2>1, <2>2, <2>3, <2>4, <2>5, <2>6
<1>32. CASE UNCHANGED vars
  BY <1>32
<1> QED
  BY <1>1, <1>2, <1>3, <1>4, <1>5, <1>6, <1>7, <1>8, <1>9, <1>10,
     <1>11, <1>12, <1>13, <1>14, <1>15, <1>16, <1>17, <1>18, <1>19, <1>20,
     <1>21, <1>22, <1>23, <1>24, <1>25, <1>26, <1>27, <1>28, <1>29, <1>30,
     <1>31, <1>32 DEF Next, Owner, Control, Feed

LEMMA InvHolds == Spec => []Inv
<1>1. Init => Inv
  BY BringUpAssumption DEF Init, Inv, TypeOK, Order, Rising, Falling, Calm, Wired, Serving,
     Snapshot, Idle, Stages, Modules, Services, States
<1> QED
  BY <1>1, InvKept, PTL DEF Spec

\* Whatever the owner calls and whichever stages fail, an engine that takes
\* orders has every module up and an OMS and an EMS on the adapter in place.
THEOREM ReadyEnginesAreBacked == Spec => []ReadyIsBacked
<1>1. Inv => ReadyIsBacked
  BY DEF Inv, TypeOK, Rising, Calm, Wired, Serving, ReadyIsBacked, Modules
<1> QED
  BY <1>1, InvHolds, PTL

\* The EMS is running only with the adapter in place, and an initialized
\* engine reserves through the bridge that was injected.
THEOREM WiringHolds == Spec => []WiringOK
<1>1. Inv => WiringOK
  BY DEF Inv, Wired, WiringOK, SendsToLiveAdapter, BridgeIsCurrent
<1> QED
  BY <1>1, InvHolds, PTL

\* A failed Init and a Stop leave no module running.
THEOREM EverythingIsReleased == Spec => []NothingOutlivesStop
<1>1. Inv => NothingOutlivesStop
  BY DEF Inv, Order, Rising, Calm, Idle, NothingOutlivesStop
<1> QED
  BY <1>1, InvHolds, PTL

\* A Stop that returns leaves a state that Init can start from.
THEOREM StopsEndStopped == Spec => StopAlwaysStops
<1>1. Inv /\ [Next]_vars => [call = "Stop" /\ call' = "none" => state' = "Stopped" /\ "Initiated" \in Allowed(state')]_vars
  <2> SUFFICES ASSUME Inv, Next, call = "Stop", call' = "none"
               PROVE state' = "Stopped" /\ "Initiated" \in Allowed(state')
    BY DEF vars
  <2>1. ResetAdapters
    BY DEF Inv, Order, Next, Owner, Control, Idle, At, Then, Return, Down,
       SetBridge, SetQuoteApi, SetTraderApi, CallInit, CallStart, CallStop, ValidateSupportBridges,
       FetchRuntimeConfig, InitEngineModules, InitAdapters, Initiate, StartAdapters,
       SyncBrokerSnapshot, StartEventLanes, StartStrategies, StartExecution, StartMarketData,
       AdvanceReadyGates, StopStrategies, StopMonitor, StopExecution, DisconnectAdapters,
       StopLanes, ShutdownOrders, QuoteLine, TraderLine, Feed, TickArrives, MarkHealth, Notify,
       Silence, MarketOnly, control
  <2>2. state' = Moved("Stopped")
    BY <2>1 DEF ResetAdapters
  <2> QED
    BY <2>2 DEF Inv, TypeOK, States, Moved, Allowed
<1> QED
  BY <1>1, InvHolds, PTL DEF Spec, StopAlwaysStops
=============================================================================
