----------------------------- MODULE StrategyLanes -----------------------------
(***************************************************************************)
(* Strategies, the dispatcher that calls them, and the two event lanes:    *)
(* strategy/strategy_manager.cpp, strategy_event_dispatcher.cpp and        *)
(* strategy_plugin_loader.cpp, event_bus/quote_event_reactor.cpp,          *)
(* trader_event_reactor.cpp and event_lanes.cpp, under the calls of        *)
(* TradingEngine.  Threads: the control thread, which adds and loads       *)
(* strategies, starts and stops the engine, and the reactor thread of each *)
(* lane, which calls the handlers subscribed to it one after the other.    *)
(*                                                                         *)
(* A tick or bar is an event of the quote lane, an order or trade one of   *)
(* the trader lane: the code handles the two kinds of a lane alike, and an *)
(* event is its instrument.  The queue under a lane is EventReactorLoop,   *)
(* whose lost wakeup at its Stop is a choice here.                         *)
(*                                                                         *)
(* A handler captures a raw pointer to its dispatcher.  Calling it after   *)
(* the dispatcher is gone is undefined: the freed memory may still read    *)
(* inactive, and nothing happens, or undefined is set and nothing more is  *)
(* said.                                                                   *)
(***************************************************************************)
EXTENDS Integers, Sequences, FiniteSets, Functions

CONSTANTS
  Instruments,
  Configured,  \* strategies of the runtime configuration, from plugins
  Added,       \* strategies the caller of AddStrategy makes itself
  PluginOf,    \* the plugin of each configured strategy
  LaneRoom     \* capacity of a lane

ASSUME LanesAssumption ==
  /\ Configured \cap Added = {} /\ LaneRoom \in Nat \ {0}
  /\ PluginOf \in [Configured -> STRING]

Strategies == Configured \cup Added
None  == "none"
Lanes == {"quote", "trader"}
Engine == 0   \* the engine's own handlers, beside dispatchers 1, 2, ...

VARIABLES
  control,     \* where the control thread is
  running,     \* running_ of the engine
  plugins,     \* plugins_: names of the loaded plugins
  registered,  \* strategies_: the instances that exist
  started,     \* instances between their Start and their Stop
  routes,      \* instrument_routes_
  managerRunning, \* running_ of the StrategyManager
  dispatcher,  \* dispatcher_: number (0: none), active_, mutex_, its copies
  handlers,    \* the handlers subscribed to each lane
  queue,       \* the events of each lane
  consumer,    \* each reactor thread: pc, event, handlers left, strategies left
  undefined    \* a handler of a dead dispatcher was called

managerVars == <<plugins, registered, started, routes, managerRunning>>
laneVars == <<handlers, queue, consumer>>
vars == <<control, running, managerVars, dispatcher, laneVars, undefined>>

NoDispatcher ==
  [number |-> 0, active |-> FALSE, mutex |-> None, list |-> {},
   routes |-> [i \in Instruments |-> None]]
Resting == [pc |-> "idle", event |-> None, calls |-> <<>>, todo |-> {}]

Init ==
  /\ control = "down" /\ running = FALSE /\ undefined = FALSE
  /\ plugins = {} /\ registered = {} /\ started = {} /\ managerRunning = FALSE
  /\ routes = NoDispatcher.routes
  /\ dispatcher = NoDispatcher
  /\ handlers = [l \in Lanes |-> <<>>]
  /\ queue = [l \in Lanes |-> <<>>]
  /\ consumer = [l \in Lanes |-> Resting]

\* After an undefined step nothing more is said of the program.
At(from, to) == ~undefined /\ control = from /\ control' = to

-----------------------------------------------------------------------------
(* Registration, before Start: the lanes are at rest.                      *)

\* The tables, and the dispatcher's copies if there is one (SetRouting).
Registered(s, instruments) ==
  /\ registered' = registered \cup {s}
  /\ routes' = [i \in Instruments |-> IF i \in instruments THEN s ELSE routes[i]]
  /\ dispatcher' = IF dispatcher.number = 0 THEN dispatcher
                   ELSE [dispatcher EXCEPT !.routes = routes', !.list = registered']

Registrable(s, instruments) ==
  ~managerRunning /\ s \notin registered /\ \A i \in instruments : routes[i] = None

\* An instance whose own Init fails, or that cannot be registered, is deleted.
RegisterStrategy(s, instruments) ==
  IF Registrable(s, instruments) THEN Registered(s, instruments)
                                 ELSE UNCHANGED <<registered, routes, dispatcher>>

EngineInit ==
  /\ At("down", "initiated")
  /\ UNCHANGED <<running, managerVars, dispatcher, laneVars, undefined>>

AddStrategy(s) ==
  /\ ~undefined /\ control = "initiated" /\ ~running
  /\ \E instruments \in SUBSET Instruments : RegisterStrategy(s, instruments)
  /\ UNCHANGED <<control, running, plugins, started, managerRunning, laneVars, undefined>>

\* LoadStrategyPlugin: a file that does not load, has another ABI or a name
\* already taken is skipped; only a missing directory fails the call.
LoadStrategyPlugin ==
  /\ At("initiated", "loading")
  /\ \E found \in SUBSET {PluginOf[s] : s \in Configured} : plugins' = plugins \cup found
  /\ UNCHANGED <<running, registered, started, routes, managerRunning, dispatcher,
                 laneVars, undefined>>

\* One enabled entry of the configuration: what fails ends the call, and what
\* was registered before stays.
LoadStrategy(s) ==
  /\ ~undefined /\ control = "loading"
  /\ \/ /\ PluginOf[s] \in plugins
        /\ \E instruments \in SUBSET Instruments :
             Registrable(s, instruments) /\ Registered(s, instruments)
        /\ UNCHANGED control
     \/ control' = "initiated" /\ UNCHANGED <<registered, routes, dispatcher>>
  /\ UNCHANGED <<running, plugins, started, managerRunning, laneVars, undefined>>

\* A dispatcher is made, given the tables and subscribed to both lanes, behind
\* whoever subscribed before.  One it replaces is destroyed and stays subscribed.
MakeDispatcher(active) ==
  LET number == Len(handlers["quote"]) + 1
  IN /\ dispatcher' = [NoDispatcher EXCEPT !.number = number, !.active = active,
                                           !.routes = routes, !.list = registered]
     /\ handlers' = [l \in Lanes |-> Append(handlers[l], number)]

LoadStrategiesEnd ==
  /\ At("loading", "initiated")
  /\ Len(handlers["quote"]) < 2  \* bound: at most two loads in a session
  /\ MakeDispatcher(FALSE)
  /\ UNCHANGED <<running, managerVars, queue, consumer, undefined>>

-----------------------------------------------------------------------------
(* Start.                                                                  *)

WireTraderEventHandlers ==
  /\ At("initiated", "wired")
  /\ handlers' = [handlers EXCEPT !["trader"] = Append(@, Engine)]
  /\ UNCHANGED <<running, managerVars, dispatcher, queue, consumer, undefined>>

ManagerStart ==
  /\ At("wired", "starting")
  /\ managerRunning' = TRUE
  /\ IF dispatcher.number = 0 THEN MakeDispatcher(TRUE)
     ELSE /\ dispatcher' = [dispatcher EXCEPT !.active = TRUE]
          /\ UNCHANGED handlers
  /\ UNCHANGED <<running, plugins, registered, started, routes, queue, consumer, undefined>>

StartStrategy(s) ==
  /\ ~undefined /\ control = "starting" /\ s \in registered \ started
  /\ started' = started \cup {s}
  /\ UNCHANGED <<control, running, plugins, registered, routes, managerRunning,
                 dispatcher, laneVars, undefined>>

\* The last step of StartEngineModules.
OpenCallbacks ==
  /\ started = registered
  /\ At("starting", "running")
  /\ running' = TRUE
  /\ UNCHANGED <<managerVars, dispatcher, laneVars, undefined>>

-----------------------------------------------------------------------------
(* The SDK's callbacks and the reactor threads.                            *)

Publish(l, i) ==
  /\ ~undefined /\ running /\ Len(queue[l]) < LaneRoom
  /\ queue' = [queue EXCEPT ![l] = Append(@, i)]
  /\ UNCHANGED <<control, running, managerVars, dispatcher, handlers, consumer, undefined>>

Consumes(l, state) == ~undefined /\ consumer' = [consumer EXCEPT ![l] = state]
LanesAtRest == {"down", "initiated", "loading", "wired"}

\* An event is taken and handlers_mutex_ held until the last handler returns.
Take(l) ==
  /\ consumer[l].pc = "idle" /\ queue[l] # <<>> /\ control \notin LanesAtRest
  /\ queue' = [queue EXCEPT ![l] = Tail(@)]
  /\ Consumes(l, [Resting EXCEPT !.pc = "handlers", !.event = Head(queue[l]),
                                 !.calls = handlers[l]])
  /\ UNCHANGED <<control, running, managerVars, dispatcher, handlers, undefined>>

NextHandler(l) == [consumer[l] EXCEPT !.pc = "handlers", !.calls = Tail(@)]

HandlersDone(l) ==
  /\ consumer[l].pc = "handlers" /\ consumer[l].calls = <<>>
  /\ Consumes(l, Resting)
  /\ UNCHANGED <<control, running, managerVars, dispatcher, handlers, queue, undefined>>

Calls(l, h) == consumer[l].pc = "handlers" /\ consumer[l].calls # <<>> /\ Head(consumer[l].calls) = h

\* OnTraderOrderReport or OnTraderTradeReport, the subject of OrderFlow.
CallEngine(l) ==
  /\ Calls(l, Engine)
  /\ Consumes(l, NextHandler(l))
  /\ UNCHANGED <<control, running, managerVars, dispatcher, handlers, queue, undefined>>

\* The strategy the instrument is routed to, or all of them.
Receivers(i) == IF dispatcher.routes[i] # None THEN {dispatcher.routes[i]} ELSE dispatcher.list

\* Fault: the handler does not take the dispatcher's mutex.
CallDispatcherUnlocked(l) ==
  /\ Calls(l, dispatcher.number) /\ dispatcher.number # 0
  /\ IF dispatcher.active
     THEN /\ Consumes(l, [consumer[l] EXCEPT !.pc = "inside",
                                             !.todo = Receivers(consumer[l].event)])
     ELSE Consumes(l, NextHandler(l))
  /\ UNCHANGED <<control, running, managerVars, dispatcher, handlers, queue, undefined>>

\* OnTick, OnBar, OnOrder and OnTrade, with mutex_ held throughout.
CallDispatcher(l) ==
  /\ Calls(l, dispatcher.number) /\ dispatcher.number # 0 /\ dispatcher.mutex = None
  /\ IF dispatcher.active
     THEN /\ Consumes(l, [consumer[l] EXCEPT !.pc = "inside",
                                             !.todo = Receivers(consumer[l].event)])
          /\ dispatcher' = [dispatcher EXCEPT !.mutex = l]
     ELSE Consumes(l, NextHandler(l)) /\ UNCHANGED dispatcher
  /\ UNCHANGED <<control, running, managerVars, handlers, queue, undefined>>

\* A callback of a strategy returns, with an exception or without.
CallbackReturns(l, s) ==
  /\ consumer[l].pc = "inside" /\ s \in consumer[l].todo
  /\ Consumes(l, [consumer[l] EXCEPT !.todo = @ \ {s}])
  /\ UNCHANGED <<control, running, managerVars, dispatcher, handlers, queue, undefined>>

\* Fault: the mutex is not given up.
DispatcherReturnsLocked(l) ==
  /\ consumer[l].pc = "inside" /\ consumer[l].todo = {}
  /\ Consumes(l, NextHandler(l))
  /\ UNCHANGED <<control, running, managerVars, dispatcher, handlers, queue, undefined>>

DispatcherReturns(l) ==
  /\ consumer[l].pc = "inside" /\ consumer[l].todo = {}
  /\ Consumes(l, NextHandler(l))
  /\ dispatcher' = IF dispatcher.mutex = l THEN [dispatcher EXCEPT !.mutex = None] ELSE dispatcher
  /\ UNCHANGED <<control, running, managerVars, handlers, queue, undefined>>

CallDead(l) ==
  /\ \E h \in 1..2 : Calls(l, h) /\ h # dispatcher.number
  /\ Consumes(l, NextHandler(l))
  /\ undefined' \in BOOLEAN
  /\ UNCHANGED <<control, running, managerVars, dispatcher, handlers, queue>>

Reactor(l) ==
  \/ Take(l) \/ HandlersDone(l) \/ CallEngine(l) \/ CallDispatcher(l)
  \/ (\E s \in Strategies : CallbackReturns(l, s)) \/ DispatcherReturns(l) \/ CallDead(l)

-----------------------------------------------------------------------------
(* Stop and Release.                                                       *)

StopRunning ==
  /\ ~undefined /\ control \in {"initiated", "running"} /\ control' = "stopping"
  /\ running' = FALSE
  /\ UNCHANGED <<managerVars, dispatcher, laneVars, undefined>>

\* Fault: the destructor does not wait for a callback in progress.
DestroyAtOnce ==
  /\ At("stopping", "destroyed")
  /\ dispatcher' = NoDispatcher
  /\ UNCHANGED <<running, managerVars, laneVars, undefined>>

\* SetActive(false) and the dispatcher's destructor, which takes mutex_ once.
DestroyDispatcher ==
  /\ At("stopping", "destroyed")
  /\ dispatcher.mutex = None
  /\ dispatcher' = NoDispatcher
  /\ UNCHANGED <<running, managerVars, laneVars, undefined>>

StopStrategies ==
  /\ At("destroyed", "cleared")
  /\ started' = {} /\ managerRunning' = FALSE
  /\ registered' = {} /\ routes' = NoDispatcher.routes
  /\ UNCHANGED <<running, plugins, dispatcher, laneVars, undefined>>

UnloadAll ==
  /\ At("cleared", "unloaded")
  /\ plugins' = {}
  /\ UNCHANGED <<running, registered, started, routes, managerRunning, dispatcher,
                 laneVars, undefined>>

\* Fault: the handlers of a stopped lane stay subscribed.
StopLaneSubscribed(l, from, to) ==
  /\ At(from, to) /\ consumer[l].pc = "idle"
  /\ queue' = [queue EXCEPT ![l] = <<>>]
  /\ UNCHANGED <<running, managerVars, dispatcher, consumer, handlers, undefined>>

\* The thread of the lane is joined, its queue emptied, its handlers cleared.
StopLane(l, from, to) ==
  /\ At(from, to) /\ consumer[l].pc = "idle"
  /\ queue' = [queue EXCEPT ![l] = <<>>]
  /\ handlers' = [handlers EXCEPT ![l] = <<>>]
  /\ UNCHANGED <<running, managerVars, dispatcher, consumer, undefined>>

\* The reactor thread has found its queue empty and not begun to wait when the
\* lane's Stop notifies it: it sleeps on, and the join never returns.
StopLaneUnheard(l, from) ==
  /\ At(from, "hung") /\ consumer[l].pc = "idle" /\ queue[l] = <<>>
  /\ UNCHANGED <<running, managerVars, dispatcher, laneVars, undefined>>

LanesStop ==
  \/ StopLane("trader", "unloaded", "halfway") \/ StopLaneUnheard("trader", "unloaded")
  \/ StopLane("quote", "halfway", "down") \/ StopLaneUnheard("quote", "halfway")

ControlThread ==
  \/ EngineInit \/ (\E s \in Added : AddStrategy(s))
  \/ LoadStrategyPlugin \/ (\E s \in Configured : LoadStrategy(s)) \/ LoadStrategiesEnd
  \/ WireTraderEventHandlers \/ ManagerStart \/ (\E s \in Strategies : StartStrategy(s))
  \/ OpenCallbacks
  \/ StopRunning \/ DestroyDispatcher \/ StopStrategies \/ UnloadAll \/ LanesStop

LanesNext ==
  \/ ControlThread
  \/ \E l \in Lanes : Reactor(l)
  \/ \E l \in Lanes, i \in Instruments : Publish(l, i)

\* A thread that can go on does, and Stop, once called, is carried on.
StopSteps == DestroyDispatcher \/ StopStrategies \/ UnloadAll \/ LanesStop

Spec ==
  /\ Init /\ [][LanesNext]_vars
  /\ WF_vars(StopSteps)
  /\ \A l \in Lanes : WF_vars(Reactor(l))
-----------------------------------------------------------------------------
(* Correctness.                                                            *)

Inside(l) == consumer[l].pc = "inside"

\* Type invariant.
TypeOK ==
  /\ registered \subseteq Strategies /\ started \subseteq registered
  /\ routes \in [Instruments -> registered \cup {None}]
  /\ handlers \in [Lanes -> Seq(0..2)]
  /\ \A l \in Lanes : Len(queue[l]) <= LaneRoom /\ consumer[l].todo \subseteq Strategies

\* A reactor thread calls only strategies that exist, are between their Start
\* and their Stop and whose plugin is loaded, and of those the one its
\* instrument is routed to: Start opens the callbacks last, and Stop waits for
\* a callback in progress before it stops, deletes and unloads.
CallsLiveStrategies ==
  \A l \in Lanes : Inside(l) => \A s \in consumer[l].todo :
    /\ s \in started
    /\ s \in Configured => PluginOf[s] \in plugins
    /\ routes[consumer[l].event] \in {s, None}

\* No two threads call strategies at once, although both lanes deliver to the
\* same instances (docs/Architecture.md, strategy execution).
OneThreadInStrategies == ~(Inside("quote") /\ Inside("trader"))

\* The dispatcher's copies are the manager's tables, whether strategies were
\* added before or after the dispatcher was made.
RoutingInSync ==
  dispatcher.number # 0 => dispatcher.routes = routes /\ dispatcher.list = registered

\* The places at which a handler is subscribed to a lane.
Handles(l, h) == {i \in 1..Len(handlers[l]) : handlers[l][i] = h}

\* A running engine handles each report once and shows it to its strategies
\* once: across restarts and loads each lane has one handler of the engine's
\* (the quote lane none) and one of the live dispatcher.
SubscribedOnce ==
  running => \A l \in Lanes :
    /\ Cardinality(Handles(l, Engine)) = (IF l = "trader" THEN 1 ELSE 0)
    /\ Cardinality(Handles(l, dispatcher.number)) = 1

\* The three together: types, tables and subscriptions.
LanesConsistent == TypeOK /\ RoutingInSync /\ SubscribedOnce

\* A Stop that has begun destroys the dispatcher, stops and deletes the
\* strategies and unloads their plugins, although it waits for a callback in
\* progress on either lane, and lanes deliver meanwhile.  It gets as far as the
\* joins of the lanes' threads, which may not return (EventReactorClaims).
StopUnloads == control = "stopping" ~> (control = "unloaded" \/ undefined)

-----------------------------------------------------------------------------
(* What the documents say and the code does not do.                        *)

\* The engine's handlers see a report before the strategies do: OMS, account
\* and positions first, the strategy's mailbox after (docs/Architecture.md).
EngineBeforeStrategies ==
  Inside("trader") => Engine \notin Range(consumer["trader"].calls)

\* No handler of a destroyed dispatcher is called (strategy_manager.cpp,
\* "stop delivery and destroy the dispatcher first").
NoDeadCall == ~undefined
=============================================================================
