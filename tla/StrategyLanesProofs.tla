------------------------- MODULE StrategyLanesProofs -------------------------
(***************************************************************************)
(* Proofs about StrategyLanes for any strategies, instruments and capacity *)
(* of the lanes: the two reactor threads and the control thread keep       *)
(* strategies, plugins and subscriptions apart in every interleaving, over *)
(* any number of sessions.                                                 *)
(***************************************************************************)
EXTENDS StrategyLanes, SequenceTheorems, FiniteSetTheorems, TLAPS

Controls == {"down", "initiated", "loading", "wired", "starting", "running", "stopping",
             "destroyed", "cleared", "unloaded", "halfway", "hung"}

Consumer == [pc : {"idle", "handlers", "inside"}, event : Instruments \cup {None},
             calls : Seq(0..2), todo : SUBSET Strategies]

Dispatcher == [number : 0..2, active : BOOLEAN, mutex : Lanes \cup {None},
               list : SUBSET Strategies, routes : [Instruments -> Strategies \cup {None}]]

LanesTyped ==
  /\ control \in Controls /\ running \in BOOLEAN
  /\ registered \subseteq Strategies /\ started \subseteq registered
  /\ routes \in [Instruments -> registered \cup {None}]
  /\ dispatcher \in Dispatcher
  /\ handlers \in [Lanes -> Seq(0..2)]
  /\ queue \in [Lanes -> Seq(Instruments)] /\ \A l \in Lanes : Len(queue[l]) <= LaneRoom
  /\ consumer \in [Lanes -> Consumer]

\* A thread is among the strategies exactly while it has the dispatcher's mutex.
LockInv ==
  /\ \A l \in Lanes : Inside(l) <=> dispatcher.mutex = l
  /\ dispatcher.number = 0 => dispatcher.mutex = None

\* What is at rest, and when: without an event a thread keeps nothing of the last
\* one, and until the callbacks open the lanes are empty.
LaneRests(l) == consumer[l].pc = "idle" /\ queue[l] = <<>>

RestInv ==
  /\ \A l \in Lanes :
       /\ consumer[l].pc = "idle" => consumer[l] = Resting
       /\ consumer[l].pc # "idle" => consumer[l].event \in Instruments
       /\ Inside(l) => consumer[l].calls # <<>>
  /\ control \in LanesAtRest \cup {"starting"} => \A l \in Lanes : LaneRests(l)
  /\ control = "halfway" => LaneRests("trader") /\ handlers["trader"] = <<>>

\* How far the session is.
PhaseInv ==
  /\ running <=> control = "running"
  /\ control \in {"starting", "running"} => dispatcher.number # 0
  /\ dispatcher.active => control \in {"starting", "running", "stopping"}
  /\ dispatcher.active /\ control # "starting" => started = registered
  /\ control \in {"destroyed", "cleared", "unloaded", "halfway", "hung", "down"} =>
       dispatcher = NoDispatcher
  /\ control \in {"cleared", "unloaded", "halfway", "hung", "down"} => registered = {}

\* A plugin stays loaded while it has an instance.
PluginsInv == \A s \in registered \cap Configured : PluginOf[s] \in plugins

\* The dispatchers of a session, in the order in which they subscribed.
Dispatchers(n) == CASE n = 0 -> <<>>
                    [] n = 1 -> <<1>>
                    [] n = 2 -> <<1, 2>>

\* Until Stop a lane has the dispatchers' handlers and, once wired, the engine's.
HandlersInv ==
  LET subscribed == Dispatchers(dispatcher.number)
  IN /\ control \in LanesAtRest \cup {"starting", "running"} => handlers["quote"] = subscribed
     /\ control \in LanesAtRest \ {"wired"} => handlers["trader"] = subscribed
     /\ control = "wired" => handlers["trader"] = Append(subscribed, Engine)
     /\ control \in {"starting", "running"} =>
          \/ handlers["trader"] = Append(subscribed, Engine)
          \/ dispatcher.number = 1 /\ handlers["trader"] = <<Engine, 1>>

LanesInv ==
  /\ LanesTyped /\ LockInv /\ RestInv /\ PhaseInv /\ PluginsInv /\ HandlersInv
  /\ RoutingInSync /\ CallsLiveStrategies

-----------------------------------------------------------------------------
LEMMA LanesFacts ==
  /\ None \notin Lanes /\ "quote" \in Lanes /\ "trader" \in Lanes
  /\ NoDispatcher \in Dispatcher /\ Resting \in Consumer /\ Resting.pc = "idle"
  /\ NoDispatcher.number = 0 /\ NoDispatcher.active = FALSE /\ NoDispatcher.mutex = None
  /\ NoDispatcher.routes = [i \in Instruments |-> None]
  BY DEF None, Lanes, NoDispatcher, Dispatcher, Resting, Consumer

LEMMA DispatchersFacts ==
  /\ \A n \in 0..2 : Dispatchers(n) \in Seq(0..2) /\ Len(Dispatchers(n)) = n
  /\ \A n \in 0..1 : Append(Dispatchers(n), n + 1) = Dispatchers(n + 1)
  <1>1. /\ <<>> \in Seq(0..2) /\ <<1>> \in Seq(0..2) /\ <<1, 2>> \in Seq(0..2)
        /\ Len(<<>>) = 0 /\ Len(<<1>>) = 1 /\ Len(<<1, 2>>) = 2
    OBVIOUS
  <1>2. Append(<<>>, 1) = <<1>> /\ Append(<<1>>, 2) = <<1, 2>>
    <2>1. Append(<<>>, 1) = <<1>>
      OBVIOUS
    <2>2. Append(<<1>>, 2) = <<1, 2>>
      <3>1. PICK s, t : s = Append(<<1>>, 2) /\ t = <<1, 2>>
        OBVIOUS
      <3>2. s \in Seq(0..2) /\ Len(s) = 2 /\ s[1] = 1 /\ s[2] = 2
        BY <3>1
      <3>3. t \in Seq(0..2) /\ Len(t) = 2 /\ t[1] = 1 /\ t[2] = 2
        BY <3>1
      <3>4. \A i \in 1..2 : i = 1 \/ i = 2
        OBVIOUS
      <3> QED BY <3>1, <3>2, <3>3, <3>4, SeqEqual
    <2> QED BY <2>1, <2>2
  <1>3. Dispatchers(0) = <<>> /\ Dispatchers(1) = <<1>> /\ Dispatchers(2) = <<1, 2>>
    BY DEF Dispatchers
  <1>4. \A n \in 0..2 : n = 0 \/ n = 1 \/ n = 2
    OBVIOUS
  <1>5. \A n \in 0..1 : (n = 0 /\ n + 1 = 1) \/ (n = 1 /\ n + 1 = 2)
    OBVIOUS
  <1> QED BY <1>1, <1>2, <1>3, <1>4, <1>5

\* A thread at work in a lane implies that the callbacks were opened.
LEMMA BusyPhase ==
  ASSUME LanesInv, NEW l \in Lanes, ~LaneRests(l)
  PROVE  control \notin LanesAtRest \cup {"starting"} /\ (control = "halfway" => l = "quote")
  BY DEF LanesInv, RestInv, Lanes

\* A step of one reactor thread.
LaneMoves(l, c) ==
  /\ UNCHANGED <<control, running, managerVars, handlers>>
  /\ consumer' = [consumer EXCEPT ![l] = c] /\ c \in Consumer
  /\ c.pc = "idle" => c = Resting
  /\ c.pc # "idle" => c.event \in Instruments
  /\ c.pc = "inside" => c.calls # <<>>
  /\ queue' \in [Lanes -> Seq(Instruments)]
  /\ \A k \in Lanes : k # l => queue'[k] = queue[k]
  /\ Len(queue'[l]) <= LaneRoom

LEMMA LaneFrame ==
  ASSUME LanesInv, NEW l \in Lanes, ~LaneRests(l), NEW c, LaneMoves(l, c),
         NEW m \in Lanes \cup {None},
         dispatcher' = dispatcher
           \/ (dispatcher.number # 0 /\ dispatcher' = [dispatcher EXCEPT !.mutex = m]),
         (c.pc = "inside") <=> (dispatcher'.mutex = l),
         \A k \in Lanes : k # l => (dispatcher'.mutex = k <=> dispatcher.mutex = k),
         c.pc = "inside" => \A s \in c.todo :
           /\ s \in started
           /\ s \in Configured => PluginOf[s] \in plugins
           /\ routes[c.event] \in {s, None}
  PROVE  LanesInv'
  <1>1. control \notin LanesAtRest \cup {"starting"} /\ (control = "halfway" => l = "quote")
    BY BusyPhase
  <1>2. /\ consumer' \in [Lanes -> Consumer] /\ consumer'[l] = c
        /\ \A k \in Lanes : k # l => consumer'[k] = consumer[k]
    BY DEF LaneMoves, LanesInv, LanesTyped
  <1>3. /\ UNCHANGED <<control, running, plugins, registered, started, routes, managerRunning,
                       handlers>>
        /\ queue' \in [Lanes -> Seq(Instruments)] /\ Len(queue'[l]) <= LaneRoom
        /\ \A k \in Lanes : k # l => queue'[k] = queue[k]
        /\ c.pc = "idle" => c = Resting
        /\ c.pc # "idle" => c.event \in Instruments
        /\ c.pc = "inside" => c.calls # <<>>
    BY DEF LaneMoves, managerVars
  <1>4. /\ dispatcher' \in Dispatcher /\ dispatcher'.number = dispatcher.number
        /\ dispatcher'.active = dispatcher.active /\ dispatcher'.list = dispatcher.list
        /\ dispatcher'.routes = dispatcher.routes
        /\ dispatcher.number = 0 => dispatcher' = dispatcher
    BY DEF LanesInv, LanesTyped, Dispatcher
  <1>5. LanesTyped'
    BY <1>2, <1>3, <1>4 DEF LanesInv, LanesTyped
  <1>6. LockInv'
    BY <1>2, <1>4 DEF LanesInv, LockInv, Inside
  <1>7. RestInv'
    BY <1>1, <1>2, <1>3 DEF LanesInv, RestInv, LaneRests, Lanes, Inside
  <1>8. PhaseInv'
    BY <1>3, <1>4, LanesFacts DEF LanesInv, PhaseInv
  <1>9. PluginsInv' /\ HandlersInv' /\ RoutingInSync'
    BY <1>3, <1>4 DEF LanesInv, PluginsInv, HandlersInv, RoutingInSync
  <1>10. CallsLiveStrategies'
    BY <1>2, <1>3 DEF LanesInv, CallsLiveStrategies, Inside
  <1> QED BY <1>5, <1>6, <1>7, <1>8, <1>9, <1>10 DEF LanesInv

LEMMA ConsumerFacts ==
  ASSUME LanesInv, NEW l \in Lanes
  PROVE  /\ consumer[l] \in Consumer /\ queue \in [Lanes -> Seq(Instruments)]
         /\ Len(queue[l]) <= LaneRoom
         /\ consumer[l].calls # <<>> =>
              /\ Head(consumer[l].calls) \in 0..2
              /\ NextHandler(l) = [consumer[l] EXCEPT !.pc = "handlers", !.calls = Tail(@)]
              /\ NextHandler(l) \in Consumer /\ NextHandler(l).pc = "handlers"
              /\ NextHandler(l).event = consumer[l].event
  <1>1. consumer[l] \in Consumer
    BY DEF LanesInv, LanesTyped
  <1>2. ASSUME consumer[l].calls # <<>>
        PROVE  /\ Head(consumer[l].calls) \in 0..2
               /\ NextHandler(l) \in Consumer /\ NextHandler(l).pc = "handlers"
               /\ NextHandler(l).event = consumer[l].event
    <2>1. consumer[l].calls \in Seq(0..2)
      BY <1>1 DEF Consumer
    <2>2. Head(consumer[l].calls) \in 0..2 /\ Tail(consumer[l].calls) \in Seq(0..2)
      BY <1>2, <2>1, HeadTailProperties
    <2> QED BY <1>1, <2>2 DEF NextHandler, Consumer
  <1> QED BY <1>1, <1>2 DEF LanesInv, LanesTyped, NextHandler

\* The next handler is called, and the dispatcher is not touched.
LEMMA HandlerPassed ==
  ASSUME LanesInv, NEW l \in Lanes, consumer[l].pc = "handlers", consumer[l].calls # <<>>,
         Consumes(l, NextHandler(l)), dispatcher' = dispatcher,
         UNCHANGED <<control, running, managerVars, handlers, queue>>
  PROVE  LanesInv'
  <1>1. PICK c : c = NextHandler(l)
    OBVIOUS
  <1>2. c \in Consumer /\ c.pc = "handlers" /\ c.event \in Instruments
    BY <1>1, ConsumerFacts DEF LanesInv, RestInv
  <1>3. LaneMoves(l, c)
    BY <1>1, <1>2, ConsumerFacts DEF LaneMoves, Consumes
  <1>4. ~LaneRests(l) /\ dispatcher'.mutex # l
    BY DEF LaneRests, LanesInv, LockInv, Inside
  <1> QED BY <1>2, <1>3, <1>4, LaneFrame

LEMMA ReactorStep ==
  ASSUME LanesInv, NEW l \in Lanes, Reactor(l)
  PROVE  LanesInv'
  <1>0. /\ consumer[l] \in Consumer /\ queue \in [Lanes -> Seq(Instruments)]
        /\ Len(queue[l]) <= LaneRoom
    BY ConsumerFacts
  <1>1. CASE Take(l)
    <2>1. PICK c : c = [Resting EXCEPT !.pc = "handlers", !.event = Head(queue[l]),
                                       !.calls = handlers[l]]
      OBVIOUS
    <2>2. queue[l] \in Seq(Instruments) /\ queue[l] # <<>> /\ handlers[l] \in Seq(0..2)
      BY <1>1 DEF Take, LanesInv, LanesTyped
    <2>3. /\ Head(queue[l]) \in Instruments /\ Tail(queue[l]) \in Seq(Instruments)
          /\ Len(Tail(queue[l])) <= LaneRoom
      <3>1. Len(queue[l]) \in Nat /\ Len(Tail(queue[l])) = Len(queue[l]) - 1
        BY <2>2, HeadTailProperties, LenProperties
      <3> QED BY <1>0, <2>2, <3>1, HeadTailProperties, LanesAssumption
    <2>4. c \in Consumer /\ c.pc = "handlers" /\ c.event \in Instruments
      BY <2>1, <2>2, <2>3, LanesFacts DEF Consumer
    <2>5. LaneMoves(l, c)
      BY <1>0, <1>1, <2>1, <2>3, <2>4 DEF Take, LaneMoves, Consumes
    <2>6. dispatcher' = dispatcher /\ ~LaneRests(l) /\ dispatcher'.mutex # l
      BY <1>1, <2>2 DEF Take, LaneRests, LanesInv, LockInv, Inside
    <2> QED BY <2>4, <2>5, <2>6, LaneFrame
  <1>2. CASE HandlersDone(l)
    <2>1. LaneMoves(l, Resting)
      BY <1>0, <1>2, LanesFacts DEF HandlersDone, LaneMoves, Consumes
    <2>2. dispatcher' = dispatcher /\ ~LaneRests(l) /\ dispatcher'.mutex # l
      BY <1>2 DEF HandlersDone, LaneRests, LanesInv, LockInv, Inside
    <2> QED BY <2>1, <2>2, LanesFacts, LaneFrame
  <1>3. CASE CallEngine(l)
    BY <1>3, HandlerPassed DEF CallEngine, Calls
  <1>4. CASE CallDead(l)
    BY <1>4, HandlerPassed DEF CallDead, Calls
  <1>5. CASE CallDispatcher(l)
    <2>1. CASE ~dispatcher.active
      BY <1>5, <2>1, HandlerPassed DEF CallDispatcher, Calls
    <2>2. CASE dispatcher.active
      <3>1. PICK c : c = [consumer[l] EXCEPT !.pc = "inside",
                                             !.todo = Receivers(consumer[l].event)]
        OBVIOUS
      <3>2. /\ consumer[l].pc = "handlers" /\ consumer[l].calls # <<>>
            /\ dispatcher.number # 0 /\ dispatcher.mutex = None
            /\ dispatcher' = [dispatcher EXCEPT !.mutex = l]
            /\ Consumes(l, c)
            /\ UNCHANGED <<control, running, managerVars, handlers, queue>>
        BY <1>5, <2>2, <3>1 DEF CallDispatcher, Calls
      <3>3. consumer[l].event \in Instruments /\ ~LaneRests(l)
        BY <3>2 DEF LanesInv, RestInv, LaneRests
      <3>4. started = registered /\ dispatcher.routes = routes /\ dispatcher.list = registered
        BY <2>2, <3>2, <3>3, BusyPhase DEF LanesInv, PhaseInv, RoutingInSync
      <3>5. \A s \in Receivers(consumer[l].event) :
              s \in registered /\ routes[consumer[l].event] \in {s, None}
        BY <3>3, <3>4 DEF Receivers, LanesInv, LanesTyped
      <3>6. Receivers(consumer[l].event) \subseteq Strategies
        BY <3>5 DEF LanesInv, LanesTyped
      <3>7. /\ c \in Consumer /\ c.pc = "inside" /\ c.event = consumer[l].event
            /\ c.calls = consumer[l].calls /\ c.todo = Receivers(consumer[l].event)
        BY <1>0, <3>1, <3>6 DEF Consumer
      <3>8. LaneMoves(l, c)
        BY <1>0, <3>2, <3>3, <3>7 DEF LaneMoves, Consumes
      <3>9. /\ dispatcher'.mutex = l /\ \A k \in Lanes : k # l => dispatcher.mutex # k
        BY <3>2, LanesFacts DEF LanesInv, LanesTyped, Dispatcher
      <3>10. \A s \in c.todo :
               /\ s \in started
               /\ s \in Configured => PluginOf[s] \in plugins
               /\ routes[c.event] \in {s, None}
        BY <3>4, <3>5, <3>7 DEF LanesInv, PluginsInv
      <3> QED BY <3>2, <3>3, <3>7, <3>8, <3>9, <3>10, LaneFrame
    <2> QED BY <2>1, <2>2
  <1>6. CASE \E s \in Strategies : CallbackReturns(l, s)
    <2>1. PICK s \in Strategies : CallbackReturns(l, s)
      BY <1>6
    <2>2. PICK c : c = [consumer[l] EXCEPT !.todo = @ \ {s}]
      OBVIOUS
    <2>3. Inside(l) /\ dispatcher' = dispatcher /\ Consumes(l, c)
          /\ UNCHANGED <<control, running, managerVars, handlers, queue>>
      BY <2>1, <2>2 DEF CallbackReturns, Inside
    <2>4. /\ c \in Consumer /\ c.pc = "inside" /\ c.event = consumer[l].event
          /\ c.calls = consumer[l].calls /\ c.todo \subseteq consumer[l].todo
      BY <1>0, <2>2, <2>3 DEF Consumer, Inside
    <2>5. LaneMoves(l, c) /\ ~LaneRests(l) /\ dispatcher'.mutex = l
      BY <1>0, <2>3, <2>4 DEF LaneMoves, Consumes, LanesInv, RestInv, LaneRests, LockInv, Inside
    <2>6. \A r \in c.todo :
            /\ r \in started
            /\ r \in Configured => PluginOf[r] \in plugins
            /\ routes[c.event] \in {r, None}
      BY <2>3, <2>4 DEF LanesInv, CallsLiveStrategies
    <2> QED BY <2>3, <2>4, <2>5, <2>6, LaneFrame
  <1>7. CASE DispatcherReturns(l)
    <2>1. PICK c : c = NextHandler(l)
      OBVIOUS
    <2>2. Inside(l) /\ dispatcher.mutex = l /\ dispatcher' = [dispatcher EXCEPT !.mutex = None]
          /\ Consumes(l, c) /\ UNCHANGED <<control, running, managerVars, handlers, queue>>
      BY <1>7, <2>1 DEF DispatcherReturns, Inside, LanesInv, LockInv
    <2>3. consumer[l].calls # <<>> /\ consumer[l].event \in Instruments /\ ~LaneRests(l)
      BY <2>2 DEF LanesInv, RestInv, LaneRests, Inside
    <2>4. c \in Consumer /\ c.pc = "handlers" /\ c.event \in Instruments
      BY <2>1, <2>3, ConsumerFacts
    <2>5. LaneMoves(l, c)
      BY <1>0, <2>2, <2>4 DEF LaneMoves, Consumes
    <2>6. dispatcher'.mutex = None /\ dispatcher.number # 0
      <3>1. dispatcher \in Dispatcher
        BY DEF LanesInv, LanesTyped
      <3> QED BY <2>2, <3>1, LanesFacts DEF Dispatcher, LanesInv, LockInv
    <2> QED BY <2>2, <2>3, <2>4, <2>5, <2>6, LanesFacts, LaneFrame
  <1> QED BY <1>1, <1>2, <1>3, <1>4, <1>5, <1>6, <1>7 DEF Reactor

LEMMA PublishStep ==
  ASSUME LanesInv, NEW l \in Lanes, NEW i \in Instruments, Publish(l, i)
  PROVE  LanesInv'
  <1>1. /\ UNCHANGED <<control, running, plugins, registered, started, routes, managerRunning,
                       dispatcher, handlers, consumer>>
        /\ queue' = [queue EXCEPT ![l] = Append(@, i)] /\ Len(queue[l]) < LaneRoom /\ running
    BY DEF Publish, managerVars
  <1>2. queue \in [Lanes -> Seq(Instruments)] /\ queue[l] \in Seq(Instruments)
    BY DEF LanesInv, LanesTyped
  <1>3. Append(queue[l], i) \in Seq(Instruments) /\ Len(Append(queue[l], i)) = Len(queue[l]) + 1
    BY <1>2
  <1>4. Len(queue[l]) \in Nat
    BY <1>2, LenProperties
  <1>5. Len(Append(queue[l], i)) <= LaneRoom
    BY <1>1, <1>3, <1>4, LanesAssumption
  <1>6. LanesTyped'
    BY <1>1, <1>2, <1>3, <1>5 DEF LanesInv, LanesTyped
  <1>7. RestInv'
    <2>1. control \notin LanesAtRest \cup {"starting", "halfway"}
      BY <1>1 DEF LanesInv, PhaseInv, LanesAtRest
    <2> QED BY <1>1, <2>1 DEF LanesInv, RestInv, Inside
  <1>8. LockInv' /\ PhaseInv' /\ PluginsInv' /\ RoutingInSync' /\ CallsLiveStrategies'
    BY <1>1 DEF LanesInv, LockInv, PhaseInv, PluginsInv, RoutingInSync,
                CallsLiveStrategies, Inside
  <1>9. HandlersInv'
    BY <1>1 DEF LanesInv, HandlersInv
  <1> QED BY <1>6, <1>7, <1>8, <1>9 DEF LanesInv

-----------------------------------------------------------------------------
(* The control thread.                                                     *)

\* Before the callbacks open nobody is among the strategies.
LEMMA NobodyInside ==
  ASSUME LanesInv, control \in LanesAtRest \cup {"starting"}
  PROVE  dispatcher.mutex = None /\ \A l \in Lanes : ~Inside(l) /\ LaneRests(l)
  <1>1. \A l \in Lanes : ~Inside(l) /\ LaneRests(l)
    BY DEF LanesInv, RestInv, LaneRests, Inside
  <1> QED BY <1>1 DEF LanesInv, LockInv, LanesTyped, Dispatcher

\* A registration, in a session that has not started.
LEMMA RegisteredStep ==
  ASSUME LanesInv, control \in {"initiated", "loading"}, NEW s \in Strategies,
         NEW instruments \in SUBSET Instruments, Registered(s, instruments),
         s \in Configured => PluginOf[s] \in plugins,
         UNCHANGED <<control, running, plugins, started, managerRunning, laneVars>>
  PROVE  LanesInv'
  <1>1. /\ registered' = registered \cup {s}
        /\ routes' = [i \in Instruments |-> IF i \in instruments THEN s ELSE routes[i]]
        /\ dispatcher' = IF dispatcher.number = 0 THEN dispatcher
                         ELSE [dispatcher EXCEPT !.routes = routes', !.list = registered']
        /\ UNCHANGED <<handlers, queue, consumer>>
    BY DEF Registered, laneVars
  <1>2. dispatcher.mutex = None /\ \A l \in Lanes : ~Inside(l)
    BY NobodyInside DEF LanesAtRest
  <1>3. /\ registered' \subseteq Strategies /\ started' \subseteq registered'
        /\ routes' \in [Instruments -> registered' \cup {None}]
        /\ routes' \in [Instruments -> Strategies \cup {None}]
    BY <1>1 DEF LanesInv, LanesTyped
  <1>4. /\ dispatcher' \in Dispatcher /\ dispatcher'.number = dispatcher.number
        /\ dispatcher'.active = dispatcher.active /\ dispatcher'.mutex = dispatcher.mutex
        /\ dispatcher.number # 0 => dispatcher'.routes = routes' /\ dispatcher'.list = registered'
    <2> DEFINE rs == routes'
               rg == registered'
    <2>1. rs \in [Instruments -> Strategies \cup {None}] /\ rg \in SUBSET Strategies
      BY <1>3
    <2>2. dispatcher' = IF dispatcher.number = 0 THEN dispatcher
                        ELSE [dispatcher EXCEPT !.routes = rs, !.list = rg]
      BY <1>1
    <2>3. dispatcher \in Dispatcher
      BY DEF LanesInv, LanesTyped
    <2> HIDE DEF rs, rg
    <2>4. /\ dispatcher' \in Dispatcher /\ dispatcher'.number = dispatcher.number
          /\ dispatcher'.active = dispatcher.active /\ dispatcher'.mutex = dispatcher.mutex
          /\ dispatcher.number # 0 => dispatcher'.routes = rs /\ dispatcher'.list = rg
      BY <2>1, <2>2, <2>3 DEF Dispatcher
    <2> QED BY <2>4 DEF rs, rg
  <1>5. LanesTyped'
    BY <1>1, <1>3, <1>4 DEF LanesInv, LanesTyped
  <1>6. LockInv' /\ RestInv' /\ RoutingInSync'
    BY <1>1, <1>4 DEF LanesInv, LockInv, RestInv, RoutingInSync, Inside, LaneRests
  <1>7. PhaseInv'
    BY <1>4 DEF LanesInv, PhaseInv
  <1>8. PluginsInv' /\ HandlersInv' /\ CallsLiveStrategies'
    BY <1>1, <1>2, <1>4 DEF LanesInv, PluginsInv, HandlersInv, CallsLiveStrategies, Inside
  <1> QED BY <1>5, <1>6, <1>7, <1>8 DEF LanesInv

\* A step after which the control thread is elsewhere or more is started or
\* loaded, and nothing else is different.
LEMMA ControlFrame ==
  ASSUME LanesInv, UNCHANGED <<registered, routes, dispatcher, handlers, queue, consumer>>,
         control' \in Controls, running' \in BOOLEAN,
         started \subseteq started', started' \subseteq registered, plugins \subseteq plugins',
         RestInv', PhaseInv', HandlersInv'
  PROVE  LanesInv'
  <1>1. LanesTyped' /\ LockInv' /\ PluginsInv' /\ RoutingInSync' /\ CallsLiveStrategies'
    BY DEF LanesInv, LanesTyped, LockInv, PluginsInv, RoutingInSync, CallsLiveStrategies, Inside
  <1> QED BY <1>1 DEF LanesInv

LEMMA MakeDispatcherStep ==
  ASSUME LanesInv, NEW active \in BOOLEAN, MakeDispatcher(active),
         \/ control = "loading" /\ ~active /\ Len(handlers["quote"]) < 2
         \/ control = "wired" /\ active /\ dispatcher.number = 0
  PROVE  /\ dispatcher'.number \in 0..2 /\ dispatcher'.number # 0
         /\ dispatcher' \in Dispatcher /\ dispatcher'.active = active
         /\ dispatcher'.mutex = None
         /\ dispatcher'.routes = routes /\ dispatcher'.list = registered
         /\ handlers' \in [Lanes -> Seq(0..2)]
         /\ handlers'["quote"] = Dispatchers(dispatcher'.number)
         /\ control = "loading" => handlers'["trader"] = Dispatchers(dispatcher'.number)
         /\ control = "wired" => dispatcher'.number = 1 /\ handlers'["trader"] = <<Engine, 1>>
  <1>1. PICK n : n = Len(handlers["quote"])
    OBVIOUS
  <1>2. dispatcher \in Dispatcher /\ dispatcher.number \in 0..2
    BY DEF LanesInv, LanesTyped, Dispatcher
  <1>3. handlers["quote"] = Dispatchers(dispatcher.number)
    BY DEF LanesInv, HandlersInv, LanesAtRest
  <1>4. n = dispatcher.number
    BY <1>1, <1>2, <1>3, DispatchersFacts
  <1>5. n \in 0..1 /\ n + 1 \in 1..2 /\ n + 1 \in 0..2 /\ n + 1 # 0
    BY <1>1, <1>2, <1>4
  <1>6. /\ dispatcher' = [NoDispatcher EXCEPT !.number = n + 1, !.active = active,
                                              !.routes = routes, !.list = registered]
        /\ handlers' = [l \in Lanes |-> Append(handlers[l], n + 1)]
    BY <1>1 DEF MakeDispatcher
  <1>7. routes \in [Instruments -> Strategies \cup {None}] /\ registered \in SUBSET Strategies
    BY DEF LanesInv, LanesTyped
  <1>8. /\ dispatcher'.number = n + 1 /\ dispatcher' \in Dispatcher /\ dispatcher'.active = active
        /\ dispatcher'.mutex = None
        /\ dispatcher'.routes = routes /\ dispatcher'.list = registered
    BY <1>5, <1>6, <1>7, LanesFacts DEF NoDispatcher, Dispatcher
  <1>9. handlers' \in [Lanes -> Seq(0..2)]
    <2>1. ASSUME NEW l \in Lanes
          PROVE  Append(handlers[l], n + 1) \in Seq(0..2)
      <3>1. handlers[l] \in Seq(0..2)
        BY DEF LanesInv, LanesTyped
      <3> QED BY <1>5, <3>1
    <2> QED BY <1>6, <2>1
  <1>10. handlers'["quote"] = Dispatchers(n + 1)
    BY <1>3, <1>4, <1>5, <1>6, DispatchersFacts, LanesFacts
  <1>11. control = "loading" => handlers'["trader"] = Dispatchers(n + 1)
    <2>1. control = "loading" => handlers["trader"] = Dispatchers(n)
      BY <1>4 DEF LanesInv, HandlersInv, LanesAtRest
    <2> QED BY <1>5, <1>6, <2>1, DispatchersFacts, LanesFacts
  <1>12. control = "wired" => n = 0 /\ handlers'["trader"] = <<Engine, 1>>
    <2> SUFFICES ASSUME control = "wired"
                 PROVE  n = 0 /\ handlers'["trader"] = <<Engine, 1>>
      OBVIOUS
    <2>1. n = 0 /\ handlers["trader"] = Append(<<>>, Engine)
      BY <1>4 DEF LanesInv, HandlersInv, Dispatchers
    <2>2. Append(<<>>, 0) = <<0>>
      OBVIOUS
    <2>3. Append(<<0>>, 1) = <<0, 1>>
      <3>1. PICK s, t : s = Append(<<0>>, 1) /\ t = <<0, 1>>
        OBVIOUS
      <3>2. s \in Seq(0..2) /\ Len(s) = 2 /\ s[1] = 0 /\ s[2] = 1
        BY <3>1
      <3>3. t \in Seq(0..2) /\ Len(t) = 2 /\ t[1] = 0 /\ t[2] = 1
        BY <3>1
      <3>4. \A i \in 1..2 : i = 1 \/ i = 2
        OBVIOUS
      <3> QED BY <3>1, <3>2, <3>3, <3>4, SeqEqual
    <2>4. handlers["trader"] = <<0>> /\ handlers'["trader"] = Append(<<0>>, n + 1) /\ n + 1 = 1
      <3>1. handlers["trader"] = <<0>>
        BY <2>1, <2>2 DEF Engine
      <3>2. handlers'["trader"] = Append(handlers["trader"], n + 1)
        BY <1>6, LanesFacts
      <3>3. n + 1 = 1
        BY <2>1
      <3> QED BY <3>1, <3>2, <3>3
    <2>5. handlers'["trader"] = Append(<<0>>, 1)
      BY <2>4
    <2> QED BY <2>1, <2>3, <2>5 DEF Engine
  <1> QED BY <1>5, <1>8, <1>9, <1>10, <1>11, <1>12

LEMMA EngineInitStep ==
  ASSUME LanesInv, EngineInit
  PROVE  LanesInv'
  <1>1. /\ control = "down" /\ control' = "initiated"
        /\ UNCHANGED <<running, plugins, registered, started, routes, managerRunning,
                       dispatcher, handlers, queue, consumer>>
    BY DEF EngineInit, At, managerVars, laneVars
  <1>2. RestInv' /\ PhaseInv' /\ HandlersInv'
    BY <1>1, LanesFacts DEF LanesInv, RestInv, LaneRests, LanesAtRest, Inside, PhaseInv, HandlersInv
  <1> QED BY <1>1, <1>2, ControlFrame DEF Controls, LanesInv, LanesTyped

\* Nothing changes but what the control thread says of itself.
LEMMA AddStrategyStep ==
  ASSUME LanesInv, NEW s \in Added, AddStrategy(s)
  PROVE  LanesInv'
  <1>1. PICK instruments \in SUBSET Instruments : RegisterStrategy(s, instruments)
    BY DEF AddStrategy
  <1>2. control = "initiated" /\ s \in Strategies /\ s \notin Configured
        /\ UNCHANGED <<control, running, plugins, started, managerRunning, laneVars>>
    BY LanesAssumption DEF AddStrategy, Strategies
  <1>3. CASE Registrable(s, instruments)
    BY <1>1, <1>2, <1>3, RegisteredStep DEF RegisterStrategy
  <1>4. CASE ~Registrable(s, instruments)
    <2>1. UNCHANGED <<control, running, plugins, registered, started, routes, managerRunning,
                      dispatcher, handlers, queue, consumer>>
      BY <1>1, <1>2, <1>4 DEF RegisterStrategy, laneVars
    <2>2. RestInv' /\ PhaseInv' /\ HandlersInv'
      BY <2>1 DEF LanesInv, RestInv, LaneRests, Inside, PhaseInv, HandlersInv
    <2> QED BY <2>1, <2>2, ControlFrame DEF LanesInv, LanesTyped
  <1> QED BY <1>3, <1>4

LEMMA LoadStrategyPluginStep ==
  ASSUME LanesInv, LoadStrategyPlugin
  PROVE  LanesInv'
  <1>1. /\ control = "initiated" /\ control' = "loading" /\ plugins \subseteq plugins'
        /\ UNCHANGED <<running, registered, started, routes, managerRunning, dispatcher,
                       handlers, queue, consumer>>
    BY DEF LoadStrategyPlugin, At, laneVars
  <1>2. RestInv' /\ PhaseInv' /\ HandlersInv'
    BY <1>1 DEF LanesInv, RestInv, LaneRests, LanesAtRest, Inside, PhaseInv, HandlersInv
  <1> QED BY <1>1, <1>2, ControlFrame DEF Controls, LanesInv, LanesTyped

LEMMA LoadStrategyStep ==
  ASSUME LanesInv, NEW s \in Configured, LoadStrategy(s)
  PROVE  LanesInv'
  <1>1. /\ control = "loading" /\ s \in Strategies
        /\ UNCHANGED <<running, plugins, started, managerRunning, laneVars>>
    BY DEF LoadStrategy, Strategies
  <1>2. CASE /\ PluginOf[s] \in plugins /\ UNCHANGED control
             /\ \E instruments \in SUBSET Instruments : Registered(s, instruments)
    BY <1>1, <1>2, RegisteredStep
  <1>3. CASE control' = "initiated" /\ UNCHANGED <<registered, routes, dispatcher>>
    <2>1. UNCHANGED <<handlers, queue, consumer>>
      BY <1>1 DEF laneVars
    <2>2. RestInv' /\ PhaseInv' /\ HandlersInv'
      BY <1>1, <1>3, <2>1 DEF LanesInv, RestInv, LaneRests, LanesAtRest, Inside, PhaseInv,
                              HandlersInv
    <2> QED BY <1>1, <1>3, <2>1, <2>2, ControlFrame DEF Controls, LanesInv, LanesTyped
  <1> QED BY <1>2, <1>3 DEF LoadStrategy

\* A dispatcher is there, in the loading or in the starting session.
LEMMA MadeFrame ==
  ASSUME LanesInv, NEW active \in BOOLEAN, MakeDispatcher(active),
         \/ control = "loading" /\ ~active /\ Len(handlers["quote"]) < 2
              /\ control' = "initiated"
         \/ control = "wired" /\ active /\ dispatcher.number = 0 /\ control' = "starting",
         UNCHANGED <<running, plugins, registered, started, routes, queue, consumer>>
  PROVE  LanesInv'
  <1>1. /\ dispatcher'.number \in 0..2 /\ dispatcher'.number # 0
        /\ dispatcher' \in Dispatcher /\ dispatcher'.active = active
        /\ dispatcher'.mutex = None
        /\ dispatcher'.routes = routes /\ dispatcher'.list = registered
        /\ handlers' \in [Lanes -> Seq(0..2)]
        /\ handlers'["quote"] = Dispatchers(dispatcher'.number)
        /\ control = "loading" => handlers'["trader"] = Dispatchers(dispatcher'.number)
        /\ control = "wired" => dispatcher'.number = 1 /\ handlers'["trader"] = <<Engine, 1>>
    BY MakeDispatcherStep
  <1>2. dispatcher.mutex = None /\ \A l \in Lanes : ~Inside(l) /\ LaneRests(l)
    BY NobodyInside DEF LanesAtRest
  <1>3. control' \in {"initiated", "starting"} /\ ~running
    BY DEF LanesInv, PhaseInv
  <1>4. LanesTyped'
    BY <1>1, <1>3 DEF LanesInv, LanesTyped, Controls
  <1>5. LockInv' /\ RestInv'
    BY <1>1, <1>2, <1>3, LanesFacts DEF LanesInv, LockInv, RestInv, LaneRests, Inside
  <1>6. PhaseInv'
    BY <1>1, <1>3 DEF LanesInv, PhaseInv
  <1>7. HandlersInv'
    <2>1. CASE control = "loading"
      BY <1>1, <2>1 DEF HandlersInv, LanesAtRest
    <2>2. CASE control = "wired"
      BY <1>1, <2>2 DEF HandlersInv, LanesAtRest
    <2> QED BY <2>1, <2>2
  <1>8. PluginsInv' /\ RoutingInSync' /\ CallsLiveStrategies'
    BY <1>1, <1>2 DEF LanesInv, PluginsInv, RoutingInSync, CallsLiveStrategies, Inside
  <1> QED BY <1>4, <1>5, <1>6, <1>7, <1>8 DEF LanesInv

LEMMA LoadStrategiesEndStep ==
  ASSUME LanesInv, LoadStrategiesEnd
  PROVE  LanesInv'
  BY MadeFrame DEF LoadStrategiesEnd, At, managerVars

LEMMA WireTraderEventHandlersStep ==
  ASSUME LanesInv, WireTraderEventHandlers
  PROVE  LanesInv'
  <1>1. /\ control = "initiated" /\ control' = "wired"
        /\ handlers' = [handlers EXCEPT !["trader"] = Append(@, Engine)]
        /\ UNCHANGED <<running, plugins, registered, started, routes, managerRunning,
                       dispatcher, queue, consumer>>
    BY DEF WireTraderEventHandlers, At, managerVars
  <1>2. /\ handlers \in [Lanes -> Seq(0..2)] /\ Engine \in 0..2
        /\ handlers["trader"] \in Seq(0..2) /\ Append(handlers["trader"], Engine) \in Seq(0..2)
    BY LanesFacts DEF LanesInv, LanesTyped, Engine
  <1>3. /\ handlers' \in [Lanes -> Seq(0..2)] /\ handlers'["quote"] = handlers["quote"]
        /\ handlers'["trader"] = Append(handlers["trader"], Engine)
    BY <1>1, <1>2, LanesFacts
  <1>4. LanesTyped'
    BY <1>1, <1>3 DEF LanesInv, LanesTyped, Controls
  <1>5. LockInv' /\ PluginsInv' /\ RoutingInSync' /\ CallsLiveStrategies'
    BY <1>1 DEF LanesInv, LockInv, PluginsInv, RoutingInSync, CallsLiveStrategies, Inside
  <1>6. RestInv' /\ PhaseInv'
    BY <1>1 DEF LanesInv, RestInv, LaneRests, LanesAtRest, Inside, PhaseInv
  <1>7. HandlersInv'
    BY <1>1, <1>3 DEF LanesInv, HandlersInv, LanesAtRest
  <1> QED BY <1>4, <1>5, <1>6, <1>7 DEF LanesInv

LEMMA ManagerStartStep ==
  ASSUME LanesInv, ManagerStart
  PROVE  LanesInv'
  <1>1. /\ control = "wired" /\ control' = "starting"
        /\ UNCHANGED <<running, plugins, registered, started, routes, queue, consumer>>
    BY DEF ManagerStart, At
  <1>2. CASE dispatcher.number = 0
    BY <1>1, <1>2, MadeFrame DEF ManagerStart
  <1>3. CASE dispatcher.number # 0
    <2>1. dispatcher' = [dispatcher EXCEPT !.active = TRUE] /\ UNCHANGED handlers
      BY <1>3 DEF ManagerStart
    <2>2. dispatcher \in Dispatcher
      BY DEF LanesInv, LanesTyped
    <2>3. /\ dispatcher' \in Dispatcher /\ dispatcher'.number = dispatcher.number
          /\ dispatcher'.mutex = dispatcher.mutex /\ dispatcher'.list = dispatcher.list
          /\ dispatcher'.routes = dispatcher.routes
      BY <2>1, <2>2 DEF Dispatcher
    <2>4. LanesTyped'
      BY <1>1, <2>1, <2>3 DEF LanesInv, LanesTyped, Controls
    <2>5. LockInv' /\ PluginsInv' /\ RoutingInSync' /\ CallsLiveStrategies'
      BY <1>1, <2>3 DEF LanesInv, LockInv, PluginsInv, RoutingInSync, CallsLiveStrategies, Inside
    <2>6. RestInv' /\ PhaseInv'
      BY <1>1, <1>3, <2>1, <2>3 DEF LanesInv, RestInv, LaneRests, LanesAtRest, Inside, PhaseInv
    <2>7. HandlersInv'
      BY <1>1, <2>1, <2>3 DEF LanesInv, HandlersInv, LanesAtRest
    <2> QED BY <2>4, <2>5, <2>6, <2>7 DEF LanesInv
  <1> QED BY <1>2, <1>3

LEMMA StartStrategyStep ==
  ASSUME LanesInv, NEW s \in Strategies, StartStrategy(s)
  PROVE  LanesInv'
  <1>1. /\ control = "starting" /\ s \in registered /\ started' = started \cup {s}
        /\ UNCHANGED <<control, running, plugins, registered, routes, managerRunning,
                       dispatcher, handlers, queue, consumer>>
    BY DEF StartStrategy, laneVars
  <1>2. RestInv' /\ PhaseInv' /\ HandlersInv'
    BY <1>1 DEF LanesInv, RestInv, LaneRests, Inside, PhaseInv, HandlersInv
  <1> QED BY <1>1, <1>2, ControlFrame DEF LanesInv, LanesTyped

LEMMA OpenCallbacksStep ==
  ASSUME LanesInv, OpenCallbacks
  PROVE  LanesInv'
  <1>1. /\ control = "starting" /\ control' = "running" /\ running' = TRUE /\ started = registered
        /\ UNCHANGED <<plugins, registered, started, routes, managerRunning,
                       dispatcher, handlers, queue, consumer>>
    BY DEF OpenCallbacks, At, managerVars, laneVars
  <1>2. RestInv' /\ PhaseInv' /\ HandlersInv'
    BY <1>1 DEF LanesInv, RestInv, LaneRests, LanesAtRest, Inside, PhaseInv, HandlersInv
  <1> QED BY <1>1, <1>2, ControlFrame DEF Controls, LanesInv, LanesTyped

LEMMA StopRunningStep ==
  ASSUME LanesInv, StopRunning
  PROVE  LanesInv'
  <1>1. /\ control \in {"initiated", "running"} /\ control' = "stopping" /\ running' = FALSE
        /\ UNCHANGED <<plugins, registered, started, routes, managerRunning,
                       dispatcher, handlers, queue, consumer>>
    BY DEF StopRunning, managerVars, laneVars
  <1>2. RestInv' /\ PhaseInv' /\ HandlersInv'
    BY <1>1 DEF LanesInv, RestInv, LaneRests, LanesAtRest, Inside, PhaseInv, HandlersInv
  <1> QED BY <1>1, <1>2, ControlFrame DEF Controls, LanesInv, LanesTyped

LEMMA DestroyDispatcherStep ==
  ASSUME LanesInv, DestroyDispatcher
  PROVE  LanesInv'
  <1>1. /\ control = "stopping" /\ control' = "destroyed" /\ dispatcher.mutex = None
        /\ dispatcher' = NoDispatcher
        /\ UNCHANGED <<running, plugins, registered, started, routes, managerRunning,
                       handlers, queue, consumer>>
    BY DEF DestroyDispatcher, At, managerVars, laneVars
  <1>2. \A l \in Lanes : ~Inside(l)
    BY <1>1, LanesFacts DEF LanesInv, LockInv
  <1>3. LanesTyped'
    BY <1>1, LanesFacts DEF LanesInv, LanesTyped, Controls
  <1>4. LockInv' /\ RoutingInSync' /\ PhaseInv'
    BY <1>1, <1>2, LanesFacts DEF LanesInv, LockInv, RoutingInSync, PhaseInv, Inside
  <1>5. RestInv' /\ HandlersInv'
    BY <1>1 DEF LanesInv, RestInv, LaneRests, LanesAtRest, Inside, HandlersInv
  <1>6. PluginsInv' /\ CallsLiveStrategies'
    BY <1>1 DEF LanesInv, PluginsInv, CallsLiveStrategies, Inside
  <1> QED BY <1>3, <1>4, <1>5, <1>6 DEF LanesInv

\* After the dispatcher is gone no thread is among the strategies.
LEMMA NobodyLeft ==
  ASSUME LanesInv, control \in {"destroyed", "cleared", "unloaded", "halfway", "down"}
  PROVE  dispatcher = NoDispatcher /\ \A l \in Lanes : ~Inside(l)
  BY LanesFacts DEF LanesInv, PhaseInv, LockInv

LEMMA StopStrategiesStep ==
  ASSUME LanesInv, StopStrategies
  PROVE  LanesInv'
  <1>1. /\ control = "destroyed" /\ control' = "cleared"
        /\ started' = {} /\ registered' = {} /\ routes' = NoDispatcher.routes
        /\ UNCHANGED <<running, plugins, dispatcher, handlers, queue, consumer>>
    BY DEF StopStrategies, At, laneVars
  <1>2. dispatcher = NoDispatcher /\ \A l \in Lanes : ~Inside(l)
    BY <1>1, NobodyLeft
  <1>3. routes' \in [Instruments -> registered' \cup {None}]
    BY <1>1, LanesFacts
  <1>4. LanesTyped'
    BY <1>1, <1>3 DEF LanesInv, LanesTyped, Controls
  <1>5. LockInv' /\ RoutingInSync' /\ PhaseInv'
    BY <1>1, <1>2, LanesFacts DEF LanesInv, LockInv, RoutingInSync, PhaseInv, Inside
  <1>6. RestInv' /\ HandlersInv'
    BY <1>1 DEF LanesInv, RestInv, LaneRests, LanesAtRest, Inside, HandlersInv
  <1>7. PluginsInv' /\ CallsLiveStrategies'
    BY <1>1, <1>2 DEF PluginsInv, CallsLiveStrategies, Inside
  <1> QED BY <1>4, <1>5, <1>6, <1>7 DEF LanesInv

LEMMA UnloadAllStep ==
  ASSUME LanesInv, UnloadAll
  PROVE  LanesInv'
  <1>1. /\ control = "cleared" /\ control' = "unloaded"
        /\ UNCHANGED <<running, registered, started, routes, dispatcher, handlers, queue, consumer>>
    BY DEF UnloadAll, At, laneVars
  <1>2. dispatcher = NoDispatcher /\ (\A l \in Lanes : ~Inside(l)) /\ registered = {}
    BY <1>1, NobodyLeft DEF LanesInv, PhaseInv
  <1>3. LanesTyped'
    BY <1>1 DEF LanesInv, LanesTyped, Controls
  <1>4. LockInv' /\ RoutingInSync' /\ PhaseInv'
    BY <1>1, <1>2, LanesFacts DEF LanesInv, LockInv, RoutingInSync, PhaseInv, Inside
  <1>5. RestInv' /\ HandlersInv'
    BY <1>1 DEF LanesInv, RestInv, LaneRests, LanesAtRest, Inside, HandlersInv
  <1>6. PluginsInv' /\ CallsLiveStrategies'
    BY <1>1, <1>2 DEF PluginsInv, CallsLiveStrategies, Inside
  <1> QED BY <1>3, <1>4, <1>5, <1>6 DEF LanesInv

\* A Stop that hangs in a lane's join changes nothing more.
LEMMA StopLaneUnheardStep ==
  ASSUME LanesInv, NEW l, NEW from \in {"unloaded", "halfway"}, StopLaneUnheard(l, from)
  PROVE  LanesInv'
  <1>1. /\ control \in {"unloaded", "halfway"} /\ control' = "hung"
        /\ UNCHANGED <<running, plugins, registered, started, routes, dispatcher, handlers,
                       queue, consumer>>
    BY DEF StopLaneUnheard, At, managerVars, laneVars
  <1>2. LanesTyped' /\ LockInv' /\ RoutingInSync' /\ PluginsInv' /\ CallsLiveStrategies'
    BY <1>1 DEF LanesInv, LanesTyped, Controls, LockInv, RoutingInSync, PluginsInv,
                CallsLiveStrategies, Inside
  <1>3. RestInv' /\ PhaseInv'
    BY <1>1 DEF LanesInv, RestInv, LaneRests, LanesAtRest, PhaseInv, Inside
  <1>4. HandlersInv'
    BY <1>1 DEF HandlersInv, LanesAtRest
  <1> QED BY <1>2, <1>3, <1>4 DEF LanesInv

LEMMA StopLaneStep ==
  ASSUME LanesInv, StopLane("trader", "unloaded", "halfway") \/ StopLane("quote", "halfway", "down")
  PROVE  LanesInv'
  <1> DEFINE Joined(l) ==
        /\ consumer[l].pc = "idle"
        /\ queue' = [queue EXCEPT ![l] = <<>>] /\ handlers' = [handlers EXCEPT ![l] = <<>>]
        /\ UNCHANGED <<running, plugins, registered, started, routes, dispatcher, consumer>>
  <1>1. PICK l \in Lanes : Joined(l)
          /\ \/ l = "trader" /\ control = "unloaded" /\ control' = "halfway"
             \/ l = "quote" /\ control = "halfway" /\ control' = "down"
    BY LanesFacts DEF StopLane, At, managerVars
  <1>2. dispatcher = NoDispatcher /\ (\A k \in Lanes : ~Inside(k)) /\ registered = {}
    BY <1>1, NobodyLeft DEF LanesInv, PhaseInv
  <1>3. /\ queue' \in [Lanes -> Seq(Instruments)] /\ queue'[l] = <<>> /\ Len(queue'[l]) <= LaneRoom
        /\ \A k \in Lanes : k # l => queue'[k] = queue[k]
        /\ handlers' \in [Lanes -> Seq(0..2)] /\ handlers'[l] = <<>>
        /\ \A k \in Lanes : k # l => handlers'[k] = handlers[k]
    <2>1. <<>> \in Seq(Instruments) /\ <<>> \in Seq(0..2) /\ Len(<<>>) <= LaneRoom
      BY LanesAssumption
    <2> QED BY <1>1, <2>1 DEF LanesInv, LanesTyped
  <1>4. LanesTyped'
    BY <1>1, <1>3 DEF LanesInv, LanesTyped, Controls
  <1>5. LockInv' /\ RoutingInSync' /\ PhaseInv'
    BY <1>1, <1>2, LanesFacts DEF LanesInv, LockInv, RoutingInSync, PhaseInv, Inside
  <1>6. RestInv'
    BY <1>1, <1>3 DEF LanesInv, RestInv, LaneRests, LanesAtRest, Inside, Lanes
  <1>7. HandlersInv'
    <2>1. control' = "down" => handlers'["quote"] = <<>> /\ handlers'["trader"] = <<>>
      BY <1>1, <1>3, LanesFacts DEF LanesInv, RestInv
    <2>2. dispatcher'.number = 0 /\ Dispatchers(0) = <<>>
      BY <1>1, <1>2, LanesFacts DEF Dispatchers
    <2> QED BY <1>1, <2>1, <2>2 DEF HandlersInv, LanesAtRest
  <1>8. PluginsInv' /\ CallsLiveStrategies'
    BY <1>1, <1>2 DEF PluginsInv, CallsLiveStrategies, Inside
  <1> QED BY <1>4, <1>5, <1>6, <1>7, <1>8 DEF LanesInv

LEMMA ControlStep ==
  ASSUME LanesInv, ControlThread
  PROVE  LanesInv'
  BY EngineInitStep, AddStrategyStep, LoadStrategyPluginStep, LoadStrategyStep,
     LoadStrategiesEndStep, WireTraderEventHandlersStep, ManagerStartStep, StartStrategyStep,
     OpenCallbacksStep, StopRunningStep, DestroyDispatcherStep, StopStrategiesStep,
     UnloadAllStep, StopLaneStep, StopLaneUnheardStep
  DEF ControlThread, LanesStop

-----------------------------------------------------------------------------
LEMMA LanesInitially == Init => LanesInv
  <1> SUFFICES ASSUME Init PROVE LanesInv
    OBVIOUS
  <1>1. /\ control = "down" /\ running = FALSE /\ plugins = {} /\ registered = {} /\ started = {}
        /\ routes = [i \in Instruments |-> None] /\ dispatcher = NoDispatcher
        /\ handlers = [l \in Lanes |-> <<>>] /\ queue = [l \in Lanes |-> <<>>]
        /\ consumer = [l \in Lanes |-> Resting]
    BY LanesFacts DEF Init
  <1>2. /\ <<>> \in Seq(0..2) /\ <<>> \in Seq(Instruments) /\ Len(<<>>) = 0 /\ 0 <= LaneRoom
    BY LanesAssumption
  <1>3. LanesTyped
    BY <1>1, <1>2, LanesFacts DEF LanesTyped, Controls
  <1>4. \A l \in Lanes : LaneRests(l) /\ ~Inside(l) /\ consumer[l] = Resting
    BY <1>1, LanesFacts DEF LaneRests, Inside
  <1>5. LockInv /\ RestInv /\ CallsLiveStrategies
    BY <1>1, <1>4, LanesFacts DEF LockInv, RestInv, CallsLiveStrategies
  <1>6. PhaseInv /\ PluginsInv /\ RoutingInSync
    BY <1>1, LanesFacts DEF PhaseInv, PluginsInv, RoutingInSync
  <1>7. HandlersInv
    <2>1. dispatcher.number = 0 /\ Dispatchers(0) = <<>>
      BY <1>1, LanesFacts DEF Dispatchers
    <2> QED BY <1>1, <2>1, LanesFacts DEF HandlersInv, LanesAtRest
  <1> QED BY <1>3, <1>5, <1>6, <1>7 DEF LanesInv

LEMMA LanesStep == LanesInv /\ [LanesNext]_vars => LanesInv'
  <1> SUFFICES ASSUME LanesInv, [LanesNext]_vars
               PROVE  LanesInv'
    OBVIOUS
  <1>1. CASE ControlThread
    BY <1>1, ControlStep
  <1>2. CASE \E l \in Lanes : Reactor(l)
    BY <1>2, ReactorStep
  <1>3. CASE \E l \in Lanes, i \in Instruments : Publish(l, i)
    BY <1>3, PublishStep
  <1>4. CASE UNCHANGED vars
    <2>1. UNCHANGED <<control, running, plugins, registered, started, routes, managerRunning,
                      dispatcher, handlers, queue, consumer>>
      BY <1>4 DEF vars, managerVars, laneVars
    <2>2. RestInv' /\ PhaseInv' /\ HandlersInv'
      BY <2>1 DEF LanesInv, RestInv, LaneRests, Inside, PhaseInv, HandlersInv
    <2> QED BY <2>1, <2>2, ControlFrame DEF LanesInv, LanesTyped
  <1> QED BY <1>1, <1>2, <1>3, <1>4 DEF LanesNext

\* In every interleaving of the control thread with the two reactor threads, over
\* any number of sessions, the inductive invariant holds.
THEOREM LanesInvariant == Spec => []LanesInv
  BY LanesInitially, LanesStep, PTL DEF Spec

\* A reactor thread calls only strategies that exist, are started and not yet
\* stopped, whose plugin is loaded, and of those the one its instrument is
\* routed to (StrategyManager::Stop, StrategyEventDispatcher).
THEOREM CallsLive == Spec => []CallsLiveStrategies
  <1>1. LanesInv => CallsLiveStrategies
    BY DEF LanesInv
  <1> QED BY <1>1, LanesInvariant, PTL

\* The two reactor threads are never among the strategies at once
\* (StrategyEventDispatcher::mutex_).
THEOREM OneThread == Spec => []OneThreadInStrategies
  <1>1. LanesInv => OneThreadInStrategies
    BY LanesFacts DEF LanesInv, LockInv, OneThreadInStrategies
  <1> QED BY <1>1, LanesInvariant, PTL

\* The places of a handler among those a running engine has subscribed.
LEMMA SubscribedFacts ==
  ASSUME LanesInv, running
  PROVE  SubscribedOnce
  <1>1. PICK n : n = dispatcher.number
    OBVIOUS
  <1>2. control = "running" /\ n \in {1, 2}
    BY <1>1 DEF LanesInv, LanesTyped, Dispatcher, PhaseInv
  <1>3. handlers["quote"] = Dispatchers(n)
    BY <1>1, <1>2 DEF LanesInv, HandlersInv
  <1>4. \/ handlers["trader"] = Append(Dispatchers(n), 0)
        \/ n = 1 /\ handlers["trader"] = <<0, 1>>
    BY <1>1, <1>2 DEF LanesInv, HandlersInv, Engine
  <1>5. Dispatchers(1) = <<1>> /\ Dispatchers(2) = <<1, 2>>
    BY DEF Dispatchers
  <1> DEFINE Places(s, h) == {i \in 1..Len(s) : s[i] = h}
  <1>6. \A l \in Lanes, h \in 0..2 : Handles(l, h) = Places(handlers[l], h)
    BY DEF Handles
  <1>7. Places(<<1>>, 0) = {} /\ Places(<<1>>, 1) = {1}
    OBVIOUS
  <1>8. Places(<<1, 2>>, 0) = {} /\ Places(<<1, 2>>, 2) = {2}
    <2>1. PICK t : t = <<1, 2>>
      OBVIOUS
    <2>2. Len(t) = 2 /\ t[1] = 1 /\ t[2] = 2
      BY <2>1
    <2>3. Places(t, 0) = {} /\ Places(t, 2) = {2}
      BY <2>2
    <2> QED BY <2>1, <2>3
  <1>9. Places(<<0, 1>>, 0) = {1} /\ Places(<<0, 1>>, 1) = {2}
    <2>1. PICK t : t = <<0, 1>>
      OBVIOUS
    <2>2. Len(t) = 2 /\ t[1] = 0 /\ t[2] = 1
      BY <2>1
    <2>3. Places(t, 0) = {1} /\ Places(t, 1) = {2}
      BY <2>2
    <2> QED BY <2>1, <2>3
  <1>10. Places(Append(<<1>>, 0), 0) = {2} /\ Places(Append(<<1>>, 0), 1) = {1}
    <2>1. PICK t : t = Append(<<1>>, 0)
      OBVIOUS
    <2>2. Len(t) = 2 /\ t[1] = 1 /\ t[2] = 0
      BY <2>1
    <2>3. Places(t, 0) = {2} /\ Places(t, 1) = {1}
      BY <2>2
    <2> QED BY <2>1, <2>3
  <1>11. Places(Append(<<1, 2>>, 0), 0) = {3} /\ Places(Append(<<1, 2>>, 0), 2) = {2}
    <2>1. PICK t : t = Append(<<1, 2>>, 0)
      OBVIOUS
    <2>2. Len(t) = 3 /\ t[1] = 1 /\ t[2] = 2 /\ t[3] = 0
      BY <2>1
    <2>3. Places(t, 0) = {3} /\ Places(t, 2) = {2}
      BY <2>2
    <2> QED BY <2>1, <2>3
  <1> HIDE DEF Places
  <1>12. /\ Handles("quote", 0) = {} /\ \E i \in Nat : Handles("quote", n) = {i}
         /\ \E i \in Nat : Handles("trader", 0) = {i}
         /\ \E i \in Nat : Handles("trader", n) = {i}
    <2>1. CASE n = 1
      <3>1. \A l \in Lanes : Handles(l, 0) = Places(handlers[l], 0) /\ Handles(l, 1) = Places(handlers[l], 1)
        BY <1>6
      <3>2. handlers["quote"] = <<1>>
        BY <1>3, <1>5, <2>1
      <3>3. handlers["trader"] = Append(<<1>>, 0) \/ handlers["trader"] = <<0, 1>>
        BY <1>4, <1>5, <2>1
      <3>4. Handles("quote", 0) = {} /\ Handles("quote", 1) = {1}
        BY <1>7, <3>1, <3>2, LanesFacts
      <3>5. CASE handlers["trader"] = Append(<<1>>, 0)
        <4>1. Handles("trader", 0) = {2} /\ Handles("trader", 1) = {1}
          BY <1>10, <3>1, <3>5, LanesFacts
        <4> QED BY <2>1, <3>4, <4>1
      <3>6. CASE handlers["trader"] = <<0, 1>>
        <4>1. Handles("trader", 0) = {1} /\ Handles("trader", 1) = {2}
          BY <1>9, <3>1, <3>6, LanesFacts
        <4> QED BY <2>1, <3>4, <4>1
      <3> QED BY <3>3, <3>5, <3>6
    <2>2. CASE n = 2
      <3>1. \A l \in Lanes : Handles(l, 0) = Places(handlers[l], 0) /\ Handles(l, 2) = Places(handlers[l], 2)
        BY <1>6
      <3>2. handlers["quote"] = <<1, 2>> /\ handlers["trader"] = Append(<<1, 2>>, 0)
        <4>1. n # 1 /\ Dispatchers(n) = Dispatchers(2)
          BY <2>2
        <4>2. handlers["quote"] = Dispatchers(2) /\ handlers["trader"] = Append(Dispatchers(2), 0)
          BY <1>3, <1>4, <4>1
        <4>3. PICK t : t = <<1, 2>>
          OBVIOUS
        <4>4. Dispatchers(2) = t
          BY <1>5, <4>3
        <4> QED BY <4>2, <4>3, <4>4
      <3>3. Handles("quote", 0) = {} /\ Handles("quote", 2) = {2}
        BY <1>8, <3>1, <3>2, LanesFacts
      <3>4. Handles("trader", 0) = {3} /\ Handles("trader", 2) = {2}
        BY <1>11, <3>1, <3>2, LanesFacts
      <3> QED BY <2>2, <3>3, <3>4
    <2> QED BY <1>2, <2>1, <2>2
  <1>13. Cardinality({}) = 0 /\ \A i \in Nat : Cardinality({i}) = 1
    BY FS_EmptySet, FS_Singleton
  <1>14. /\ Cardinality(Handles("quote", 0)) = 0 /\ Cardinality(Handles("quote", n)) = 1
         /\ Cardinality(Handles("trader", 0)) = 1 /\ Cardinality(Handles("trader", n)) = 1
    BY <1>12, <1>13
  <1> QED BY <1>1, <1>14 DEF SubscribedOnce, Engine, Lanes

\* The tables of the manager and of its dispatcher are one, and a running engine
\* has each handler subscribed once to each lane, across restarts and loads
\* (PushRoutingToDispatcherLocked, and the reactors as they subscribe and stop).
THEOREM LanesAgree == Spec => []LanesConsistent
  <1>1. LanesInv => LanesConsistent
    <2> SUFFICES ASSUME LanesInv PROVE LanesConsistent
      OBVIOUS
    <2>1. TypeOK
      BY DEF LanesInv, LanesTyped, TypeOK, Consumer
    <2>2. SubscribedOnce
      BY SubscribedFacts DEF SubscribedOnce
    <2> QED BY <2>1, <2>2 DEF LanesConsistent, LanesInv
  <1> QED BY <1>1, LanesInvariant, PTL
=============================================================================
