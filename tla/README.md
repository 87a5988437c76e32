# qtrade: a TLA+ model of the trading engine

These modules model `qtrade_engine`: the order manager, the way of an order from a
strategy to the venue and back, the checks before it, the books that follow the
venue, the event lanes and the strategies they call, and the engine's life from
the injection of its adapters to `Stop`. TLC checks them on small instances; TLAPS
proves invariants of all of them for every instance. Line numbers refer to the
repository's files; `PROJECT.json` maps each definition to its lines.

## 1. The system

All paths are under `src/qtrade_engine/` unless they start with another directory.

| Component | State | Operations | Modelled in |
|---|---|---|---|
| OrderManager (OMS), `oms/` | `orders_`, `client_order_index_`, applied trade keys, id counter, reconciled ids; one mutex | allocate, create, cancel, mark queued / pending, record send / cancel result, order and trade reports, reconcile, counts | `OrderManager` |
| OrderPipeline, `core/order_pipeline.cpp` | none of its own; runs on callers' threads | `Submit`, `Cancel`, `SubmitBatch` | `OrderFlow`, `Admission` |
| ExecutionManager (EMS), `ems/` | bounded queue, `running_`, one worker thread | `SetTraderApi`, `Start`, `Enqueue`, `EnqueueCancel`, `Run`, `Stop` | `OrderFlow`, `EngineBringUp` (partly) |
| EventReactorLoop, `event_bus/event_reactor_loop.cpp` | bounded queue, `running_`, `accepting_`, counters, one thread | `Start`, `Publish`, `RunOnce`, `Stop`, `SetLanePolicy` | `EventReactorLoop` |
| EventLanes, Quote/TraderEventReactor, `event_bus/` | two loops, the handlers registered with each | register, dispatch, start, stop in order | `StrategyLanes` (partly) |
| EngineLifecycle, `core/engine_lifecycle.cpp` | atomic state, reason under a mutex | `Transition`, `State`, `Reason`, `IsReady` | `EngineLifecycle` |
| QuoteHealthMonitor, `core/quote_health_monitor.cpp` | `running_`, `healthy_`, last tick, one thread | `Start`, `Stop`, ticks, `WatchHealth` | `EngineLifecycle` (partly) |
| TradingEngine, `trading_engine.cpp` | owns all of these, `running_`, `initialized_` | `Init`, `Start`, `Stop`, setters, report handlers, order sender, health callback, `OnEngineConfig`, `SynchronizeBrokerState` | `EngineBringUp`, `EngineLifecycle`, `BrokerSync`, `OrderFlow`, `Admission` (partly) |
| AccountManager, `account/` | asset snapshot, cash flow, frozen amount per order, applied trades | snapshot, order report, trade report | `AccountManager` |
| PositionManager, `position/` | a row per instrument and direction, applied trades | snapshot, trade report | `PositionManager` |
| RiskManager, `risk/`; ComplianceManager, `cms/` | limits; rules | `Configure`, `CheckOrder` | `Admission` |
| StrategyManager, dispatcher, plugin loader, `strategy/` | strategies, routes, plugins, the dispatcher's copies under a mutex | load, add, start, stop, dispatch | `StrategyLanes` (partly) |
| trade deduplication, payload validation, `utils/` | none | key of a trade, checks of a payload | `SdkReports` (partly) |
| boot, configuration files, logging, JSON, files | none that a protocol depends on | I/O | `EngineBringUp` has the owner's calls only |
| account-risk service, venue, config service (`include/qtrade/bridge`, adapters) | external | reserve, query, release, send, cancel, reports | as environments |

How they meet. A strategy thread calls the order sender, which reads `IsReady` and
runs `OrderPipeline::Submit`: compliance, risk, lookup by `client_order_id`,
allocation of an id, reservation with the account-risk service, creation in the
OMS, and queueing at the EMS. The EMS worker takes items, marks the order in the
OMS, calls the venue and records the result. The venue calls back on threads of
its adapter; the callbacks publish to Lane-T, whose single reactor thread applies
each report to the OMS and releases the reservation of an order that is finished.
Market data takes Lane-Q in the same way and feeds the health monitor, which
calls back into the engine and moves the life cycle between Ready and Frozen.

What is hard about it:

* A decision is made on state that another thread changes: the lookup before
  creation, `Prepared` before queueing, `IsReady` before submission, the state read
  before `Transition`.
* Results and reports of one order come in any order: the venue may acknowledge or
  fill before `SendOrder` has returned, a cancellation overtakes its order in the
  EMS queue, a cumulative snapshot and the trade it includes both count.
* Outcomes are unknown: a reservation or a send times out.
* Queues are bounded: a full EMS queue must undo a submission; a full Lane-T refuses
  a report and a full Lane-Q gives up its oldest event.
* Flags and notifications are set without the mutex their reader waits under.
* `Stop` runs against all of it, and the engine may be initialised again.

What makes each part correct. The OMS never names two orders by one client id, never
takes an order back, and its two tables agree. The flow sends an order at most once,
only with its reservation and only while the OMS expects it; a live order keeps its
reservation, a finished one gives it back. After a start and whatever reports follow,
orders and position agree with the venue, and the funds are its cash less an amount that
covers every open order. One configuration at a time is in force, and concurrent
submissions overrun its limits by a bounded amount only, beside what a start adopts. A lane
loses, doubles and reorders nothing; no strategy is called by two threads, nor after
its end. The life cycle follows its table, ends quiet, and does not stay Ready when a
healthy market falls silent; a ready engine has all its parts, a stopped one has none left. The hazards in
`PROJECT.json` give the line of each danger and the property that watches it.

## 2. Modules

```
SdkReports --> PositionManager --\
     \                             \
      \--> AccountManager ----> BrokerSync --> MCBrokerSync
                               /      \------> BrokerSyncProofs
OrderContract <.. OrderManager --> OrderFlow --> OrderFlowClaims --> MCOrderFlow
                    |  |  \             \------> OrderFlowProofs
                    |  |   \-----> Admission --> MCAdmission
                    |  |                \------> AdmissionProofs
                    |  \-> MCOrderManager
                    \----> OrderManagerProofs
LaneContract <.. EventReactorLoop --> EventReactorClaims --> MCEventReactorLoop
                      \--> EventReactorLoopProofs
StrategyLanes ----> MCStrategyLanes
     \--> StrategyLanesProofs
EngineLifecycle --> EngineLifecycleClaims
     \--> EngineLifecycleProofs
EngineBringUp ----> EngineBringUpProofs
```

`OrderFlowProofs`, `AdmissionProofs` and `BrokerSyncProofs` extend `OrderManagerProofs` too, whose
lemmas they use. An arrow is EXTENDS, `<..` a refinement (INSTANCE ... WITH). An `MC` module gives the
constants of an instance. A `Claims` module holds statements of the repository's
documents that the code does not keep (section 5); in the other modules they follow
the properties.

**OrderManager** (`oms/order_manager.cpp`). Every public operation runs under one mutex
and is one action. `orders` holds a row for each identifier, with state `"Absent"` for
those not in the table. `Successors` is the table of `CanTransition`; `ApplyTransition`
leaves a row alone when the transition is illegal; `Merged` drops a report whole when its
projected state is illegal. What a caller is told is given by `TransitionRc`,
`CreateResult` and the lookups. `Next` is the most general client. Volumes stand for
notionals at unit price; instruments, prices, texts and `submit_status` are left out.

**OrderFlow** extends it with the pipeline, the EMS, the venue, Lane-T's thread and the
reservation. Each caller, the worker and the lane thread is a program counter, and a
step is one locked OMS operation, one call outside, or one locked region: for `Submit`
`Admit, Allocate, Reserve, QueryReservation, Create, CheckPrepared, Mark, Enqueue,
UndoSubmit, ReleaseSubmit`; for `Cancel` `LookupCancel` (which takes the broker id that
is sent later), `AcceptCancel, EnqueueCancel, UndoCancel`; for the worker `WorkerTake,
WorkerMark, WorkerRefused, WorkerSend, WorkerRecordSend, WorkerRelease, WorkerCancel,
WorkerRecordCancel`; for Lane-T `HandleReport` and `FinishReport`, which reads the OMS
again as the handlers do. `Venue` is external: it reports in order, fills one unit at
a time, may reject, cancel when asked (or unasked: `VenueMayCancel`), and repeat the
last trade once the lane is empty (`VenueRepeats`). `VenueStyle` says whether a fill is
a trade alone, as from the stub in `test/`, or comes with a snapshot after or before it.

**EventReactorLoop** (`event_bus/event_reactor_loop.cpp`) is at the grain of `mutex_`,
`cv_` and the two atomics: a test of the wait and the wait itself are two steps that hold
the mutex, `Stop`'s writes and its notification are three that do not. Events are
numbered in the order of insertion.

**LaneContract** is the abstract specification of a lane, with no word of threads, mutex or
policies: a bounded queue that is closed, open or closing, takes an event only while open and behind all that
wait, gives up only the oldest and only if it may be full, hands each event over once, in its turn, and none once
it has closed. `LaneIsQueue` in `EventReactorLoop` is the contract under `LanePhase` (open while `accepting_`
is set, closing until `Stop` has cleared the queue), with `queue` as what waits and `handled` as what was handed
over. `OrderFlow` and `StrategyLanes` take their lanes to be such queues: one step inserts, one step takes.

**EngineLifecycle** (`core/engine_lifecycle.cpp`, `core/quote_health_monitor.cpp`, parts of
`trading_engine.cpp`). `Transition` is a load, a compare-and-swap and a write of the
reason; `call` holds each thread's activation of it. The control thread runs `Init`,
`Start` and `Stop`, the feed thread the tick callbacks, the watch thread `WatchHealth`,
the sender checks `IsReady` and then submits. Time is the age of the last tick:
`Silence` makes it stale; with `SlowCallbacks` that may happen during a callback.

**OrderContract** is the abstract specification the OMS implements, with no word of its
tables, statuses or reports: an identifier enters once, for a client without an order,
is sent once and ends once. `OneLife` in `OrderManager` is the contract under the
mapping `Life` (the states before sending are "pending", `Terminal` is "final", all others
"live"), with `initialized` as the open session.

**Admission** extends `OrderManager` with `OnEngineConfig` and the way of a submission
through `CheckRules` (compliance), `CopyLimits, CountOrders, AddNotional` (the three
separately locked parts of `RiskManager::CheckOrder`), `AllocateAdmitted` and
`CreateAdmitted`, one at a time in a `SubmitBatch` whose readiness was read once. OMS and
reports move between any two steps. Before the modules run, `SyncBrokerSnapshot` adopts the
venue's live orders row by row; they enter the counts and no limit is asked.

**SdkReports** is what the SDK hands over: its enumerations, the trade fields the managers
decide on, the key by which a trade is known again, and the checks at the boundary.
**PositionManager** and **AccountManager** are the two books, an action per public operation.
Prices are the unit price; average costs are left out.

**BrokerSync** composes the OMS and both books with the venue, the SDK's callbacks
and Lane-T across several sessions: four separate queries (each may fail), the orders
and then the trades applied one by one, positions and asset, `running_` last; then reports
through the lane; then `Stop`, which drops the lane and clears the OMS but not the
books. A submission and a cancellation are one step each here, as `OrderFlow` has their
steps. The venue is external: a fill is a trade alone or a trade and its order; a request to
place an order carries no `order_id` (`include/qtrade/sdk/trader/trader_struct.hpp:62`) and one
to cancel does, so reports name the orders the engine canceled and no others, and the OMS
finds the rest by client. Identifiers are the start's epoch and a counter; `OmsId` and `AbsId` translate between the venue's
numbering and the OMS's, which holds those of other sessions above `MaxOrders`.

**StrategyLanes** has the control thread, which loads, adds, starts and stops, and a
reactor thread per lane, which takes a snapshot of its handlers and calls one after the
other; the dispatcher's handler takes its mutex and calls the strategies an event is
routed to. A handler captures a raw pointer to its dispatcher; a call after the
dispatcher is freed is undefined behaviour: the memory may still read inactive, and
nothing happens, or `undefined` is set and nothing more is said of the program. A lane's
`Stop` either joins its thread or, when an idle thread misses the notification, hangs for
good (`StopLaneUnheard`; `EventReactorLoop` has the steps that lead there).

**EngineBringUp** is the engine as its owner sees it: setters, `Init`, `Start` and `Stop` in
any order, one action per stage, each of which may fail; bridges and adapters that
are replaced between calls; adapters that lose their line. `up` is the set of modules
running. The tick callback sees the engine running (`TickArrives`), writes `healthy_`
(`MarkHealth`) and notifies (`Notify`) in three steps, the monitor's thread does so in two
(`Silence`, `Notify`), with any stage of `Start` and `Stop` in between. A `Transition` is one
step here; that of `Stop` may lose its compare-and-swap to a notification; `EngineLifecycle`
has them in full.

A definition whose comment begins with "Fault:" is a bug the code could have had. No
behaviour uses it. `PROJECT.json` pairs it with the definition after it and the
property that is violated when it takes that definition's place.

### Assumptions

* `ConstantsAssumption`, `FlowAssumption`, `LoopAssumption`, `EngineAssumption`,
  `PositionAssumption`, `SyncAssumption`, `LanesAssumption`, `AdmissionAssumption` and
  `BringUpAssumption` give the constants their kinds; queues hold at least one item.
* `ForeignIdsDisjoint`: identifiers the venue knows from another session are not handed
  out in this one. The code relies on tenant, engine and epoch in the `order_id`; the
  epoch is a second of wall-clock time (`trading_engine.cpp:133`). `BrokerSync` models the
  epoch: its run assumes `EpochAdvances`, and `ClaimSameSecond.cfg` drops that.
* `BrokerSync`'s run further assumes a venue that is quiet while `Start` queries it
  (`VenueQuietInStart`), and a lane with room. Each assumption has a configuration in section 5 that shows what happens without it,
  the lane's room in `OrderFlow`. Trades carry no number of the exchange there
  (`VenueNumbersTrades` is FALSE), the weaker of the two keys.
* In `OrderFlow` an account-risk bridge is configured, and a release succeeds; the code
  only logs one that fails. `Admission` is the engine with no bridge or with any.
* `PositionAssumption`: a venue does not report more of yesterday's volume than there is.
* In `EngineBringUp` and `EngineLifecycle`, disconnecting an adapter and destroying it wait for
  its callback in progress, as those of `test/` do by joining their thread. `Stop` disconnects
  only an adapter that is on line (`trading_engine.cpp:626`). The joins of the lanes are the
  subject of `EventReactorLoop` and `StrategyLanes`, and always return in these two modules.
* In `EngineBringUp` the owner sets bridges only while the engine is not initialized
  (`include/qtrade/engine/engine.hpp:9`), and at least one strategy has an instrument.

## 3. Runs

Run one with `tlc -workers 2 -config <cfg> <module>`.

| Run | Module, cfg | Question | Bounds |
|---|---|---|---|
| `oms` | `MCOrderManager` | Do the OMS tables stay consistent, and does each order live one life, under any calls and reports? | 2 allocated ids, 1 foreign id, 2 clients, 12 snapshots (by client, by foreign id, by local id), 2 trades |
| `flow` | `MCOrderFlow` | Do reservation, send and outcome agree, whatever the interleaving? | 2 orders of volume 2, 1 cancellation, EMS queue of 2, lane of 8 |
| `flow_shared` | `MCOrderFlow`, `MCOrderFlowShared.cfg` | Is one client id sent once, when two callers race? | as `flow`, one client |
| `flow_venue` | `MCOrderFlow`, `MCOrderFlowVenue.cfg` | With a fuller venue and a full EMS queue, is volume counted once, and does everything queued get done? | 1 order, 2 cancellations, EMS queue of 1; expiry, snapshots and repeated trades |
| `lane` | `MCEventReactorLoop` | Is the lane the queue of `LaneContract`, or is an event lost, doubled, reordered, carried over, or left? | 2 producers with 2 events each, 2 sessions, refusing at 2 and dropping at 1 |
| `lifecycle` | `EngineLifecycle`, `MCEngineLifecycle.cfg` | Legal states, a quiet end, no engine that stays Ready when a healthy market falls silent, a `Stop` whose join of the monitor returns? | none: the state is finite; valid and expired configuration, slow callbacks |
| `sync` | `MCBrokerSync` | After each start, do orders and position agree with the venue, and the funds but for what covers the open orders? | 2 sessions, 2 orders of volume 2 (one buys, one sells), 3 events in flight and a lane of 3, perhaps an order of an earlier process with 1 traded |
| `strategies` | `MCStrategyLanes` | Are only living strategies called, by one thread at a time, and does `Stop` come to unload them? | 1 configured and 1 added strategy, 2 instruments, lanes of 1; sessions unbounded |
| `admission` | `MCAdmission` | Is one configuration in force, and how far can racing submissions overrun it? | 2 threads, batches of 2 orders of volume 1, 2 allocated and 2 foreign ids, up to 3 adopted orders, one of them half traded, 5 configurations; sessions unbounded |
| `bringup` | `EngineBringUp`, `MCEngineBringUp.cfg` | Is a ready engine complete, a stopped one empty, and does it get ready at all? | 2 adapters, 2 account-risk bridges and 1 for the other services, all sets of services; calls unbounded |

Two more runs, `claim_unknown_send` and `claim_reactor_stop`, end with a counterexample: section 5.

Why the bounds are enough to be interesting. Two orders are needed for a race of two
callers and for a second item behind the first in the queue; volume 2 gives a partial
fill; a lane of 8 never overflows in these instances, so that a report lost to a full
lane is a question of its own (`ClaimLaneFull.cfg`). An EMS queue of 1 makes both a
`Submit` and a `Cancel` meet a full queue. Two sessions of a lane let an event of the
first be looked for in the second; four events overflow either policy. Two sessions of
`BrokerSync` are a start that finds orders of its own past as well as a stranger's. The
five configurations of `admission` follow each other, repeat, carry an older budget,
contradict themselves or have lapsed, and three adopted orders are more than the smaller
limit with its overrun allows. Two adapters and two account-risk bridges are enough for a
replaced one to be mistaken for the current one. Named bounds: `MaxOrders` (identifiers
of a session), `MaxEvents` (calls of `Publish` per producer), `MaxSessions` (calls of `Start`
or `Init`), `MaxInFlight` (events between venue and handlers), `BatchSize` (orders in a
batch), and the sizes of `Submissions`, `Cancellations` and the report sets. `LaneRoom`,
`LaneCapacity` and `QueueCapacity` are the code's own limits, made small. The guard
`counter < MaxOrders` stands for a 64-bit counter. `MCAdmission` uses the symmetry of
the submitting threads, which the properties do not tell apart; no liveness is
checked there.

`CHECK_DEADLOCK FALSE` stands where the bounded work ends (all calls made, all reports
handled), where undefined behaviour ends what can be said (`strategies`), and where the
owner may simply stop calling. The OMS and the life cycle never stop and are
checked for deadlock.

The properties, by what they relate:

* `IndexConsistent`, `AllocatedBeforeUse`, `OneLife`: the two OMS tables, the counter, and the past of each row.
* `SendIsCovered`, `SentOnlyWhilePending`, `AtMostOneSend`: what `SendOrder` is called on.
* `LiveIsCovered`, `TerminalIsReleased`: reservation against venue and OMS. The first excepts
  an order whose send timed out; what the code does there is finding 1 below.
* `NeverAheadOfVenue`, `RejectedIsNotLive`, `AgreesWhenQuiet`: OMS against venue, at every moment
  and at the end. The first is about a venue whose trade comes before the snapshot that includes
  it, as the runs' does; for the other order it is false (`ClaimCumulative.cfg`).
* `SubmissionDecided`, `QueueDrains`: liveness of the EMS. An order canceled in the queue counts
  as decided although it stays `Working` unsent (`ClaimWorking.cfg`).
* `PositionAgreesWhenQuiet`, `FundsNeverOverstated`, `OrdersAgree`: the three books against the
  venue when nothing is in flight, over dropped, repeated and overtaking reports. The funds are
  the venue's cash, each trade counted once, less what is frozen, and that is at least what the
  orders active in the OMS need. It may be more: a fill reported alone does not refresh it
  (`trading_engine.cpp:817`) and a restart freezes an order again under a new identifier
  (`ClaimFrozen.cfg`). An order that was partly filled before a start may be closed in the OMS
  while it lives (`ClaimAdopted.cfg`), and is then not covered;
  `PositionsSane`: no row below zero; `RowKeepsItsClient`: adopted and new identifiers do not collide.
* `ConfigCoherent`, `VersionsAdvance`: limits, rules and configuration, each replaced under a
  lock of its own. `OpenOrdersBounded`, `OpenNotionalBounded`: what checking apart from creating
  can cost. A start adopts live orders without any check (`trading_engine.cpp:660`), so after a
  restart, or under a lower limit, the engine may be beyond both bounds; the properties say that
  then the orders it admitted itself are no more than the overrun of the other threads.
* `EveryEventAccounted`, `HandledInOrder`, `NothingCrossesSessions`, `QueueIsConsumed`: the lane.
* `CallsLiveStrategies`, `OneThreadInStrategies`, `LanesConsistent`, `StopUnloads`: strategies
  against lanes that run while they are torn down. `StopUnloads` says that `Stop` gets as far as
  unloading the plugins, past mutexes the lanes hold; the joins after it may hang.
* `LegalSteps`, `StoppedIsQuiet`, `SilenceFreezes`, `StopReturns`: the engine's threads.
  `SilenceFreezes` is about a monitor that holds the market for healthy: a late notification of
  recovery can leave an engine Ready with `healthy_` false, which the monitor then no longer
  looks at (`SilentFeedFreezes`, section 5).
* `ReadyIsBacked`, `WiringOK`, `NothingOutlivesStop`, `GetsReady`: the engine's stages.
  `NothingOutlivesStop` is about modules and `running_`; `healthy_` may outlive `Stop`
  (`HealthEndsWithStop`, section 5).

`OrdersAgree`, `LanesConsistent` and `WiringOK` are conjunctions that include the type
invariant of their module; their parts are defined, and can be checked, one by one.

Fairness. Only threads inside the engine's own code are fair: a worker with an item, a
lane thread with an event, a caller in the middle of `Submit`, a control thread in the
middle of `Stop`, in `bringup` of any call, a tick callback or a monitor about to write or notify. That is what an operating system's scheduler gives them, as every
call they make returns. Nobody has to call anything, the venue need not act, and no
spurious wakeup is owed. The one thing asked of the outside is in `bringup`: a market that
is subscribed, and on line, ticks; without it `GetsReady`, which excepts a lost line and a
refused subscription, could not hold of any engine. Weak fairness is enough for each, except that
`Lock` of the lane consumer competes for a mutex: in this model only the consumer's own
steps keep `mutex` across steps, so `Lock` stays enabled until it is taken. Likewise in
`StrategyLanes` a reactor waiting for the dispatcher's mutex is served once the other lane's
thread leaves it, for a stopped engine takes no new events in.

## 4. Proofs

`tlapm <module>.tla` checks them; they hold for all values of the constants under the
assumptions above.

**OrderManagerProofs**, from `ConstantsAssumption` and `ForeignIdsDisjoint`. The invariant
`OmsInv` is `TypeOK /\ IndexConsistent /\ AllocatedBeforeUse`, with the fact that a row not in
the table has no owner. None of them is inductive without the others: a created or adopted order
keeps the index right only if it lands on an unused row, which the bound on identifiers gives. Two
lemmas carry the argument: `RowUpdate` says what any update of one row preserves (type, client,
final states, no way back) and `RowAdded` what adding a row does; every operation is one of the
two or clears the tables. Proved: `TypeCorrect`, `IndexAgrees`, `AllocationIsFresh`,
`ClientNamesOneOrder` (which follows from the index) and the action property `NothingRegresses`. Its last part states what the
other modules need of sums: `SumNat`, `SumChanges`, `SumCongruent`, `SumWithout` and `SumShrinks`, for any
finite set and function. They rest on an induction over the subsets of a set, which needs no operator as a parameter.

**EventReactorLoopProofs**, from `LoopAssumption`. `LoopInv` adds to `TypeOK` and
`EveryEventAccounted` two parts. `Numbered`: numbers increase within `handled`, within the
queue and from the one to the other, and none exceeds `accepted`. `Phases`: which flags are down in each
step of `Stop`, that the queue is empty when a stopped lane is at rest, and that
the queue holds events of the current session; without it, `TypeOK` is not inductive,
because a smaller capacity may only be set on an empty queue. `Insertion` and `Removal`
describe the queue after `Publish` and `Take`; `StepCases` says that every other step
leaves queue and history alone, except the clearing in `Stop`. Proved: `LaneTypeCorrect`, `NoEventLost`,
`HandledInPublishOrder`, `SessionsAreSeparate`. The refinement, `LaneImplementsQueue`, needs `ThreadInv` besides: the reactor
thread exists only while the lane is open or being closed, and a running lane at rest is an open one. Then each step maps to a step of
`LaneContract` or to none (`LaneSteps`); an inserted event is new (`AcceptStep`) because `Numbered` puts all others below it.

**EngineLifecycleProofs**, from `EngineAssumption`. `LifeInv` adds to `TypeOK` three parts.
`SwapsLegally`: a thread about to swap holds a target that was allowed from the state it
has seen; with the comparison this makes `LegalSteps` an action property of any number of overlapping
transitions. `Phases`: which threads exist in each step of `Init`, `Start` and `Stop`.
`Settled`: outside a session only the control thread acts on the state, its last
transition to Stopped is never refused, and a transition to Frozen asked by `Init` always is;
`StoppedIsQuiet` is its case of a control thread at rest, and is not inductive without
it. `CallStep`, `ControlStep`, `FeedStep` and `WatchStep` say what each thread may touch. Proved:
`EngineTypeCorrect`, `TransitionsLegal`, `QuietAfterStop`.

**OrderManagerProofs** also proves the refinement, `OneLifeHolds`: initial states map to
initial states, and by `RowUpdate` and `RowAdded` each operation maps to a step of
`OrderContract` or to none (`ContractSteps`); a row created for a client is a legal `Enter` because the
index names every order of a client.

**AdmissionProofs**, from `AdmissionAssumption` and the assumptions of the OMS. `AdmissionInv` is
`AdmissionTypeOK /\ ConfigCoherent /\ AtWork /\ IsFiniteSet(Active) /\ Budget`. `OpenOrdersBounded`
is not inductive: a thread that has passed the count and not yet created its order is an
order to come. `Budget` counts both; the last thread to pass saw fewer active orders
than the limit, while at most all others had passed. If the adopted orders alone are beyond the
limit, nobody passes, and `Budget`'s second half counts the admitted ones: `Admitted` leaves out
the rows a start has reconciled, which no later step adds to. `AtWork` says why the limits a
thread copied are those in force, as they change in `Init` only, when nobody submits, and that
before the engine runs every active order is adopted. Proved: `AdmissionTypesKept`,
`ConfigStaysCoherent`, `VersionsNeverGoBack`, `OpenOrdersStayBounded`, for any configurations and
any number of threads. `NotionalInv` is the same argument for a sum: `Committed`, the open
notional with what the threads past the limit hold, is at most the number of threads times the
room beside the safety buffer, as each of them saw its own order fit, or `OwnCommitted`, the same
without the adopted orders, is at most the other threads' share. It needs to know that every
row's left volume is its volume less its fills. Proved: `OpenNotionalStaysBounded`.

**OrderFlowProofs**, from `FlowAssumption` and the assumptions of the OMS, in four layers.
`FlowInv` holds of every instance: types; an identifier belongs to one `Submit` until its row is made; what a
queued item, the worker, the venue and an event on the lane know is a row of the table; an identifier is at one place
only on its way to the venue, and `sends` counts it there. Proved from it: `FlowTypeCorrect`, `SentAtMostOnce` and
`NothingRegressesInFlow`.
`RightsInv` says who holds the right to send an order (its `Submit`, the queue, the worker), in which states its
row is meanwhile, and that its reservation is held as long. Proved: `SentWhilePending`, `SentUnderReservation`,
`RejectedCannotTrade`, `LiveStaysCovered`, all under `ClientsDistinct`: with two calls for one client they are
false, as `ClaimCovered.cfg` shows.
`FillInv` compares the OMS's traded volume with the venue's: trade by trade, what is applied, what is still in the lane
and in which order it comes. Proved: `CountsNoMoreThanVenue`, for every `VenueStyle` but `"report_trade"`, for which
`ClaimCumulative.cfg` refutes it. The two step relations `RejectKept` and `CoverKept` say what each step leaves as it was for the
orders it is not about.
`EndsInv` is about how an order ends. `PaceInv` makes the count exact: what the OMS has of an order is the trades it has
applied, what the venue has is those and the ones in the lane, and every snapshot is those before it, so that a trade at the head
of the lane is either one already applied or the next one and legal. `OutcomesInv` says that a row's state goes with the
venue's, and that an end at the venue is in the row or in the lane, in front of no row that would refuse it.
`ReleaseInv` names for each finished order with a reservation the thread that will give it back.
Proved: `EndsAgree` and `FinishedIsReleased`. Both assume `[]LaneHasRoom`, as `Publish` drops what finds Lane-T full
(`ClaimLaneFull.cfg` refutes the first without it; in the runs' instances TLC finds it true of every
state), besides the hypotheses of the layers below. `EndsAgree` assumes that orders do not expire unasked too,
since an order that does so in `SendPending` never learns of it (`ClaimLapsed.cfg`).
`LaneNeverFull` gives a capacity for which `[]LaneHasRoom` is no assumption. `SlotsInv`: every report of an order has a slot of its own
(the acknowledgement, each trade, each snapshot of a fill; an end takes the place of a last trade), so the lane is an
injection into clients and slots, and `LaneHoldsAll` is room for all of these and two more: with the `Volumes` up to `v`, `v + 1`
reports of each client, and `v` more where snapshots come with the trades. The runs' lanes of 8 satisfy it. `OrdersSettle` puts it together.

**StrategyLanesProofs**, from `LanesAssumption`. `LanesInv` adds to the types who holds the dispatcher's mutex and where
its owner is (`LockInv`), that lanes are empty and reactors idle between `Stop` and `Start` (`RestInv`), what exists in each
phase of the control thread (`PhaseInv`), that a plugin stays loaded while it has an instance (`PluginsInv`), and
which handlers each lane has (`HandlersInv`). `LaneFrame` says what a reactor's step can touch;
`ControlFrame`, `RegisteredStep` and `MadeFrame` say it of the control thread. Proved: `CallsLive`, `OneThread`,
`LanesAgree`, for any strategies, instruments and lanes, while nothing is `undefined`.

**BrokerSyncProofs**, from `SyncAssumption` and the assumptions of the parts. Each layer takes the hypotheses it needs and
no more; section 5 has the configuration that refutes the result without each.
The first is unconditional: types, and `PositionsSane`, that under any snapshots and trades, in any order and
repeated, no row goes below zero and yesterday's part never exceeds the total. Proved: `PositionsStaySane` of `PositionManager`
alone, `SyncTypeCorrect` and `PositionsSaneInSync` of the whole.
The second, under `EpochAdvances`, is about names. `Handed` is the last identifier given out up
to now, in this session or before; no order of the venue has a higher one and no two have the
same (`IdsInv`), each report in flight or in an answer has no name but its order's (`NamesInv`),
and a row is some client's order, under the name the venue has for it, or under one of this
session while the venue has none (`RowsInv`). Proved: `RowsNeverChangeClient`, `TablesAgreeInSync`.
The third, under `VenueQuietInStart` and `LaneRoom >= MaxInFlight` as well, is about content.
`RunInv` says for each client what is under way: its events come in the order the venue made
them, a "New" before all else, and the row lacks nothing that is not under way.
A trade may be the last word on an order, so an order that fills is closed by its last trade or
by the report behind it. `StartInv` says that between the queries of a start an order is either
still in the answer or in the OMS as the venue holds it. `OrdersAgree` is the case with nothing
in flight. Proved: `OrdersAlwaysAgree`.
The fourth, under `VenueQuietInStart` and `LaneRoom >= MaxInFlight` but without `EpochAdvances`,
is about the two books. `CountedBy` and `TradedBy` sum over the clients the trades a book has and
those the venue made; the difference is what is still on its way (`BooksInv`), and the set of
keys each manager has processed says which these are, so a trade that a query and a callback
both bring is counted once. With nothing under way the sums are equal (`QuietBooks`).
`OrdersAreSound` is needed for positions only: an order that sells more than there is would be
cut at zero by the code and not by the venue. Proved: `PositionAlwaysAgrees`.
The fifth, under `EpochAdvances`, `VenueQuietInStart` and `LaneRoom >= MaxInFlight`, is about
frozen money. The total is the sum of what is held for each identifier (`FrozenInv`), which is at
least the sum over the rows of the OMS, as different rows have different identifiers. `CoverInv`:
for an open order at least what it needs at the venue is held, or a report about it is still
under way; a trade alone only makes it need less. So with nothing in flight every open order is
covered, and by the fourth layer the rest is the venue's cash. Proved: `FundsNeverOverstate`.

**EngineBringUpProofs**, from `BringUpAssumption`. The properties speak of ready and of
uninitialized engines and are not inductive; `Inv` says what is up at every stage of every call
on the way up (`Rising`) and down (`Falling`), which stages belong to which call (`Order`), that
a tick callback is under way, and the state Ready or Frozen, only while the engine runs or is in
`Stop`, and a monitor about to notify only while it is up (`Calm`), and which adapter and bridge
the modules hold (`Wired`). `TransitionLeads` and `NotificationLeads` are all that is needed of
where a transition and a notification take the state. Proved: `ReadyEnginesAreBacked`, `WiringHolds`, `EverythingIsReleased` and the
action property `StopsEndStopped`.

Every invariant and every action property the runs check is stated by a theorem. Only model-checked is liveness, as
fairness and ENABLED are beyond the prover's back ends.

## 5. Where the code and its documents disagree

Two runs check a statement of a document and end with a counterexample:

1. `claim_unknown_send`: a send that times out leaves the order `SendUnknown` and its reservation
   released (`ems/execution_manager.cpp:179`); `docs/Architecture.md:584` keeps it.
2. `claim_reactor_stop`: the flag and the notification of `Stop` fall between the
   consumer's test and its wait (`event_bus/event_reactor_loop.cpp:56`), and the join does not return.

Further statements that TLC refutes, each with a configuration of its own beside these:

| Configuration, module | Statement | What happens |
|---|---|---|
| `ClaimWorking`, `MCOrderFlow` | `oms/order_api.hpp:28`: `kWorking` means the channel took the order | a cancellation overtakes its order in the EMS queue, is refused by a venue that does not know it, and leaves it `Working` unsent (`oms/order_manager.cpp:206`) |
| `ClaimCumulative`, `MCOrderFlow` | `docs/Architecture.md:281`: an idempotent merge | a cumulative snapshot followed by its trade counts twice (`oms/order_manager.cpp:305`) |
| `ClaimAcknowledged`, `MCOrderFlow` | `docs/Architecture.md:274`: an acknowledgement resolves an unknown send | the projection of a queued order keeps the state it finds |
| `ClaimLapsed`, `MCOrderFlow` | `docs/Architecture.md:280`: an order that lapses takes the venue's outcome | in `SendPending` the report is dropped |
| `ClaimCovered`, `MCOrderFlow` | `docs/Architecture.md:472`: only an end state releases | a second `Submit` of the same client loses the transition and releases the first one's reservation |
| `ClaimLaneFull`, `MCOrderFlow` | `docs/Architecture.md:517`: Lane-T drops nothing silently | the adapter callback does not look at the answer of `Publish` |
| `ClaimAdopted`, `MCBrokerSync` | order reconciliation: a live order is active after the start | a partly filled order's cumulative volume and its trades both count, and it is closed too early |
| `ClaimFillInStart`, `MCBrokerSync` | `PositionAgreesWhenQuiet` | a fill between two queries of `Start`, or before `running_`, is in no answer and its report is dropped |
| `ClaimFrozen`, `MCBrokerSync` | `account/account_manager.hpp`: what is left of an open order is frozen | a fill reported alone leaves the amount as it was (`trading_engine.cpp:817`), and a later session freezes an adopted order under another identifier while the earlier amount stays frozen |
| `ClaimSameSecond`, `MCBrokerSync` | `RowKeepsItsClient` | two starts in one second hand out the same identifiers |
| `ClaimOpenOrders`, `MCAdmission` | `risk/risk_manager.hpp`: the greatest number of active orders | two threads pass the count before either creates |
| `ClaimEngineFirst`, `MCStrategyLanes` | `docs/Architecture.md`: the engine's handlers see a report first | the dispatcher of configured strategies subscribes before the engine does |
| `ClaimDeadCall`, `MCStrategyLanes` | `strategy/strategy_manager.cpp`: delivery stops before the dispatcher goes | the lanes run on until after the dispatcher is freed |
| `ClaimDeadBridge`, `EngineBringUp` | `include/qtrade/engine/engine.hpp:18`: a bridge need not outlive `Stop` | an `Init` without an account-risk bridge leaves the last one's pointer in pipeline and EMS |
| `ClaimExpiredNeverReady`, `EngineLifecycleClaims` | `docs/Architecture.md:646`: not Ready with an expired configuration | the freeze during `Init` is an illegal transition and is ignored (`trading_engine.cpp:489`) |
| `ClaimRecoveryResumes`, `EngineLifecycleClaims` | `trading_engine.cpp:844`: recovery resumes | notifications that arrive in the other order leave the engine frozen for a healthy market |

Statements refuted under the constants of one of these, with the last line exchanged:
`ReadyOnlyIfHealthy` and `OnlyReadyTakesOrders` (as PROPERTY), `ReasonIsOfLastTransition` and
`DrainingIsNotReady` in `EngineLifecycleClaims`, with `ClaimExpiredNeverReady.cfg`; `UnsentIsReleased` in
`OrderFlowClaims`, with `MCOrderFlow.cfg`; `EntranceClosesFirst` in `EventReactorClaims`, with
`ClaimStopReturns.cfg`; `FailedInitIsFailed` (PROPERTY) in `EngineBringUp`, with `ClaimDeadBridge.cfg`, as Stopped has
no edge to Failed, `HealthEndsWithStop` (INVARIANT; `core/quote_health_monitor.hpp:67`), as a tick callback past its
look at `running_` (`trading_engine.cpp:582`) sets `healthy_` after the monitor's `Stop` has cleared it, and `AdaptersMayFollowInit`, as with the config service enabled `Init` fails without the adapters
(`include/qtrade/engine/engine.hpp:9` lets them follow it); `SilentFeedFreezes` in `EngineLifecycleClaims`, with
`ClaimRecoveryResumes.cfg`, as the monitor looks at the age of the last tick only while `healthy_` is set
(`core/quote_health_monitor.cpp:108`). The definition of each says what the code does.

## 6. Not modelled, and what comes next

Not modelled: parsing of configuration files, logging, JSON, file and clock utilities and the
symbol lookup in shared libraries, which keep no state that several steps depend on;
prices and average costs; queries that only read; `UnsubscribeQuote`; an EMS worker without an
adapter; a venue that delivers reports out of order; the destructors' calls of `Stop`.

Next, most important first:

1. **A reordering venue** for `OrderFlow`, with a bound on how late a snapshot may come, for the
   snapshot that overwrites a larger volume (`oms/order_manager.cpp:457`).
