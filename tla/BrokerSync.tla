------------------------------ MODULE BrokerSync ------------------------------
(***************************************************************************)
(* How the engine's books follow the venue across Init, Start, Stop and    *)
(* the next Init of one engine object: SynchronizeBrokerState queries the  *)
(* venue and fills OMS, positions and funds; from running_ on the SDK      *)
(* callbacks feed Lane-T, whose handlers move the same three; Stop drops   *)
(* the lane and clears the OMS, but not positions and funds.               *)
(*                                                                         *)
(* Composes OrderManager, PositionManager and AccountManager.  The venue   *)
(* is external: a request to place an order carries no order_id, one to    *)
(* cancel it does, so the venue names the orders the engine had canceled   *)
(* and no others.  A submission and a cancellation, whose steps are        *)
(* OrderFlow's subject, are one step each.  order_id is the start's epoch  *)
(* and a counter, numbered as one natural; the OMS model counts from 1 in  *)
(* every session and holds other sessions' identifiers above MaxOrders     *)
(* (OmsId, AbsId).                                                         *)
(***************************************************************************)
EXTENDS OrderManager, PositionManager, AccountManager

CONSTANTS
  OrderVolume,       \* volume of every order
  SideOf, EffectOf,  \* side and position effect of each client's order
  Base,              \* position and cash the venue holds at first
  MaxSessions,       \* bound: calls of Init
  LaneRoom,          \* capacity of Lane-T
  MaxInFlight,       \* bound: events between the venue and the handlers
  OldTraded,         \* what an order of an earlier process may have traded
  VenueQuietInStart, \* the venue does nothing between Connect and running_
  VenueNumbersTrades,\* reports carry a trade_id
  EpochAdvances      \* no two starts fall into one second

ASSUME SyncAssumption ==
  /\ OrderVolume \in Nat \ {0} /\ Base \in Nat /\ LaneRoom \in Nat \ {0} /\ MaxInFlight \in Nat
  /\ IsFiniteSet(ClientIds) /\ MaxOrders # 0 /\ MaxSessions \in Nat
  /\ OldTraded \subseteq 0..(OrderVolume - 1)
  /\ SideOf \in [ClientIds -> SideType] /\ EffectOf \in [ClientIds -> PositionEffectType]
  /\ ForeignIds = (MaxOrders + 1)..(MaxOrders * (MaxSessions + 2))
  /\ AccountOrders = 1..(MaxOrders * (MaxSessions + 1))
  /\ Cardinality(Instruments) = 1

VARIABLES
  stage,     \* where the control thread is
  running,   \* running_
  epoch,     \* engine_epoch_
  sessions,  \* calls of Init so far
  answers,   \* what the four queries returned and is not yet applied
  venue,     \* the venue's record of each client's order
  connected, \* whether the SDK's connection is up
  wire,      \* callbacks the SDK has yet to make
  lane       \* the events of Lane-T

controlVars == <<stage, running, epoch, sessions, answers>>
venueVars   == <<venue, connected, wire>>
bookVars    == <<omsVars, positionVars, accountVars>>
syncVars    == <<controlVars, venueVars, bookVars, lane>>

-----------------------------------------------------------------------------
(* The venue.                                                              *)

NoAnswers == [orders |-> {}, trades |-> {}, rows |-> {}, power |-> 0]
Starting == {"initiated", "trades", "positions", "asset", "apply", "synced"}
TheInstrument == CHOOSE i \in Instruments : TRUE

\* id is the order_id the engine canceled the order by, NoId before.
Unplaced == [id |-> NoId, traded |-> 0, status |-> "none", seen |-> 0, again |-> FALSE]
VenueLive(c) == venue[c].status = "queued"

Report(c) ==
  LET v == venue[c]
  IN [order_id |-> v.id, client |-> c,
      status |-> CASE v.status = "queued" -> IF v.traded = 0 THEN "New" ELSE "PartiallyFilled"
                   [] OTHER -> v.status,
      volume |-> OrderVolume, left |-> OrderVolume - v.traded, traded |-> v.traded,
      broker |-> TRUE]

VenueTrade(c, k) ==
  [trade_id |-> IF VenueNumbersTrades THEN c * OrderVolume + k ELSE 0,
   order_id |-> NoId, client |-> c, report_index |-> k,
   instrument |-> TheInstrument, side |-> SideOf[c], effect |-> EffectOf[c], volume |-> 1]

OrderEvent(r) == [type |-> "order", r |-> r]
TradeEvent(t) == [type |-> "trade", r |-> t]

TradedBy(sides) ==
  SumFunctionOnSet([c \in ClientIds |-> venue[c].traded], {c \in ClientIds : SideOf[c] \in sides})
VenueCash  == Base - TradedBy(Outflow) + TradedBy(Inflow)
VenueTotal == Base + TradedBy({"Buy"}) - TradedBy({"Sell"})
VenueRows ==
  IF VenueTotal = 0 THEN {}
  ELSE {[instrument |-> TheInstrument, direction |-> "Long", total |-> VenueTotal,
         yesterday |-> AtLeast0(Base - TradedBy({"Sell"}))]}

VenueActs ==
  /\ VenueQuietInStart => stage \notin Starting
  /\ Len(wire') + Len(lane) <= MaxInFlight
  /\ UNCHANGED <<controlVars, bookVars, lane, connected>>

Sends(events) == wire' = IF connected THEN wire \o events ELSE wire

\* A trade may be reported alone, or be followed by the order as it then is.
VenueFill(c) ==
  /\ VenueLive(c)
  /\ LET k == venue[c].traded + 1
     IN venue' = [venue EXCEPT ![c].traded = k,
                               ![c].status = IF k = OrderVolume THEN "Filled" ELSE @]
  /\ LET trade == TradeEvent(VenueTrade(c, venue'[c].traded))
     IN Sends(<<trade>>) \/ Sends(<<trade, OrderEvent(Report(c)')>>)
  /\ VenueActs

VenueCancel(c) ==
  /\ VenueLive(c)
  /\ venue' = [venue EXCEPT ![c].status = "Canceled"]
  /\ Sends(<<OrderEvent(Report(c)')>>)
  /\ VenueActs

\* A trade made since the connection came up is delivered a second time.
VenueRepeat(c) ==
  /\ connected /\ venue[c].traded > venue[c].seen /\ ~venue[c].again
  /\ Sends(<<TradeEvent(VenueTrade(c, venue[c].traded))>>)
  /\ venue' = [venue EXCEPT ![c].again = TRUE]
  /\ VenueActs

Venue == \E c \in ClientIds : VenueFill(c) \/ VenueCancel(c) \/ VenueRepeat(c)

-----------------------------------------------------------------------------
(* SDK callbacks and Lane-T.                                               *)

OmsId(abs) == CASE abs = NoId -> NoId
                [] (abs - 1) \div MaxOrders = epoch -> abs - epoch * MaxOrders
                [] OTHER -> MaxOrders + abs
AbsId(id) == IF id <= MaxOrders THEN epoch * MaxOrders + id ELSE id - MaxOrders

OmsReport(r) == [r EXCEPT !.order_id = OmsId(@)]
OmsTrade(t) == [key |-> GenerateTradeDedupKey(t), order_id |-> OmsId(t.order_id),
                client |-> t.client, volume |-> t.volume]

\* The callbacks look at running_ and the payload; a full lane refuses.
Callback ==
  /\ wire # <<>>
  /\ wire' = Tail(wire)
  /\ LET e == Head(wire)
         valid == IF e.type = "order" THEN IsValidOrder(e.r) ELSE IsValidTrade(e.r)
     IN lane' = IF running /\ valid /\ Len(lane) < LaneRoom THEN Append(lane, e) ELSE lane
  /\ UNCHANGED <<controlVars, venue, connected, bookVars>>

\* GetOrder by the report's order_id, or by the client if it has none.
LocalOrder(r) == IF r.order_id # NoId THEN r.order_id ELSE GetOrderByClientId(r.client)

\* account_manager_ sees the order as the OMS holds it after the report.
AccountFollows(id) ==
  IF id \in OrderIds /\ orders'[id].state # "Absent"
  THEN AccountApplyOrder(AbsId(id), orders'[id].status, SideOf[orders'[id].client],
                         orders'[id].left)
  ELSE UNCHANGED accountVars

OnTraderOrderReport(r) ==
  /\ ApplyOrderReport(OmsReport(r))
  /\ AccountFollows(LocalOrder(OmsReport(r)))
  /\ UNCHANGED positionVars

OnTraderTradeReport(t) ==
  /\ ApplyTradeReport(OmsTrade(t))
  /\ AccountApplyTrade(t)
  /\ PositionApplyTrade(t)

Handle ==
  /\ lane # <<>> /\ stage \in {"running", "stopping"}
  /\ lane' = Tail(lane)
  /\ IF Head(lane).type = "order" THEN OnTraderOrderReport(Head(lane).r)
                                  ELSE OnTraderTradeReport(Head(lane).r)
  /\ UNCHANGED <<controlVars, venueVars>>

RowOf(c) == GetOrderByClientId(c)

\* Pipeline and EMS at once: the order is in the OMS and at the venue.
SubmitOrder(c) ==
  /\ running /\ stage = "running" /\ Len(wire) + Len(lane) < MaxInFlight
  /\ venue[c] = Unplaced /\ counter < MaxOrders
  /\ RowOf(c) = NoId
  /\ counter' = NextId
  /\ orders' = [orders EXCEPT ![NextId] =
       [NewEntry([client |-> c, volume |-> OrderVolume]) EXCEPT !.state = "Working"]]
  /\ clientIndex' = [clientIndex EXCEPT ![c] = NextId]
  /\ venue' = [venue EXCEPT ![c] = [Unplaced EXCEPT !.status = "queued"]]
  /\ Sends(<<OrderEvent(Report(c)')>>)
  /\ UNCHANGED <<controlVars, connected, lane, initialized, applied, reconciled,
                 positionVars, accountVars>>

\* The venue knows an order to cancel by the number its reports carry, and
\* refuses when there is none yet or the order is closed.
CancelOutcome(c) ==
  IF VenueLive(c) /\ orders[RowOf(c)].broker THEN "Success" ELSE "SystemError"

AfterCancel(entry, rc) ==
  LET asked == ApplyTransition(entry, "CancelPending")
  IN ApplyTransition(asked, CancelTarget(asked, rc))

\* OrderPipeline::Cancel, the EMS and the venue's answer at once.
Cancel(c) ==
  /\ running /\ stage = "running" /\ Len(wire) + Len(lane) < MaxInFlight
  /\ RowOf(c) # NoId /\ CanTransition(orders[RowOf(c)].state, "CancelPending")
  /\ orders' = [orders EXCEPT ![RowOf(c)] = AfterCancel(@, CancelOutcome(c))]
  /\ IF CancelOutcome(c) = "Success"
     THEN /\ venue' = [venue EXCEPT ![c].id = AbsId(RowOf(c)), ![c].status = "Canceled"]
          /\ Sends(<<OrderEvent(Report(c)')>>)
     ELSE UNCHANGED <<venue, wire>>
  /\ OnlyOrders
  /\ UNCHANGED <<controlVars, connected, lane, positionVars, accountVars>>

-----------------------------------------------------------------------------
(* The control thread.                                                     *)

At(from, to) == stage = from /\ stage' = to

\* Fault: the epoch of an earlier session is used again.
BootEpochStale == {epoch}

\* time(nullptr), which may not have moved since the last start.
BootEpoch == {epoch + 1} \cup IF EpochAdvances THEN {} ELSE {epoch}

BootInit ==
  /\ At("down", "initiated") /\ sessions < MaxSessions
  /\ sessions' = sessions + 1
  /\ epoch' \in BootEpoch
  /\ Initialize
  /\ connected' = TRUE
  /\ venue' = [c \in ClientIds |-> [venue[c] EXCEPT !.seen = venue[c].traded]]
  /\ UNCHANGED <<running, answers, wire, lane, positionVars, accountVars>>

\* Any of the four queries may fail, and Start with it.
Query(from, to, field, answer) ==
  /\ \/ At(from, to) /\ answers' = [answers EXCEPT ![field] = answer]
     \/ At(from, "failed") /\ UNCHANGED answers
  /\ UNCHANGED <<running, epoch, sessions, venueVars, bookVars, lane>>

QueryOrders ==
  Query("initiated", "trades", "orders",
        {Report(c) : c \in {d \in ClientIds : venue[d] # Unplaced}})
QueryTrades ==
  Query("trades", "positions", "trades",
        UNION {{VenueTrade(c, k) : k \in 1..venue[c].traded} : c \in ClientIds})
QueryPositions == Query("positions", "asset", "rows", VenueRows)
QueryAsset     == Query("asset", "apply", "power", VenueCash)

\* One order of the answer: adopted or merged, marked, and shown to the account.
SyncOrder ==
  /\ stage = "apply"
  /\ \E r \in answers.orders :
       LET o  == OmsReport(r)
           id == Find(o.order_id, o.client)
       IN /\ IF id # NoId /\ ~MergeLegal(orders[id], o) THEN MarkReconciled(id)
             ELSE ReconcileBrokerOrder(o)
          /\ AccountFollows(IF o.order_id # NoId THEN o.order_id ELSE clientIndex'[o.client])
          /\ answers' = [answers EXCEPT !.orders = @ \ {r}]
  /\ UNCHANGED <<stage, running, epoch, sessions, venueVars, lane, positionVars>>

\* Then one trade: it reaches the OMS only, whose rows are all marked by now.
SyncTrade ==
  /\ stage = "apply" /\ answers.orders = {}
  /\ \E t \in answers.trades :
       /\ ApplyTradeReport(OmsTrade(t))
       /\ answers' = [answers EXCEPT !.trades = @ \ {t}]
  /\ UNCHANGED <<stage, running, epoch, sessions, venueVars, lane, positionVars, accountVars>>

SyncBooks ==
  /\ answers.orders = {} /\ answers.trades = {}
  /\ At("apply", IF GetOrdersRequiringReconciliation = {} THEN "synced" ELSE "failed")
  /\ ApplyPositionSnapshot(answers.rows)
  /\ ApplyAssetSnapshot(answers.power)
  /\ answers' = NoAnswers
  /\ UNCHANGED <<running, epoch, sessions, venueVars, lane, omsVars>>

\* StartEventLanes and StartEngineModules, which sets running_ last.
StartEngineModules ==
  /\ At("synced", "running")
  /\ running' = TRUE
  /\ UNCHANGED <<epoch, sessions, answers, venueVars, bookVars, lane>>

StopRunning ==
  /\ stage \in {"running", "failed"} /\ stage' = "stopping"
  /\ running' = FALSE
  /\ UNCHANGED <<epoch, sessions, answers, venueVars, bookVars, lane>>

\* Release: the adapters are disconnected, the lane stops and forgets its
\* events, the OMS is cleared.
Release ==
  /\ At("stopping", "down")
  /\ connected' = FALSE /\ wire' = <<>> /\ lane' = <<>>
  /\ answers' = NoAnswers
  /\ Shutdown
  /\ UNCHANGED <<running, epoch, sessions, venue, positionVars, accountVars>>

Control ==
  \/ BootInit \/ QueryOrders \/ QueryTrades \/ QueryPositions \/ QueryAsset
  \/ SyncOrder \/ SyncTrade \/ SyncBooks
  \/ StartEngineModules \/ StopRunning \/ Release

\* An earlier process may have left an order of the first client behind.
SyncInit ==
  /\ Init /\ PositionInit /\ AccountInit
  /\ stage = "down" /\ running = FALSE /\ epoch = 0 /\ sessions = 0
  /\ answers = NoAnswers
  /\ \E old \in {Unplaced} \cup
                {[Unplaced EXCEPT !.status = "queued", !.traded = n] : n \in OldTraded} :
       venue = [c \in ClientIds |-> IF c = 1 THEN old ELSE Unplaced]
  /\ connected = FALSE /\ wire = <<>> /\ lane = <<>>

Calls == \E c \in ClientIds : SubmitOrder(c) \/ Cancel(c)

SyncNext == Venue \/ Callback \/ Handle \/ Calls \/ Control

SyncSpec == SyncInit /\ [][SyncNext]_syncVars
-----------------------------------------------------------------------------
(* Correctness.                                                            *)

Quiet == running /\ wire = <<>> /\ lane = <<>>

\* Type invariant: the books and the lane keep their types, and only a running
\* or stopping engine holds undelivered events.
SyncTypeOK ==
  /\ PositionTypeOK /\ AccountTypeOK
  /\ counter \in 0..MaxOrders /\ orders \in [OrderIds -> Entry]
  /\ stage \in Starting \cup {"down", "running", "stopping", "failed"}
  /\ Len(lane) \in 0..LaneRoom
  /\ lane # <<>> => stage \in {"running", "stopping"}

\* With nothing in flight the position the engine shows its strategies is the
\* venue's, whatever fills fell between sessions, were dropped by Stop with the
\* lane, came twice or overtook the end of a session.
PositionAgreesWhenQuiet == Quiet => GetNetPosition(TheInstrument) = VenueTotal

\* What the orders of some clients still need at the venue.
Needed(clients) ==
  SumFunctionOnSet([c \in ClientIds |-> OrderVolume - venue[c].traded],
                   {c \in clients : VenueLive(c) /\ SideOf[c] \in Outflow})

ActiveClients == {c \in ClientIds : RowOf(c) \in Active}

\* With nothing in flight the funds the engine shows are the venue's cash less
\* what is frozen, and what is frozen is at least what the live buy orders its
\* OMS holds for open still need: no trade counts twice beside the asset
\* snapshot, none is missing, and no open order is left unfrozen by a fill
\* reported alone, a lane that Stop dropped, a cancellation or a new session.
\* More than that may be frozen: the engine errs on the side of caution.
FundsNeverOverstated ==
  Quiet => /\ GetAvailableFunds = VenueCash - frozenAmount
           /\ frozenAmount >= Needed(ActiveClients)

\* An order without a fill that is live at the venue is active in a running
\* engine's OMS, be it placed in this session or adopted: admission counts it.
UntouchedOrderIsActive ==
  running => \A c \in ClientIds : VenueLive(c) /\ venue[c].traded = 0 =>
    RowOf(c) \in Active

\* With nothing in flight an order the venue has closed is closed in the OMS,
\* and the OMS has seen at least the venue's volume of every order.
OutcomeKnownWhenQuiet ==
  Quiet => \A c \in ClientIds : venue[c] # Unplaced =>
    LET id == RowOf(c)
    IN /\ id # NoId
       /\ orders[id].traded >= venue[c].traded
       /\ ~VenueLive(c) => id \notin Active

\* The three together: types, admission's view and the outcomes.
OrdersAgree == SyncTypeOK /\ UntouchedOrderIsActive /\ OutcomeKnownWhenQuiet

\* Within a session a row of the OMS never passes to another client's order,
\* although identifiers of earlier sessions are adopted beside new ones.
RowKeepsItsClient ==
  [][\A id \in OrderIds : initialized /\ initialized' /\ Present(id) =>
       orders'[id].client = orders[id].client]_syncVars

-----------------------------------------------------------------------------
(* What the documents say and the code does not do.                        *)

\* Every order that is live at the venue is active in a quiet engine's OMS:
\* a start adopts what the venue reports and leaves no live order behind
\* (docs/Architecture.md, order reconciliation).
LiveOrderIsActive ==
  Quiet => \A c \in ClientIds : VenueLive(c) => RowOf(c) \in Active

\* In a quiet engine what the live buy orders need is frozen and nothing else:
\* an open order freezes what is left of it (account/account_manager.hpp).  A
\* fill reported alone leaves the amount as it was, and in the next session the
\* order has another identifier and is frozen a second time.
LiveOrderIsFrozen == Quiet => GetAvailableFunds = VenueCash - Needed(ClientIds)
=============================================================================
