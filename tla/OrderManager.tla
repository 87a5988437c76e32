---------------------------- MODULE OrderManager ----------------------------
(***************************************************************************)
(* The in-memory order manager (OMS), oms/order_manager.cpp.  Every public *)
(* operation runs under one mutex, so each is one atomic action here.  The *)
(* caller of an operation sees a return code, which the operators ending   *)
(* in Rc (or the lookups) give for the state the operation starts in.      *)
(*                                                                         *)
(* Instruments, prices, text and submit_status are left out; a volume      *)
(* stands for a notional at unit price, and a broker_order_id for whether  *)
(* the order has one.  Next is the most general client of the module: any  *)
(* thread may call anything with any identifier; OrderFlow composes the    *)
(* same actions under the callers the engine really has.                   *)
(*                                                                         *)
(* A definition marked "Fault:" is a bug this code could have had; no      *)
(* behaviour uses it.  PROJECT.json pairs it with the property that would  *)
(* notice if it stood in place of the definition after it.                 *)
(***************************************************************************)
EXTENDS Integers, FiniteSets, Functions

CONSTANTS
  ClientIds,   \* client_order_id values of the strategies (0 is "none")
  ForeignIds,  \* order_ids that only the venue knows when a session starts
  MaxOrders,   \* bound: identifiers AllocateOrderId hands out in a session
  Volumes,     \* volumes a strategy requests
  OrderReports,  \* order snapshots the venue may send
  TradeReports,  \* trade reports the venue may send
  TradeKeys      \* deduplication keys of trades

NoClient == 0
NoId     == 0

LocalIds == 1..MaxOrders
OrderIds == LocalIds \cup ForeignIds

PreSend  == {"Prepared", "EmsQueued"}
Terminal == {"Filled", "Canceled", "Rejected"}
Lifecycle ==
  PreSend \cup Terminal \cup
  {"SendPending", "Working", "PartiallyFilled", "CancelPending", "SendUnknown"}

\* "New" stands for every venue status that only says the order is queued.
Statuses == {"New", "PartiallyFilled", "Filled", "Canceled", "Rejected", "Unknown"}

ErrorCodes == {"Success", "Timeout", "NotFound", "SystemError",
               "NotInitialized", "ResourceExhausted"}

OrderReport ==
  [order_id : OrderIds \cup {NoId}, client : ClientIds \cup {NoClient},
   status : Statuses, volume : Nat, left : Nat, traded : Nat, broker : BOOLEAN]

TradeReport ==
  [key : TradeKeys, order_id : OrderIds \cup {NoId},
   client : ClientIds \cup {NoClient}, volume : Nat]

Request == [client : ClientIds \cup {NoClient}, volume : Volumes]

ASSUME ConstantsAssumption ==
  /\ ClientIds \subseteq Nat \ {NoClient}
  /\ MaxOrders \in Nat
  /\ ForeignIds \subseteq Nat \ {NoId}
  /\ Volumes \subseteq Nat \ {0}
  /\ OrderReports \subseteq OrderReport
  /\ TradeReports \subseteq TradeReport

\* order_id carries tenant, engine and epoch, so the identifiers another
\* session left at the venue are not among those this session hands out.
ASSUME ForeignIdsDisjoint == ForeignIds \cap LocalIds = {}

VARIABLES
  initialized,  \* initialized_
  counter,      \* order_id_counter_
  orders,       \* orders_: every identifier, "Absent" when not in the table
  clientIndex,  \* client_order_index_
  applied,      \* applied_trade_ids_
  reconciled    \* reconciled_order_ids_

omsVars == <<initialized, counter, orders, clientIndex, applied, reconciled>>

Absent ==
  [state |-> "Absent", status |-> "New", client |-> NoClient,
   volume |-> 0, left |-> 0, traded |-> 0, broker |-> FALSE]

Entry ==
  [state : Lifecycle \cup {"Absent"}, status : Statuses,
   client : ClientIds \cup {NoClient},
   volume : Nat, left : Nat, traded : Nat, broker : BOOLEAN]

EmptyTables ==
  /\ orders = [id \in OrderIds |-> Absent]
  /\ clientIndex = [c \in ClientIds |-> NoId]
  /\ applied = {}
  /\ reconciled = {}

ClearTables ==
  /\ orders' = [id \in OrderIds |-> Absent]
  /\ clientIndex' = [c \in ClientIds |-> NoId]
  /\ applied' = {}
  /\ reconciled' = {}

-----------------------------------------------------------------------------
(* Lookups and the lifecycle automaton.                                    *)

Present(id) == id \in OrderIds /\ orders[id].state # "Absent"

GetOrderByClientId(c) == IF c \in ClientIds /\ Present(clientIndex[c])
                         THEN clientIndex[c] ELSE NoId

\* FindOrderLocked: the venue's order_id first, the client index second.
Find(id, c) == IF Present(id) THEN id ELSE GetOrderByClientId(c)

\* Fault: a fill that arrives before SendOrder has returned is not expected.
SuccessorsNoEarlyFill(from) ==
  CASE from = "Prepared"    -> {"EmsQueued", "Rejected", "CancelPending"}
    [] from = "EmsQueued"   -> {"SendPending", "Rejected", "CancelPending"}
    [] from = "SendPending" -> {"Working", "Rejected", "SendUnknown"}
    [] from \in {"SendUnknown", "Working", "PartiallyFilled", "CancelPending"} ->
         {"Working", "PartiallyFilled", "Filled", "CancelPending", "Canceled", "Rejected"}
    [] OTHER -> {}

Successors(from) ==
  CASE from = "Prepared"    -> {"EmsQueued", "Rejected", "CancelPending"}
    [] from = "EmsQueued"   -> {"SendPending", "Rejected", "CancelPending"}
    [] from = "SendPending" -> {"Working", "Rejected", "SendUnknown",
                                "PartiallyFilled", "Filled"}
    [] from = "SendUnknown" -> {"Working", "Rejected", "PartiallyFilled",
                                "Filled", "Canceled"}
    [] from = "Working"     -> {"PartiallyFilled", "Filled", "CancelPending",
                                "Canceled", "Rejected"}
    [] from = "PartiallyFilled" -> {"Filled", "CancelPending", "Canceled"}
    [] from = "CancelPending" -> {"Canceled", "Working", "PartiallyFilled",
                                  "Filled", "Rejected"}
    [] OTHER -> {}

\* Fault: an order whose send has no known result may be queued again.
CanTransitionResend(from, to) ==
  from = to \/ to \in Successors(from) \/ (from = "SendUnknown" /\ to = "EmsQueued")

CanTransition(from, to) == from = to \/ to \in Successors(from)

\* ApplyTransition: an illegal target leaves the entry as it is.
ApplyTransition(entry, target) ==
  IF CanTransition(entry.state, target) THEN [entry EXCEPT !.state = target]
                                        ELSE entry

TransitionRc(id, target) ==
  IF ~Present(id) THEN "NotFound"
  ELSE IF CanTransition(orders[id].state, target) THEN "Success" ELSE "SystemError"

LifecycleFromStatus(status, fallback) ==
  CASE status \in Terminal \cup {"PartiallyFilled"} -> status
    [] status = "Unknown" -> "SendUnknown"
    [] OTHER -> IF fallback = "Prepared" THEN "Working" ELSE fallback

MergeSnapshot(entry, r) ==
  [entry EXCEPT !.status = r.status,
                !.volume = IF r.volume > 0 THEN r.volume ELSE @,
                !.left   = r.left,
                !.traded = r.traded,
                !.broker = @ \/ r.broker]

MergeTarget(entry, r) == LifecycleFromStatus(r.status, entry.state)

MergeLegal(entry, r) == CanTransition(entry.state, MergeTarget(entry, r))

\* A report whose projected lifecycle is illegal is dropped as a whole.
Merged(entry, r) ==
  IF MergeLegal(entry, r)
  THEN [MergeSnapshot(entry, r) EXCEPT !.state = MergeTarget(entry, r)]
  ELSE entry

-----------------------------------------------------------------------------
(* Session of the order manager.                                           *)

Init ==
  /\ initialized = FALSE
  /\ counter = 0
  /\ EmptyTables

Initialize ==
  /\ ~initialized
  /\ initialized' = TRUE
  /\ counter' = 0
  /\ ClearTables

Shutdown ==
  /\ initialized' = FALSE
  /\ ClearTables
  /\ UNCHANGED counter

-----------------------------------------------------------------------------
(* OrderApi: what the pipeline and the execution manager call.             *)

NextId == counter + 1

AllocateOrderId ==
  /\ counter < MaxOrders
  /\ counter' = NextId
  /\ UNCHANGED <<initialized, orders, clientIndex, applied, reconciled>>

NewEntry(req) ==
  [Absent EXCEPT !.state = "Prepared", !.client = req.client,
                 !.volume = req.volume, !.left = req.volume]

Creates(req, id) ==
  initialized /\ id # NoId /\ GetOrderByClientId(req.client) = NoId

\* The identifier CreateOrder answers with: the new order's, that of the order
\* the client already has, or NoId.
CreateResult(req, id) ==
  CASE Creates(req, id) -> id
    [] ~Creates(req, id) /\ initialized /\ id # NoId -> GetOrderByClientId(req.client)
    [] OTHER -> NoId

CreateOrder(req, id) ==
  /\ IF Creates(req, id)
     THEN /\ orders' = [orders EXCEPT ![id] = NewEntry(req)]
          /\ clientIndex' = [c \in ClientIds |->
                               IF c = req.client THEN id ELSE clientIndex[c]]
     ELSE UNCHANGED <<orders, clientIndex>>
  /\ UNCHANGED <<initialized, counter, applied, reconciled>>

OnlyOrders == UNCHANGED <<initialized, counter, clientIndex, applied, reconciled>>

\* CancelOrder, MarkEmsQueued and MarkSendPending request one transition and
\* answer with TransitionRc.
RequestTransition(id, target) ==
  /\ orders' = IF Present(id)
               THEN [orders EXCEPT ![id] = ApplyTransition(@, target)] ELSE orders
  /\ OnlyOrders

CancelOrder(id)     == RequestTransition(id, "CancelPending")
MarkEmsQueued(id)   == RequestTransition(id, "EmsQueued")
MarkSendPending(id) == RequestTransition(id, "SendPending")

\* Fault: a send whose result is unknown is taken for a refusal.
SendResultNoUnknown(entry, rc) ==
  LET decides == \/ entry.state = "SendPending"
                 \/ entry.state = "EmsQueued" /\ rc # "Success"
  IN CASE ~decides -> entry
       [] decides /\ rc = "Success" -> ApplyTransition(entry, "Working")
       [] OTHER ->
            ApplyTransition([entry EXCEPT !.status = "Rejected"], "Rejected")

\* The status is written before the transition is checked, so an EmsQueued
\* order whose enqueue timed out keeps its lifecycle and changes its status.
SendResult(entry, rc) ==
  LET decides == \/ entry.state = "SendPending"
                 \/ entry.state = "EmsQueued" /\ rc # "Success"
  IN CASE ~decides -> entry
       [] decides /\ rc = "Success" -> ApplyTransition(entry, "Working")
       [] decides /\ rc = "Timeout" ->
            ApplyTransition([entry EXCEPT !.status = "Unknown"], "SendUnknown")
       [] OTHER ->
            ApplyTransition([entry EXCEPT !.status = "Rejected"], "Rejected")

RecordSendResult(id, rc) ==
  /\ orders' = IF Present(id)
               THEN [orders EXCEPT ![id] = SendResult(@, rc)] ELSE orders
  /\ OnlyOrders

CancelTarget(entry, rc) ==
  CASE rc \in {"Success", "Timeout"} -> "CancelPending"
    [] OTHER -> IF entry.traded > 0 THEN "PartiallyFilled" ELSE "Working"

RecordCancelResult(id, rc) ==
  /\ orders' = IF Present(id)
               THEN [orders EXCEPT ![id] = ApplyTransition(@, CancelTarget(@, rc))]
               ELSE orders
  /\ OnlyOrders

-----------------------------------------------------------------------------
(* The venue side: reports on Lane-T and the snapshot taken at start.      *)

ApplyOrderReport(r) ==
  LET id == Find(r.order_id, r.client)
  IN /\ orders' = IF id = NoId THEN orders
                  ELSE [orders EXCEPT ![id] = Merged(@, r)]
     /\ OnlyOrders

TradeTotal(entry, t) == entry.traded + t.volume

TradeState(entry, t) ==
  IF TradeTotal(entry, t) >= entry.volume THEN "Filled" ELSE "PartiallyFilled"

Traded(entry, t) ==
  [entry EXCEPT !.traded = TradeTotal(entry, t),
                !.left   = IF TradeTotal(entry, t) >= entry.volume THEN 0
                           ELSE entry.volume - TradeTotal(entry, t),
                !.status = TradeState(entry, t),
                !.state  = TradeState(entry, t)]

\* Fault: a trade is not looked up among the applied ones.
TradeAcceptedAgain(id, t) ==
  id # NoId /\ CanTransition(orders[id].state, TradeState(orders[id], t))

TradeAccepted(id, t) ==
  /\ t.key \notin applied
  /\ id # NoId
  /\ CanTransition(orders[id].state, TradeState(orders[id], t))

ApplyTradeReport(t) ==
  LET id == Find(t.order_id, t.client)
  IN IF TradeAccepted(id, t)
     THEN /\ orders' = [orders EXCEPT ![id] = Traded(@, t)]
          /\ applied' = applied \cup {t.key}
          /\ UNCHANGED <<initialized, counter, clientIndex, reconciled>>
     ELSE UNCHANGED omsVars

\* Fault: an adopted order is taken for a live one.
AdoptedEntryWorking(r) ==
  [state |-> "Working", status |-> r.status, client |-> r.client,
   volume |-> r.volume, left |-> r.left, traded |-> r.traded, broker |-> r.broker]

AdoptedEntry(r) ==
  [state |-> LifecycleFromStatus(r.status, "Working"), status |-> r.status,
   client |-> r.client, volume |-> r.volume, left |-> r.left,
   traded |-> r.traded, broker |-> r.broker]

\* Fault: the adopted order is not entered in the client index.
AdoptUnindexed(r) ==
  /\ r.order_id # NoId
  /\ orders' = [orders EXCEPT ![r.order_id] = AdoptedEntry(r)]
  /\ reconciled' = reconciled \cup {r.order_id}
  /\ UNCHANGED <<initialized, applied, counter, clientIndex>>

\* Fault: the identifier of an adopted order is not taken from the counter.
AdoptUncounted(r) ==
  /\ r.order_id = NoId /\ r.client # NoClient /\ counter < MaxOrders
  /\ orders' = [orders EXCEPT ![NextId] = AdoptedEntry(r)]
  /\ clientIndex' = [c \in ClientIds |-> IF c = r.client THEN NextId ELSE clientIndex[c]]
  /\ reconciled' = reconciled \cup {NextId}
  /\ UNCHANGED <<initialized, applied, counter>>

Adopt(r) ==
  /\ r.order_id # NoId \/ r.client # NoClient
  /\ r.order_id = NoId => counter < MaxOrders
  /\ LET id == IF r.order_id = NoId THEN NextId ELSE r.order_id
     IN /\ orders' = [orders EXCEPT ![id] = AdoptedEntry(r)]
        /\ clientIndex' = [c \in ClientIds |->
                             IF c = r.client THEN id ELSE clientIndex[c]]
        /\ reconciled' = reconciled \cup {id}
        /\ counter' = IF r.order_id = NoId THEN NextId ELSE counter
  /\ UNCHANGED <<initialized, applied>>

ReconcileKnown(id, r) ==
  /\ MergeLegal(orders[id], r)
  /\ orders' = [orders EXCEPT ![id] = Merged(@, r)]
  /\ reconciled' = reconciled \cup {id}
  /\ UNCHANGED <<initialized, counter, clientIndex, applied>>

ReconcileBrokerOrder(r) ==
  /\ initialized
  /\ LET id == Find(r.order_id, r.client)
     IN IF id = NoId THEN Adopt(r) ELSE ReconcileKnown(id, r)

MarkReconciled(id) ==
  /\ Present(id)
  /\ reconciled' = reconciled \cup {id}
  /\ UNCHANGED <<initialized, counter, orders, clientIndex, applied>>

-----------------------------------------------------------------------------
(* Queries that admission and start-up decide on.                          *)

GetOrdersRequiringReconciliation ==
  {id \in OrderIds : /\ orders[id].state \in {"SendPending", "SendUnknown",
                                              "Working", "CancelPending"}
                     /\ id \notin reconciled}

Active == {id \in OrderIds : Present(id) /\ orders[id].state \notin Terminal}

GetActiveOrderCount == Cardinality(Active)

LeftVolumes == [id \in OrderIds |-> orders[id].left]

GetOpenNotional == SumFunctionOnSet(LeftVolumes, Active)

-----------------------------------------------------------------------------
Results == {"Success", "Timeout", "SystemError"}

\* An identifier AllocateOrderId has handed out is used for one creation.
NextCreate ==
  \E req \in Request, id \in {i \in LocalIds : i <= counter /\ ~Present(i)} :
    CreateOrder(req, id)

NextCall ==
  \E id \in OrderIds :
    \/ CancelOrder(id)
    \/ MarkEmsQueued(id)
    \/ MarkSendPending(id)
    \/ \E rc \in Results : RecordSendResult(id, rc) \/ RecordCancelResult(id, rc)
    \/ MarkReconciled(id)

\* Of this session's identifiers the venue knows those that were handed out.
Reportable == {r \in OrderReports : r.order_id \in LocalIds => r.order_id <= counter}

NextVenue ==
  \/ \E r \in Reportable : ApplyOrderReport(r) \/ ReconcileBrokerOrder(r)
  \/ \E t \in TradeReports : ApplyTradeReport(t)

Next == Initialize \/ Shutdown \/ AllocateOrderId \/ NextCreate \/ NextCall \/ NextVenue

Spec == Init /\ [][Next]_omsVars
-----------------------------------------------------------------------------
(* Correctness.                                                            *)

\* Type invariant of the OMS tables.
TypeOK ==
  /\ initialized \in BOOLEAN
  /\ counter \in 0..MaxOrders
  /\ orders \in [OrderIds -> Entry]
  /\ clientIndex \in [ClientIds -> OrderIds \cup {NoId}]
  /\ applied \subseteq TradeKeys
  /\ reconciled \subseteq OrderIds

\* client_order_index_ and orders_ agree in both directions, whatever mix of
\* creations, adoptions and reports ran: a client's entry names a live row with
\* that client, and a row with a client is the one the index names.
IndexConsistent ==
  /\ \A c \in ClientIds : clientIndex[c] # NoId =>
       Present(clientIndex[c]) /\ orders[clientIndex[c]].client = c
  /\ \A id \in OrderIds : Present(id) /\ orders[id].client # NoClient =>
       clientIndex[orders[id].client] = id

\* A client_order_id never names two orders, although it is both checked by the
\* pipeline and adopted from the venue: the idempotence CreateOrder promises.
OneOrderPerClient ==
  \A i, j \in OrderIds :
    /\ Present(i) /\ Present(j)
    /\ orders[i].client # NoClient
    /\ orders[i].client = orders[j].client
    => i = j

\* An identifier is handed out before it appears in the table, so a later
\* AllocateOrderId never returns one that is in use.
AllocatedBeforeUse ==
  \A id \in OrderIds : Present(id) => id \in ForeignIds \/ id <= counter

\* Terminal rows stay terminal and sent rows are never taken back to a state
\* from which the EMS would send them again, until the session ends.
NoRegressionStep ==
  initialized /\ initialized' =>
    \A id \in OrderIds :
      /\ orders[id].state \in Terminal => orders'[id].state = orders[id].state
      /\ orders[id].state \notin PreSend \cup {"Absent"} =>
           orders'[id].state \notin PreSend \cup {"Absent"}

NoRegression == [][NoRegressionStep]_omsVars

-----------------------------------------------------------------------------
(* The abstract specification it implements.                               *)

Life(entry) ==
  CASE entry.state = "Absent"     -> "none"
    [] entry.state \in PreSend  -> "pending"
    [] entry.state \in Terminal -> "final"
    [] OTHER -> "live"

Contract == INSTANCE OrderContract WITH
  Ids <- OrderIds, Clients <- ClientIds, open <- initialized,
  life  <- [id \in OrderIds |-> Life(orders[id])],
  owner <- [id \in OrderIds |-> orders[id].client]

\* Whatever reports, adoptions and calls are mixed, each identifier has one
\* life: it enters once and for a client without an order, is sent once, ends
\* once, and an operation touches one order only.
OneLife == Contract!ContractSpec
=============================================================================
