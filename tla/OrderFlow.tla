------------------------------ MODULE OrderFlow ------------------------------
(***************************************************************************)
(* An order's way through the engine: OrderPipeline::Submit and ::Cancel   *)
(* on the callers' threads, the queue and the single worker thread of the  *)
(* ExecutionManager, the venue behind TraderApi, Lane-T with its single    *)
(* reactor thread running OnTraderOrderReport and OnTraderTradeReport, and *)
(* the account-risk reservation that all of them may release.  They share  *)
(* the OMS, one locked operation at a time: a step here is one such        *)
(* operation, one call to an external service, or one locked region.       *)
(*                                                                         *)
(* The engine is running throughout.  The venue reports in order (the      *)
(* callbacks of one connection), may deliver a trade twice, fills one unit *)
(* at a time and is external, as is the account-risk service, which every  *)
(* order passes; a ReleaseOrder that fails is only logged and left out.    *)
(* What "Fault:" means is said in OrderManager.                            *)
(***************************************************************************)
EXTENDS OrderManager, Sequences

CONSTANTS
  Submissions,   \* calls of Submit
  ClientOf,      \* the client_order_id each of them carries
  Cancellations, \* calls of Cancel
  QueueCapacity, \* kQueueCapacity of the EMS
  LaneCapacity,  \* capacity of Lane-T
  VenueStyle,    \* how the venue reports a fill, see FillEvents
  VenueMayCancel, \* whether orders expire at the venue without being asked to
  VenueRepeats   \* whether a trade may be delivered a second time

ASSUME FlowAssumption ==
  /\ ClientOf \in [Submissions -> ClientIds]
  /\ QueueCapacity \in Nat \ {0}
  /\ LaneCapacity \in Nat \ {0}
  /\ VenueStyle \in {"trade", "trade_report", "report_trade"}
  /\ VenueMayCancel \in BOOLEAN /\ VenueRepeats \in BOOLEAN
  /\ IsFiniteSet(Submissions) /\ Cardinality(Submissions) <= MaxOrders
  /\ \A v \in Volumes : OrderIds \X (1..v) \subseteq TradeKeys

VARIABLES
  submit,       \* local state of each Submit: pc, order_id, created id, code
  cancel,       \* local state of each Cancel: pc, order, broker id seen, code
  emsRunning,   \* running_ of the ExecutionManager
  queue,        \* pending_items_
  worker,       \* the EMS thread: pc, item, result of the venue call
  sends,        \* results of the SendOrder calls made for each order
  venue,        \* the venue's own record of each order
  lane,         \* queue of the TraderEventReactor
  handler,      \* the event the Lane-T thread has applied to the OMS
  reservation   \* the account-risk service's record of each order

callVars == <<submit, cancel>>
emsVars  == <<emsRunning, queue, worker>>
extVars  == <<sends, venue, reservation>>
laneVars == <<lane, handler>>
vars == <<omsVars, callVars, emsVars, extVars, laneVars>>

Idle == [pc |-> "idle"]

Item == [type : {"Send", "Cancel"}, id : OrderIds \cup {NoId}, broker : BOOLEAN]
SendItem(id)          == [type |-> "Send", id |-> id, broker |-> FALSE]
CancelItem(id, known) == [type |-> "Cancel", id |-> id, broker |-> known]
NoItem == SendItem(NoId)

FlowInit ==
  /\ initialized = TRUE
  /\ counter = 0
  /\ EmptyTables
  /\ submit = [s \in Submissions |->
                 [pc |-> "admit", oid |-> NoId, cid |-> NoId, rc |-> "Success"]]
  /\ cancel = [k \in Cancellations |->
                 [pc |-> "lookup", id |-> NoId, broker |-> FALSE, rc |-> "Success"]]
  /\ emsRunning = TRUE
  /\ queue = <<>>
  /\ worker = [pc |-> "idle", item |-> NoItem, rc |-> "Success"]
  /\ sends = [id \in OrderIds |-> <<>>]
  /\ venue = [id \in OrderIds |-> [status |-> "none", traded |-> 0,
                                 asked |-> FALSE, repeated |-> FALSE]]
  /\ lane = <<>>
  /\ handler = <<>>
  /\ reservation = [id \in OrderIds |-> "none"]

-----------------------------------------------------------------------------
(* OrderPipeline::Submit, one step per call it makes.                      *)

Req(s, v) == [client |-> ClientOf[s], volume |-> v]

SubmitStep(s, from, to) ==
  /\ submit[s].pc = from
  /\ submit' = [submit EXCEPT ![s].pc = to]
  /\ UNCHANGED cancel

SubmitReturns(s, from, rc) ==
  /\ submit[s].pc = from
  /\ submit' = [submit EXCEPT ![s].pc = "done", ![s].rc = rc]
  /\ UNCHANGED cancel

\* The compliance and risk checks, whose verdict is any, and the lookup.
Admit(s) ==
  /\ \/ SubmitReturns(s, "admit", "SystemError")
     \/ /\ GetOrderByClientId(ClientOf[s]) # NoId
        /\ SubmitReturns(s, "admit", "Success")
     \/ /\ GetOrderByClientId(ClientOf[s]) = NoId
        /\ SubmitStep(s, "admit", "allocate")
  /\ UNCHANGED <<omsVars, emsVars, extVars, laneVars>>

Allocate(s) ==
  /\ submit[s].pc = "allocate"
  /\ AllocateOrderId
  /\ submit' = [submit EXCEPT ![s].pc = "reserve", ![s].oid = NextId]
  /\ UNCHANGED <<cancel, emsVars, extVars, laneVars>>

SetReservation(id, value) ==
  /\ reservation' = [reservation EXCEPT ![id] = value]
  /\ UNCHANGED <<sends, venue>>

\* Approved, rejected, or an unknown outcome that may have taken effect and may
\* have lapsed again.
Reserve(s) ==
  /\ \/ /\ SubmitStep(s, "reserve", "create")
        /\ SetReservation(submit[s].oid, "reserved")
     \/ SubmitReturns(s, "reserve", "SystemError") /\ UNCHANGED extVars
     \/ /\ SubmitStep(s, "reserve", "query")
        /\ \/ UNCHANGED extVars
           \/ \E found \in {"reserved", "expired"} : SetReservation(submit[s].oid, found)
  /\ UNCHANGED <<omsVars, emsVars, laneVars>>

\* Fault: an order is created whatever the query finds.
QueryReservationTrusting(s) ==
  /\ SubmitStep(s, "query", "create")
  /\ UNCHANGED <<omsVars, emsVars, extVars, laneVars>>

\* GetReservation after an unknown reserve: it may fail too, and then the
\* order is given up with whatever the service holds for it.  A reservation in
\* another state ends the call with the query's own code, which is success.
QueryReservation(s) ==
  /\ \/ /\ SubmitStep(s, "query", "create")
        /\ reservation[submit[s].oid] = "reserved"
     \/ /\ SubmitReturns(s, "query", "Timeout")
        /\ reservation[submit[s].oid] = "none"
     \/ /\ SubmitReturns(s, "query", "Success")
        /\ reservation[submit[s].oid] = "expired"
     \/ SubmitReturns(s, "query", "SystemError")
  /\ UNCHANGED <<omsVars, emsVars, extVars, laneVars>>

Create(s) ==
  /\ submit[s].pc = "create"
  /\ \E v \in Volumes :
       /\ CreateOrder(Req(s, v), submit[s].oid)
       /\ submit' = [submit EXCEPT ![s].pc = "check",
                                   ![s].cid = CreateResult(Req(s, v), submit[s].oid)]
  /\ UNCHANGED <<cancel, emsVars, extVars, laneVars>>

CheckPrepared(s) ==
  /\ submit[s].pc = "check"
  /\ IF orders[submit[s].cid].state = "Prepared"
     THEN SubmitStep(s, "check", "mark")
     ELSE SubmitReturns(s, "check", "Success")
  /\ UNCHANGED <<omsVars, emsVars, extVars, laneVars>>

\* MarkEmsQueued; a refused transition gives the reservation back.
Mark(s) ==
  /\ submit[s].pc = "mark"
  /\ MarkEmsQueued(submit[s].cid)
  /\ LET rc == TransitionRc(submit[s].cid, "EmsQueued")
     IN submit' = [submit EXCEPT
                     ![s].pc = IF rc = "Success" THEN "enqueue" ELSE "release",
                     ![s].rc = rc]
  /\ UNCHANGED <<cancel, emsVars, extVars, laneVars>>

\* Fault: the capacity is tested one too late.
EnqueueRcLate == CASE ~emsRunning -> "NotInitialized"
                   [] emsRunning /\ Len(queue) > QueueCapacity -> "ResourceExhausted"
                   [] OTHER -> "Success"

EnqueueRc == CASE ~emsRunning -> "NotInitialized"
               [] emsRunning /\ Len(queue) >= QueueCapacity -> "ResourceExhausted"
               [] OTHER -> "Success"

Enqueue(s) ==
  /\ submit[s].pc = "enqueue"
  /\ submit' = [submit EXCEPT
                  ![s].pc = IF EnqueueRc = "Success" THEN "done" ELSE "undo",
                  ![s].rc = EnqueueRc]
  /\ queue' = IF EnqueueRc = "Success" THEN Append(queue, SendItem(submit[s].cid))
                                       ELSE queue
  /\ UNCHANGED <<omsVars, cancel, emsRunning, worker, extVars, laneVars>>

\* Fault: the OMS is not told that the order was not queued.
UndoSubmitSilently(s) ==
  SubmitStep(s, "undo", "release") /\ UNCHANGED <<omsVars, emsVars, extVars, laneVars>>

UndoSubmit(s) ==
  /\ SubmitStep(s, "undo", "release")
  /\ RecordSendResult(submit[s].cid, submit[s].rc)
  /\ UNCHANGED <<emsVars, extVars, laneVars>>

ReleaseSubmit(s) ==
  /\ SubmitStep(s, "release", "done")
  /\ SetReservation(submit[s].cid, "released")
  /\ UNCHANGED <<omsVars, emsVars, laneVars>>

Submit(s) ==
  \/ Admit(s) \/ Allocate(s) \/ Reserve(s) \/ QueryReservation(s) \/ Create(s)
  \/ CheckPrepared(s) \/ Mark(s) \/ Enqueue(s) \/ UndoSubmit(s) \/ ReleaseSubmit(s)

-----------------------------------------------------------------------------
(* OrderPipeline::Cancel.  The broker_order_id it sends is the one in the  *)
(* snapshot taken before the OMS accepts the cancellation.                 *)

LookupCancel(k) ==
  /\ cancel[k].pc = "lookup"
  /\ \E id \in {i \in OrderIds : Present(i)} :
       cancel' = [cancel EXCEPT ![k].pc = "cancel", ![k].id = id,
                                ![k].broker = orders[id].broker]
  /\ UNCHANGED <<omsVars, submit, emsVars, extVars, laneVars>>

AcceptCancel(k) ==
  /\ cancel[k].pc = "cancel"
  /\ CancelOrder(cancel[k].id)
  /\ LET rc == TransitionRc(cancel[k].id, "CancelPending")
     IN cancel' = [cancel EXCEPT ![k].pc = IF rc = "Success" THEN "enqueue" ELSE "done",
                                 ![k].rc = rc]
  /\ UNCHANGED <<submit, emsVars, extVars, laneVars>>

\* EnqueueCancel puts the cancellation at the front of the queue.
EnqueueCancel(k) ==
  /\ cancel[k].pc = "enqueue"
  /\ cancel' = [cancel EXCEPT
                  ![k].pc = IF EnqueueRc = "Success" THEN "done" ELSE "undo",
                  ![k].rc = EnqueueRc]
  /\ queue' = IF EnqueueRc = "Success"
              THEN <<CancelItem(cancel[k].id, cancel[k].broker)>> \o queue ELSE queue
  /\ UNCHANGED <<omsVars, submit, emsRunning, worker, extVars, laneVars>>

UndoCancel(k) ==
  /\ cancel[k].pc = "undo"
  /\ RecordCancelResult(cancel[k].id, cancel[k].rc)
  /\ cancel' = [cancel EXCEPT ![k].pc = "done"]
  /\ UNCHANGED <<submit, emsVars, extVars, laneVars>>

Cancel(k) == LookupCancel(k) \/ AcceptCancel(k) \/ EnqueueCancel(k) \/ UndoCancel(k)

-----------------------------------------------------------------------------
(* The venue, external.  It knows an order by its client_order_id and      *)
(* answers with that; the engine's own order_id comes back only after a    *)
(* cancellation named it.                                                  *)

OrderEvent(id, status, traded) ==
  [kind |-> "order",
   report |-> [order_id |-> IF venue[id].asked THEN id ELSE NoId,
               client |-> orders[id].client, status |-> status,
               volume |-> orders[id].volume,
               left |-> orders[id].volume - traded,
               traded |-> traded, broker |-> TRUE]]

TradeEvent(id, n) ==
  [kind |-> "trade",
   report |-> [key |-> <<id, n>>, order_id |-> NoId,
               client |-> orders[id].client, volume |-> 1]]

\* A fill is reported as a trade alone (the test stub), or also as an order
\* snapshot with the cumulative volume, after or before the trade.
FillEvents(id, n) ==
  LET trade    == TradeEvent(id, n)
      snapshot == OrderEvent(id, IF n = orders[id].volume THEN "Filled"
                                 ELSE "PartiallyFilled", n)
  IN CASE VenueStyle = "trade"        -> <<trade>>
       [] VenueStyle = "trade_report" -> <<trade, snapshot>>
       [] VenueStyle = "report_trade" -> <<snapshot, trade>>

\* EventReactorLoop::Publish on a full lane refuses the event, and the adapter
\* callback does not look at the answer.
Publish(events) ==
  LET all == lane \o events
  IN lane' = SubSeq(all, 1, IF Len(all) <= LaneCapacity THEN Len(all) ELSE LaneCapacity)

Live(id) == venue[id].status = "queued"

VenueFill(id) ==
  /\ Live(id)
  /\ LET n == venue[id].traded + 1
     IN /\ venue' = [venue EXCEPT
                       ![id].traded = n,
                       ![id].status = IF n = orders[id].volume THEN "filled" ELSE @]
        /\ Publish(FillEvents(id, n))
  /\ UNCHANGED <<omsVars, callVars, emsVars, sends, reservation, handler>>

VenueCancel(id) ==
  /\ Live(id)
  /\ venue[id].asked \/ VenueMayCancel
  /\ venue' = [venue EXCEPT ![id].status = "canceled"]
  /\ Publish(<<OrderEvent(id, "Canceled", venue[id].traded)>>)
  /\ UNCHANGED <<omsVars, callVars, emsVars, sends, reservation, handler>>

\* The exchange turns down an order its broker had taken.
VenueReject(id) ==
  /\ Live(id) /\ venue[id].traded = 0
  /\ venue' = [venue EXCEPT ![id].status = "rejected"]
  /\ Publish(<<OrderEvent(id, "Rejected", 0)>>)
  /\ UNCHANGED <<omsVars, callVars, emsVars, sends, reservation, handler>>

\* Once per order, when nothing else is on its way, as after a reconnection, its
\* last trade is delivered again.
VenueRepeat(id) ==
  /\ VenueRepeats /\ lane = <<>> /\ venue[id].traded > 0 /\ ~venue[id].repeated
  /\ venue' = [venue EXCEPT ![id].repeated = TRUE]
  /\ Publish(<<TradeEvent(id, venue[id].traded)>>)
  /\ UNCHANGED <<omsVars, callVars, emsVars, sends, reservation, handler>>

Venue(id) == VenueFill(id) \/ VenueCancel(id) \/ VenueReject(id) \/ VenueRepeat(id)

-----------------------------------------------------------------------------
(* ExecutionManager: Stop, and the worker thread's loop Run.               *)

\* Stop clears running_ and joins the worker, which first drains the queue.
StopEms ==
  /\ emsRunning
  /\ emsRunning' = FALSE
  /\ UNCHANGED <<omsVars, callVars, queue, worker, extVars, laneVars>>

WorkerAt(pc) == worker.pc = pc

WorkerTo(pc, rc) == /\ worker' = [worker EXCEPT !.pc = pc, !.rc = rc]
                    /\ UNCHANGED <<emsRunning, queue>>

\* Fault: the worker stops with items in the queue.
WorkerTakeUntilStop ==
  /\ WorkerAt("idle") /\ queue # <<>> /\ emsRunning
  /\ worker' = [pc |-> IF Head(queue).type = "Send" THEN "mark" ELSE "cancel",
                item |-> Head(queue), rc |-> "Success"]
  /\ queue' = Tail(queue)
  /\ UNCHANGED <<omsVars, callVars, emsRunning, extVars, laneVars>>

WorkerTake ==
  /\ WorkerAt("idle") /\ queue # <<>>
  /\ worker' = [pc |-> IF Head(queue).type = "Send" THEN "mark" ELSE "cancel",
                item |-> Head(queue), rc |-> "Success"]
  /\ queue' = Tail(queue)
  /\ UNCHANGED <<omsVars, callVars, emsRunning, extVars, laneVars>>

\* Fault: the answer of MarkSendPending is not looked at.
WorkerMarkUnchecked ==
  /\ WorkerAt("mark")
  /\ MarkSendPending(worker.item.id)
  /\ WorkerTo("send", "Success")
  /\ UNCHANGED <<callVars, extVars, laneVars>>

WorkerMark ==
  /\ WorkerAt("mark")
  /\ MarkSendPending(worker.item.id)
  /\ LET rc == TransitionRc(worker.item.id, "SendPending")
     IN WorkerTo(IF rc = "Success" THEN "send" ELSE "refused", rc)
  /\ UNCHANGED <<callVars, extVars, laneVars>>

WorkerRefused ==
  /\ WorkerAt("refused")
  /\ RecordSendResult(worker.item.id, worker.rc)
  /\ WorkerTo("release", worker.rc)
  /\ UNCHANGED <<callVars, extVars, laneVars>>

\* TraderApi::SendOrder.  A timeout leaves open whether the venue has the
\* order.  The acknowledgement is published before the call returns.
WorkerSend ==
  /\ WorkerAt("send")
  /\ LET id == worker.item.id
     IN \E rc \in Results, taken \in BOOLEAN :
          /\ taken <=> rc = "Success" \/ (rc = "Timeout" /\ taken)
          /\ sends' = [sends EXCEPT ![id] = Append(@, rc)]
          /\ IF taken
             THEN /\ venue' = [venue EXCEPT ![id].status = "queued"]
                  /\ Publish(<<OrderEvent(id, "New", 0)>>)
             ELSE UNCHANGED <<venue, lane>>
          /\ WorkerTo("sent", rc)
  /\ UNCHANGED <<omsVars, callVars, reservation, handler>>

\* Every result but success releases the reservation, the unknown one too.
WorkerRecordSend ==
  /\ WorkerAt("sent")
  /\ RecordSendResult(worker.item.id, worker.rc)
  /\ WorkerTo(IF worker.rc = "Success" THEN "idle" ELSE "release", worker.rc)
  /\ UNCHANGED <<callVars, extVars, laneVars>>

WorkerRelease ==
  /\ WorkerAt("release")
  /\ SetReservation(worker.item.id, "released")
  /\ WorkerTo("idle", worker.rc)
  /\ UNCHANGED <<omsVars, callVars, laneVars>>

\* TraderApi::CancelOrder, by broker_order_id.
WorkerCancel ==
  /\ WorkerAt("cancel")
  /\ LET id    == worker.item.id
         known == worker.item.broker /\ Live(id)
     IN \E rc \in {"Success", "Timeout", "NotFound", "SystemError"}, asks \in BOOLEAN :
          /\ rc = "Success" => known /\ asks
          /\ rc = "NotFound" => ~worker.item.broker
          /\ asks => known /\ rc \in {"Success", "Timeout"}
          /\ venue' = [venue EXCEPT ![id].asked = @ \/ asks]
          /\ WorkerTo("canceled", rc)
  /\ UNCHANGED <<omsVars, callVars, sends, reservation, laneVars>>

WorkerRecordCancel ==
  /\ WorkerAt("canceled")
  /\ RecordCancelResult(worker.item.id, worker.rc)
  /\ WorkerTo("idle", worker.rc)
  /\ UNCHANGED <<callVars, extVars, laneVars>>

Worker ==
  \/ WorkerTake \/ WorkerMark \/ WorkerRefused \/ WorkerSend \/ WorkerRecordSend
  \/ WorkerRelease \/ WorkerCancel \/ WorkerRecordCancel

-----------------------------------------------------------------------------
(* Lane-T: OnTraderOrderReport and OnTraderTradeReport.  The OMS is updated *)
(* first; the decision to release reads it again.                          *)

HandleReport ==
  /\ handler = <<>> /\ lane # <<>>
  /\ IF Head(lane).kind = "order" THEN ApplyOrderReport(Head(lane).report)
                                  ELSE ApplyTradeReport(Head(lane).report)
  /\ handler' = <<Head(lane)>>
  /\ lane' = Tail(lane)
  /\ UNCHANGED <<callVars, emsVars, extVars>>

LocalOrder(r) == CASE r.order_id = NoId    -> GetOrderByClientId(r.client)
                   [] Present(r.order_id)  -> r.order_id
                   [] OTHER                -> NoId

\* Fault: the first fill settles the order.
ReleasesAtFirstFill(e) ==
  /\ LocalOrder(e.report) # NoId
  /\ IF e.kind = "order" THEN e.report.status \in {"Rejected", "Canceled"} ELSE TRUE

\* Fault: a cancellation confirmed by the venue settles nothing.
ReleasesNotOnCancel(e) ==
  /\ LocalOrder(e.report) # NoId
  /\ IF e.kind = "order" THEN e.report.status = "Rejected"
                         ELSE orders[LocalOrder(e.report)].status = "Filled"

ReleasesReservation(e) ==
  /\ LocalOrder(e.report) # NoId
  /\ IF e.kind = "order" THEN e.report.status \in {"Rejected", "Canceled"}
                         ELSE orders[LocalOrder(e.report)].status = "Filled"

FinishReport ==
  /\ handler # <<>>
  /\ IF ReleasesReservation(handler[1])
     THEN SetReservation(LocalOrder(handler[1].report), "released")
     ELSE UNCHANGED extVars
  /\ handler' = <<>>
  /\ UNCHANGED <<omsVars, callVars, emsVars, lane>>

LaneThread == HandleReport \/ FinishReport

-----------------------------------------------------------------------------
FlowNext ==
  \/ \E s \in Submissions : Submit(s)
  \/ \E k \in Cancellations : Cancel(k)
  \/ StopEms
  \/ Worker
  \/ \E id \in OrderIds : Venue(id)
  \/ LaneThread

FlowSpec == FlowInit /\ [][FlowNext]_vars

\* The engine's threads keep running: each thread that has work to do is
\* eventually scheduled.  Callers need not come, and the venue need not act.
Fairness ==
  /\ \A s \in Submissions : WF_vars(Submit(s))
  /\ \A k \in Cancellations :
       WF_vars(AcceptCancel(k) \/ EnqueueCancel(k) \/ UndoCancel(k))
  /\ WF_vars(Worker)
  /\ WF_vars(LaneThread)

FairFlowSpec == FlowSpec /\ Fairness

-----------------------------------------------------------------------------
(* Correctness.                                                            *)

SubmitPcs == {"admit", "allocate", "reserve", "query", "create", "check", "mark",
              "enqueue", "undo", "release", "done"}
CancelPcs == {"lookup", "cancel", "enqueue", "undo", "done"}
WorkerPcs == {"idle", "mark", "refused", "send", "sent", "release", "cancel", "canceled"}
Event == [kind : {"order"}, report : OrderReport] \cup
         [kind : {"trade"}, report : TradeReport]

CallsTypeOK ==
  /\ submit \in [Submissions -> [pc : SubmitPcs, oid : OrderIds \cup {NoId},
                                 cid : OrderIds \cup {NoId}, rc : ErrorCodes]]
  /\ cancel \in [Cancellations -> [pc : CancelPcs, id : OrderIds \cup {NoId},
                                   broker : BOOLEAN, rc : ErrorCodes]]

EmsTypeOK ==
  /\ emsRunning \in BOOLEAN
  /\ queue \in Seq(Item) /\ Len(queue) <= QueueCapacity
  /\ worker \in [pc : WorkerPcs, item : Item, rc : ErrorCodes]

ExtTypeOK ==
  /\ sends \in [OrderIds -> Seq(Results)]
  /\ venue \in [OrderIds -> [status : {"none", "queued", "filled", "canceled", "rejected"},
                             traded : Nat, asked : BOOLEAN, repeated : BOOLEAN]]
  /\ reservation \in [OrderIds -> {"none", "reserved", "expired", "released"}]

LaneTypeOK ==
  /\ lane \in Seq(Event) /\ Len(lane) <= LaneCapacity
  /\ handler \in Seq(Event) /\ Len(handler) <= 1

\* Type invariant of the composition, with the two queues within their capacity.
FlowTypeOK == TypeOK /\ CallsTypeOK /\ EmsTypeOK /\ ExtTypeOK /\ LaneTypeOK

TimedOut(id) == \E i \in DOMAIN sends[id] : sends[id][i] = "Timeout"

\* SendOrder is called at most once for a client_order_id, however many Submit
\* calls carry it and however the queue, the worker and cancellations interleave.
AtMostOneSend ==
  \A i, j \in OrderIds :
    /\ Present(i) /\ Present(j) /\ orders[i].client = orders[j].client
    /\ sends[i] # <<>> /\ sends[j] # <<>>
    => i = j /\ Len(sends[i]) = 1

\* SendOrder is called only while the OMS holds the order in SendPending: an
\* order whose cancellation, rejection or failed enqueue got there first, even
\* between the queueing and the worker's turn, never reaches the venue.
SentOnlyWhilePending ==
  [][\A id \in OrderIds :
       sends'[id] # sends[id] => orders[id].state = "SendPending"]_vars

\* No order goes to the venue without the account-risk reservation made for it.
SendIsCovered ==
  [][\A id \in OrderIds :
       sends'[id] # sends[id] => reservation[id] = "reserved"]_vars

\* As long as an order can trade at the venue its reservation stands, unless the
\* result of sending it was never known.
LiveIsCovered ==
  \A id \in OrderIds :
    Live(id) /\ ~TimedOut(id) => reservation[id] = "reserved"

\* An order the OMS calls Rejected cannot trade at the venue any more: neither an
\* unknown result of the send nor a late one is taken for a refusal.
RejectedIsNotLive ==
  \A id \in OrderIds : orders[id].state = "Rejected" => ~Live(id)

\* The OMS never counts more volume as traded than a venue has traded that sends
\* trades alone, or each trade before the snapshot that counts it, and that may
\* send a trade twice.  Of a venue that sends the snapshot first it is false: the
\* two add up (ClaimCumulative.cfg).
NeverAheadOfVenue ==
  \A id \in OrderIds : Present(id) => orders[id].traded <= venue[id].traded

\* Everything in flight has been dealt with, at the venue too.
Quiet ==
  /\ \A s \in Submissions : submit[s].pc = "done"
  /\ \A k \in Cancellations : cancel[k].pc \in {"lookup", "done"}
  /\ queue = <<>> /\ worker.pc = "idle"
  /\ lane = <<>> /\ handler = <<>>
  /\ \A id \in OrderIds : ~Live(id)

\* Once all is quiet an order that reached the venue has in the OMS the outcome
\* and the traded volume it has there, in whatever order the worker's results,
\* the cancellations and the reports were recorded.
AgreesWhenQuiet ==
  Quiet => \A id \in OrderIds :
    /\ venue[id].status = "filled"   => orders[id].state = "Filled"
    /\ venue[id].status = "canceled" => orders[id].state = "Canceled"
    /\ venue[id].status = "rejected" => orders[id].state = "Rejected"
    /\ venue[id].status # "none"     => orders[id].traded = venue[id].traded

\* Once all is quiet no finished order holds a reservation: each of the many
\* ways to be rejected, canceled or filled has released it.
TerminalIsReleased ==
  Quiet => \A id \in OrderIds :
    orders[id].state \in Terminal => reservation[id] # "reserved"

\* An order that was accepted for sending does not wait for ever in front of the
\* venue, whatever callers do and although Stop may come at any time: it is sent,
\* it ends unsent, or a cancellation takes it over.  The last is not always its
\* end: a refused one leaves it Working and unsent (WorkingMeansTaken).
SubmissionDecided ==
  \A id \in OrderIds :
    orders[id].state \in PreSend \cup {"SendPending"}
      ~> /\ orders[id].state \notin PreSend \cup {"SendPending"}
         /\ \/ sends[id] # <<>>
            \/ orders[id].state \in Terminal \cup {"CancelPending"}

\* The worker empties the queue again and again: a cancellation or an order in
\* the queue is not left there by Stop or by a full queue.
QueueDrains == (queue # <<>>) ~> (queue = <<>> /\ worker.pc = "idle")
=============================================================================
