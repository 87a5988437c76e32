--------------------------- MODULE OrderFlowProofs ---------------------------
(***************************************************************************)
(* Proofs about OrderFlow for any number of Submit and Cancel calls, any   *)
(* capacity of the queue and of Lane-T, and every interleaving of the      *)
(* callers, the EMS worker, the venue and the Lane-T thread.               *)
(*                                                                         *)
(* FlowInv holds whatever the callers do.  RightsInv needs that no two     *)
(* Submit calls carry the same client_order_id, FillInv that the venue     *)
(* never sends a cumulative snapshot ahead of the trade it counts, EndsInv *)
(* both and that Lane-T has room; without these what they say is false,    *)
(* and TLC shows it.                                                       *)
(***************************************************************************)
EXTENDS OrderFlow, OrderManagerProofs, SequenceTheorems

\* A Submit that has an identifier and no row yet, and one that has its row.
Preparing == {"reserve", "query", "create"}
Holding   == {"check", "mark", "enqueue", "undo", "release"}

\* Every row was made by a Submit.
RowsInv ==
  \A id \in OrderIds : Present(id) =>
    orders[id].client \in ClientIds /\ orders[id].volume \in Volumes

\* An identifier belongs to one Submit until its row is made.
SubmitsInv ==
  \A s \in Submissions :
    /\ submit[s].pc \in Preparing =>
         /\ submit[s].oid \in LocalIds /\ submit[s].oid <= counter
         /\ orders[submit[s].oid].state = "Absent"
         /\ \A t \in Submissions :
              submit[t].pc \in Preparing /\ submit[t].oid = submit[s].oid => t = s
    /\ submit[s].pc \in Holding =>
         Present(submit[s].cid) /\ orders[submit[s].cid].client = ClientOf[s]

\* What a Cancel, the queue and the worker name has a row.
ItemsInv ==
  /\ \A k \in Cancellations :
       cancel[k].pc \in {"cancel", "enqueue", "undo"} => Present(cancel[k].id)
  /\ \A i \in 1..Len(queue) : Present(queue[i].id)
  /\ worker.pc # "idle" => Present(worker.item.id)

\* A sent order is past the states from which it would be sent, and is still
\* SendPending only until the worker has recorded the result.
Unsendable(id) == orders[id].state \notin PreSend \cup {"Absent"}

SendsInv ==
  /\ \A id \in OrderIds :
       /\ Len(sends[id]) <= 1
       /\ sends[id] # <<>> => Unsendable(id)
       /\ sends[id] # <<>> /\ orders[id].state = "SendPending" =>
            worker.pc = "sent" /\ worker.item.id = id
  /\ worker.pc = "send" => Unsendable(worker.item.id) /\ sends[worker.item.id] = <<>>
  /\ worker.pc = "sent" => sends[worker.item.id] = <<worker.rc>>

\* The venue has an order only from a send, and never trades more than was asked.
VenueInv ==
  \A id \in OrderIds :
    /\ venue[id].status = "none" => venue[id].traded = 0
    /\ venue[id].status # "none" =>
         /\ sends[id] \in {<<"Success">>, <<"Timeout">>}
         /\ venue[id].traded <= orders[id].volume
         /\ venue[id].traded = orders[id].volume <=> venue[id].status = "filled"

\* What an event on its way says of the order it is about.
EventAbout(e, id) ==
  /\ venue[id].status # "none"
  /\ e.report.client = orders[id].client
  /\ e.report.order_id \in {NoId, id}
  /\ e.kind = "trade" =>
       /\ e.report.volume = 1
       /\ \E n \in 1..venue[id].traded : e.report.key = <<id, n>>
  /\ e.kind = "order" =>
       /\ e.report.volume = orders[id].volume
       /\ e.report.traded <= venue[id].traded
       /\ e.report.status # "Unknown"
       /\ e.report.status = "New" => e.report.traded = 0
       /\ e.report.status \in {"PartiallyFilled", "Filled"} => e.report.traded # 0
       /\ e.report.status = "Filled" => e.report.traded = orders[id].volume
       /\ e.report.status = "Canceled" => venue[id].status = "canceled"
       /\ e.report.status = "Rejected" => venue[id].status = "rejected"

EventsInv ==
  /\ \A i \in 1..Len(lane) : \E id \in OrderIds : EventAbout(lane[i], id)
  /\ handler # <<>> => \E id \in OrderIds : EventAbout(handler[1], id)

FlowInv ==
  /\ OmsInv /\ initialized
  /\ CallsTypeOK /\ EmsTypeOK /\ ExtTypeOK /\ LaneTypeOK
  /\ RowsInv /\ SubmitsInv /\ ItemsInv /\ SendsInv /\ VenueInv /\ EventsInv

-----------------------------------------------------------------------------
\* Each Submit call has a client_order_id of its own.
ClientsDistinct ==
  \A s, t \in Submissions : ClientOf[s] = ClientOf[t] => s = t

\* The worker is busy with sending the order.
WorkerHas(id) ==
  worker.pc \in {"mark", "refused", "send", "sent", "release"} /\ worker.item.id = id

Unsent(id)  == sends[id] = <<>>
Covered(id) == reservation[id] = "reserved"

\* The queue has an entry for sending the order.
Queued(id) == \E i \in 1..Len(queue) : queue[i].type = "Send" /\ queue[i].id = id

\* Somebody is on the way to sending the order and has reserved for it.
SubmitRelies(s, id) ==
  \/ submit[s].pc = "create" /\ submit[s].oid = id
  \/ submit[s].pc \in {"check", "mark", "enqueue"} /\ submit[s].cid = id

Relied(id) ==
  \/ \E s \in Submissions : SubmitRelies(s, id)
  \/ Queued(id)
  \/ worker.pc \in {"mark", "send"} /\ worker.item.id = id

ReservationsHeld == \A id \in OrderIds : Relied(id) => Covered(id)

\* The right to send an order passes from its Submit to one entry of the queue
\* and from there to the worker: two never have it at once.
HeldBySubmit ==
  \A s \in Submissions :
    /\ submit[s].pc \in {"admit", "allocate"} \cup Preparing =>
         \A id \in OrderIds : Present(id) => orders[id].client # ClientOf[s]
    /\ submit[s].pc \in Holding =>
         /\ Unsent(submit[s].cid) /\ ~WorkerHas(submit[s].cid) /\ ~Queued(submit[s].cid)

HeldByQueue ==
  \A i \in 1..Len(queue) : queue[i].type = "Send" =>
    /\ Unsent(queue[i].id) /\ ~WorkerHas(queue[i].id)
    /\ \A j \in 1..Len(queue) :
         queue[j].type = "Send" /\ queue[j].id = queue[i].id => j = i

HeldByWorker ==
  /\ worker.pc \in {"mark", "refused", "send"} => Unsent(worker.item.id)
  /\ worker.pc = "send" => orders[worker.item.id].state = "SendPending"
  /\ worker.pc = "release" /\ ~Unsent(worker.item.id) =>
       worker.rc # "Success" /\ sends[worker.item.id] = <<worker.rc>>

\* A cancellation the OMS accepted keeps its order from ever becoming SendPending.
AcceptedCancels ==
  \A k \in Cancellations : cancel[k].pc \in {"enqueue", "undo"} =>
    orders[cancel[k].id].state \notin PreSend \cup {"SendPending"}

RightsInv ==
  /\ ClientsDistinct /\ ReservationsHeld
  /\ HeldBySubmit /\ HeldByQueue /\ HeldByWorker /\ AcceptedCancels

-----------------------------------------------------------------------------
Dead(id) == orders[id].state \in {"Canceled", "Rejected"}

Applied(id, n) == <<id, n>> \in applied

IsTrade(e, id, n) == e.kind = "trade" /\ e.report.key = <<id, n>>

IsFillSnapshot(e, id) ==
  /\ e.kind = "order" /\ e.report.client = orders[id].client
  /\ e.report.status \in {"PartiallyFilled", "Filled"}

\* The volume the OMS counts never runs ahead of the trades it has applied.
CountInv ==
  \A id \in OrderIds : Present(id) =>
    /\ orders[id].traded <= venue[id].traded
    /\ orders[id].traded > 0 /\ ~Dead(id) =>
         \E m \in Nat : Applied(id, m) /\ orders[id].traded <= m
    /\ orders[id].state = "Filled" => Applied(id, orders[id].volume)
    /\ orders[id].status = "Filled" => venue[id].status = "filled"

AppliedInv ==
  \A id \in OrderIds, m \in Nat : Applied(id, m) => m <= venue[id].traded

\* In the lane the trades not yet applied come in order, and each snapshot of a
\* fill comes after the trade it counts.
TradeInOrder(id, j) ==
  \A n \in Nat : IsTrade(lane[j], id, n) /\ ~Applied(id, n) =>
    /\ \A m \in Nat : Applied(id, m) => m < n
    /\ \A i \in 1..(j-1), m \in Nat : IsTrade(lane[i], id, m) => m < n

SnapshotInOrder(id, j) ==
  Present(id) /\ IsFillSnapshot(lane[j], id) =>
    \/ Dead(id) \/ Applied(id, lane[j].report.traded)
    \/ \E i \in 1..(j-1) : IsTrade(lane[i], id, lane[j].report.traded)

InOrderInv ==
  \A id \in OrderIds, j \in 1..Len(lane) : TradeInOrder(id, j) /\ SnapshotInOrder(id, j)

FillInv ==
  VenueStyle # "report_trade" /\ CountInv /\ AppliedInv /\ InOrderInv

-----------------------------------------------------------------------------
(* What the operations of the OMS do to a row.                             *)

\* Any operation, reports included.
RowKept(old, new) ==
  /\ RowStep(old, new)
  /\ new.volume = old.volume
  /\ new.state = "SendPending" => old.state \in {"EmsQueued", "SendPending"}

\* An operation of OrderApi, which counts no trades and fills nothing.
CallKept(old, new) ==
  /\ RowKept(old, new)
  /\ new.traded = old.traded
  /\ new.status = "Filled" => old.status = "Filled"
  /\ new.state = "Filled" => old.state = "Filled"

FreshRow(new) ==
  /\ new.client \in ClientIds /\ new.volume \in Volumes
  /\ new.state = "Prepared" /\ new.traded = 0 /\ new.status = "New"

RowsKept ==
  \A id \in OrderIds :
    /\ Present(id) => RowKept(orders[id], orders'[id])
    /\ ~Present(id) => orders'[id] = orders[id] \/ FreshRow(orders'[id])

CallsKept ==
  \A id \in OrderIds :
    /\ Present(id) => CallKept(orders[id], orders'[id])
    /\ ~Present(id) => orders'[id] = orders[id] \/ FreshRow(orders'[id])

\* All that a change of the tables means to the rest of the system.
TablesKept ==
  /\ OmsInv' /\ GoodStep /\ initialized' = initialized /\ counter' >= counter
  /\ RowsKept

NoNewRows == \A id : ~Present(id) => ~Present(id)'

LEMMA RequestKept ==
  ASSUME NEW old \in Entry, old.state \in Lifecycle, NEW to, to # "Filled"
  PROVE  CallKept(old, ApplyTransition(old, to))
  <1>1. RowStep(old, ApplyTransition(old, to))
    BY ApplyTransitionRow
  <1>2. CASE CanTransition(old.state, to)
    <2>1. ApplyTransition(old, to) = [old EXCEPT !.state = to]
      BY <1>2 DEF ApplyTransition
    <2>2. to = "SendPending" => old.state \in {"EmsQueued", "SendPending"}
      BY <1>2 DEF CanTransition, Successors, Lifecycle, PreSend, Terminal
    <2> QED BY <1>1, <2>1, <2>2 DEF CallKept, RowKept, Entry
  <1>3. CASE ~CanTransition(old.state, to)
    <2>1. ApplyTransition(old, to) = old
      BY <1>3 DEF ApplyTransition
    <2> QED BY <1>1, <2>1 DEF CallKept, RowKept
  <1> QED BY <1>2, <1>3

LEMMA SendResultKept ==
  ASSUME NEW old \in Entry, old.state \in Lifecycle, NEW rc
  PROVE  /\ CallKept(old, SendResult(old, rc))
         /\ SendResult(old, rc).state = "Rejected" =>
              old.state = "Rejected" \/ rc \notin {"Success", "Timeout"}
         /\ old.state = "SendPending" => SendResult(old, rc).state # "SendPending"
  <1> DEFINE unknown  == [old EXCEPT !.status = "Unknown"]
             rejected == [old EXCEPT !.status = "Rejected"]
  <1>1. unknown \in Entry /\ rejected \in Entry
    BY DEF Entry, Statuses
  <1>2. /\ unknown.state = old.state /\ rejected.state = old.state
        /\ unknown.client = old.client /\ rejected.client = old.client
        /\ unknown.volume = old.volume /\ rejected.volume = old.volume
        /\ unknown.traded = old.traded /\ rejected.traded = old.traded
        /\ unknown.status # "Filled" /\ rejected.status # "Filled"
    BY DEF Entry
  <1>3. /\ CallKept(old, ApplyTransition(old, "Working"))
        /\ CallKept(unknown, ApplyTransition(unknown, "SendUnknown"))
        /\ CallKept(rejected, ApplyTransition(rejected, "Rejected"))
    BY <1>1, <1>2, RequestKept
  <1>4. CallKept(old, old)
    BY DEF CallKept, RowKept, RowStep
  <1>5. \/ SendResult(old, rc) = old /\ old.state # "SendPending"
        \/ SendResult(old, rc) = ApplyTransition(old, "Working")
        \/ SendResult(old, rc) = ApplyTransition(unknown, "SendUnknown")
        \/ /\ SendResult(old, rc) = ApplyTransition(rejected, "Rejected")
           /\ rc \notin {"Success", "Timeout"}
    BY Zenon DEF SendResult
  <1>6. ASSUME NEW e \in Entry, NEW to, e.state = old.state
        PROVE  ApplyTransition(e, to).state =
                 IF CanTransition(old.state, to) THEN to ELSE old.state
    BY <1>6 DEF ApplyTransition, Entry
  <1>7. old.state = "SendPending" =>
          /\ CanTransition(old.state, "Working") /\ CanTransition(old.state, "SendUnknown")
          /\ CanTransition(old.state, "Rejected")
    BY DEF CanTransition, Successors
  <1> HIDE DEF unknown, rejected
  <1>8. CallKept(old, SendResult(old, rc))
    BY <1>1, <1>2, <1>3, <1>4, <1>5 DEF CallKept, RowKept, RowStep
  <1> QED BY <1>1, <1>2, <1>5, <1>6, <1>7, <1>8

LEMMA MergedKept ==
  ASSUME NEW old \in Entry, old.state \in Lifecycle, NEW r \in OrderReport,
         r.volume = old.volume, r.status # "Unknown"
  PROVE  /\ RowKept(old, Merged(old, r))
         /\ Merged(old, r) = old \/
              /\ Merged(old, r).traded = r.traded /\ Merged(old, r).status = r.status
              /\ \/ Merged(old, r).state = r.status
                 \/ Merged(old, r).state = old.state /\ r.status = "New"
  <1> DEFINE to == MergeTarget(old, r)
  <1>1. RowStep(old, Merged(old, r))
    BY MergedRow
  <1>2. CASE MergeLegal(old, r)
    <2>1. Merged(old, r) = [MergeSnapshot(old, r) EXCEPT !.state = to]
      BY <1>2 DEF Merged
    <2>2. /\ MergeSnapshot(old, r) \in Entry
          /\ MergeSnapshot(old, r).volume = old.volume
          /\ MergeSnapshot(old, r).traded = r.traded
          /\ MergeSnapshot(old, r).status = r.status
      BY DEF MergeSnapshot, Entry, OrderReport
    <2>3. CanTransition(old.state, to)
      BY <1>2 DEF MergeLegal
    <2>4. to = r.status \/ (r.status = "New" /\ (to = old.state \/ to = "Working"))
      BY DEF MergeTarget, LifecycleFromStatus, OrderReport, Statuses, Terminal
    <2>5. to = "SendPending" => old.state \in {"EmsQueued", "SendPending"}
      BY <2>3 DEF CanTransition, Successors
    <2>6. to = "Working" /\ r.status = "New" => to = old.state
      BY <2>3 DEF MergeTarget, LifecycleFromStatus, CanTransition, Successors, Terminal
    <2> HIDE DEF to
    <2>7. /\ Merged(old, r).volume = old.volume /\ Merged(old, r).traded = r.traded
          /\ Merged(old, r).status = r.status /\ Merged(old, r).state = to
      BY <2>1, <2>2 DEF Entry
    <2> QED BY <1>1, <2>4, <2>5, <2>6, <2>7 DEF RowKept
  <1>3. CASE ~MergeLegal(old, r)
    <2>1. Merged(old, r) = old
      BY <1>3 DEF Merged
    <2> QED BY <1>1, <2>1 DEF RowKept
  <1> QED BY <1>2, <1>3

LEMMA TradedKept ==
  ASSUME NEW old \in Entry, old.state \in Lifecycle, NEW t, t.volume \in Nat,
         CanTransition(old.state, TradeState(old, t))
  PROVE  /\ RowKept(old, Traded(old, t))
         /\ Traded(old, t).traded = old.traded + t.volume
         /\ Traded(old, t).status = Traded(old, t).state
         /\ Traded(old, t).state =
              (IF old.traded + t.volume >= old.volume THEN "Filled" ELSE "PartiallyFilled")
  <1>1. RowStep(old, Traded(old, t))
    BY TradedRow
  <1>2. /\ Traded(old, t).volume = old.volume
        /\ Traded(old, t).traded = old.traded + t.volume
        /\ Traded(old, t).status = TradeState(old, t)
        /\ Traded(old, t).state = TradeState(old, t)
    BY DEF Traded, TradeTotal, Entry
  <1> QED BY <1>1, <1>2 DEF RowKept, TradeState, TradeTotal

-----------------------------------------------------------------------------
(* What they do to the tables.                                             *)

\* One row changes, the others and the index do not.
OneRowChanges(id, new) ==
  /\ TablesKept /\ NoNewRows /\ UNCHANGED <<counter, clientIndex>>
  /\ orders'[id] = new /\ \A j \in OrderIds \ {id} : orders'[j] = orders[j]

LEMMA KeptItself ==
  ASSUME OmsInv, NEW id \in OrderIds, Present(id)
  PROVE  CallKept(orders[id], orders[id]) /\ RowKept(orders[id], orders[id])
  BY RowTyped DEF CallKept, RowKept, RowStep

LEMMA NothingChanges ==
  ASSUME OmsInv, UNCHANGED omsVars
  PROVE  TablesKept /\ CallsKept /\ NoNewRows
  <1>1. OmsInv' /\ GoodStep
    BY NoStep
  <1>2. counter' >= counter
    BY DEF OmsInv, TypeOK, omsVars
  <1>3. RowsKept /\ CallsKept /\ NoNewRows
    BY KeptItself DEF RowsKept, CallsKept, NoNewRows, omsVars, Present
  <1> QED BY <1>1, <1>2, <1>3 DEF TablesKept, omsVars

LEMMA OneRowKept ==
  ASSUME OmsInv, NEW id \in OrderIds, Present(id), NEW new, RowKept(orders[id], new),
         orders' = [orders EXCEPT ![id] = new],
         clientIndex' = clientIndex, counter' = counter, OtherTablesTyped
  PROVE  /\ OneRowChanges(id, new)
         /\ CallKept(orders[id], new) => CallsKept
  <1>1. OmsInv' /\ GoodStep
    BY RowUpdate DEF RowKept
  <1>2. \A j \in OrderIds : orders'[j] = IF j = id THEN new ELSE orders[j]
    BY DEF OmsInv, TypeOK
  <1>3. RowsKept
    BY <1>2, KeptItself DEF RowsKept
  <1>4. CallKept(orders[id], new) => CallsKept
    BY <1>2, KeptItself DEF CallsKept
  <1>5. NoNewRows
    BY <1>2 DEF NoNewRows, Present
  <1>6. counter' >= counter
    BY DEF OmsInv, TypeOK
  <1> QED BY <1>1, <1>2, <1>3, <1>4, <1>5, <1>6
          DEF OneRowChanges, TablesKept, OtherTablesTyped

LEMMA RequestTables ==
  ASSUME OmsInv, NEW id, Present(id), NEW to, to # "Filled", RequestTransition(id, to)
  PROVE  OneRowChanges(id, ApplyTransition(orders[id], to)) /\ CallsKept /\ applied' = applied
  <1> DEFINE new == ApplyTransition(orders[id], to)
  <1>1. CallKept(orders[id], new)
    BY RowTyped, RequestKept DEF Present
  <1>2. orders' = [orders EXCEPT ![id] = new] /\ OnlyOrders
    BY DEF RequestTransition
  <1>3. OtherTablesTyped
    BY <1>2 DEF OmsInv, TypeOK, OnlyOrders, OtherTablesTyped
  <1>4. id \in OrderIds
    BY DEF Present
  <1> HIDE DEF new
  <1>5. OneRowChanges(id, new) /\ CallsKept
    BY <1>1, <1>2, <1>3, <1>4, OneRowKept DEF CallKept, OnlyOrders
  <1> QED BY <1>2, <1>5 DEF new, OnlyOrders

LEMMA SendResultTables ==
  ASSUME OmsInv, NEW id, Present(id), NEW rc, RecordSendResult(id, rc)
  PROVE  OneRowChanges(id, SendResult(orders[id], rc)) /\ CallsKept /\ applied' = applied
  <1> DEFINE new == SendResult(orders[id], rc)
  <1>1. CallKept(orders[id], new)
    BY RowTyped, SendResultKept DEF Present
  <1>2. orders' = [orders EXCEPT ![id] = new] /\ OnlyOrders
    BY DEF RecordSendResult
  <1>3. OtherTablesTyped
    BY <1>2 DEF OmsInv, TypeOK, OnlyOrders, OtherTablesTyped
  <1>4. id \in OrderIds
    BY DEF Present
  <1> HIDE DEF new
  <1>5. OneRowChanges(id, new) /\ CallsKept
    BY <1>1, <1>2, <1>3, <1>4, OneRowKept DEF CallKept, OnlyOrders
  <1> QED BY <1>2, <1>5 DEF new, OnlyOrders

LEMMA CancelResultTables ==
  ASSUME OmsInv, NEW id, Present(id), NEW rc, RecordCancelResult(id, rc)
  PROVE  /\ OneRowChanges(id, ApplyTransition(orders[id], CancelTarget(orders[id], rc)))
         /\ CallsKept /\ applied' = applied
         /\ CancelTarget(orders[id], rc) \notin {"Rejected", "SendPending"}
  <1> DEFINE to  == CancelTarget(orders[id], rc)
             new == ApplyTransition(orders[id], to)
  <1>1. to \notin {"Filled", "Rejected", "SendPending"}
    BY DEF CancelTarget
  <1>2. CallKept(orders[id], new)
    BY <1>1, RowTyped, RequestKept DEF Present
  <1>3. orders' = [orders EXCEPT ![id] = new] /\ OnlyOrders
    BY DEF RecordCancelResult
  <1>4. OtherTablesTyped
    BY <1>3 DEF OmsInv, TypeOK, OnlyOrders, OtherTablesTyped
  <1>5. id \in OrderIds
    BY DEF Present
  <1> HIDE DEF new
  <1>6. OneRowChanges(id, new) /\ CallsKept
    BY <1>2, <1>3, <1>4, <1>5, OneRowKept DEF CallKept, OnlyOrders
  <1> QED BY <1>1, <1>3, <1>6 DEF new, OnlyOrders

LEMMA AllocateTables ==
  ASSUME OmsInv, AllocateOrderId
  PROVE  /\ TablesKept /\ CallsKept /\ NoNewRows /\ orders' = orders /\ applied' = applied
         /\ counter' = NextId /\ NextId \in LocalIds /\ orders[NextId].state = "Absent"
  <1>1. OmsInv' /\ GoodStep
    BY AllocateStep
  <1>2. /\ counter' = NextId /\ NextId = counter + 1 /\ counter \in Nat /\ NextId \in LocalIds
        /\ UNCHANGED <<initialized, orders, applied>>
    BY ConstantsAssumption DEF AllocateOrderId, NextId, OmsInv, TypeOK, LocalIds
  <1>3. RowsKept /\ CallsKept /\ NoNewRows
    BY <1>2, KeptItself DEF RowsKept, CallsKept, NoNewRows, Present
  <1>4. ~Present(NextId) /\ NextId \in OrderIds
    BY <1>2, ForeignIdsDisjoint, IdFacts DEF OmsInv, AllocatedBeforeUse, NextId
  <1> QED BY <1>1, <1>2, <1>3, <1>4 DEF TablesKept, Present

\* CreateOrder answers with a new row or with the one the client already has.
RowMade(s, id, made) ==
  /\ TablesKept /\ CallsKept /\ applied' = applied /\ counter' = counter
  /\ \A j \in OrderIds \ {id} : orders'[j] = orders[j]
  /\ \/ /\ GetOrderByClientId(ClientOf[s]) = NoId /\ made = id
        /\ FreshRow(orders'[id]) /\ orders'[id].client = ClientOf[s]
     \/ /\ GetOrderByClientId(ClientOf[s]) # NoId
        /\ made = GetOrderByClientId(ClientOf[s]) /\ orders' = orders

LEMMA CreateTables ==
  ASSUME OmsInv, initialized, NEW s \in Submissions, NEW v \in Volumes,
         NEW id \in LocalIds, id <= counter, ~Present(id), CreateOrder(Req(s, v), id)
  PROVE  RowMade(s, id, CreateResult(Req(s, v), id))
  <1> DEFINE req == Req(s, v)
  <1>0. /\ req \in Request /\ req.client = ClientOf[s] /\ req.volume = v
        /\ ClientOf[s] \in ClientIds
    BY FlowAssumption DEF Req, Request
  <1>1. OmsInv' /\ GoodStep
    <2>1. NextCreate
      BY <1>0 DEF NextCreate
    <2> QED BY <2>1, CreateStep
  <1>2. id \in OrderIds /\ id # NoId /\ orders[id].state = "Absent"
    BY IdFacts DEF Present
  <1>3. UNCHANGED <<initialized, counter, applied>>
    BY DEF CreateOrder
  <1>4. Creates(req, id) <=> GetOrderByClientId(ClientOf[s]) = NoId
    BY <1>0, <1>2 DEF Creates
  <1>5. CASE Creates(req, id)
    <2>1. orders' = [orders EXCEPT ![id] = NewEntry(req)]
      BY <1>5 DEF CreateOrder
    <2>2. \A j \in OrderIds : orders'[j] = IF j = id THEN NewEntry(req) ELSE orders[j]
      BY <2>1 DEF OmsInv, TypeOK
    <2>3. FreshRow(NewEntry(req)) /\ NewEntry(req).client = ClientOf[s]
      BY <1>0 DEF FreshRow, NewEntry, Absent
    <2>4. Present(id)' /\ FreshRow(orders'[id]) /\ orders'[id].client = ClientOf[s]
      BY <1>2, <2>2, <2>3 DEF Present, FreshRow
    <2>5. RowsKept /\ CallsKept
      BY <2>2, <2>4, <1>2, KeptItself DEF RowsKept, CallsKept, Present
    <2>6. CreateResult(req, id) = id
      BY <1>5 DEF CreateResult
    <2> HIDE DEF req
    <2>7. counter' >= counter
      BY <1>3 DEF OmsInv, TypeOK
    <2> QED BY <1>1, <1>3, <1>4, <1>5, <2>2, <2>4, <2>5, <2>6, <2>7 DEF TablesKept, req, RowMade
  <1>6. CASE ~Creates(req, id)
    <2>1. UNCHANGED omsVars
      BY <1>6 DEF CreateOrder, omsVars
    <2>2. CreateResult(req, id) = GetOrderByClientId(ClientOf[s])
      BY <1>0, <1>2, <1>6 DEF CreateResult
    <2> HIDE DEF req
    <2> QED BY <2>1, <2>2, <1>4, <1>6, NothingChanges DEF req, omsVars, RowMade
  <1> QED BY <1>5, <1>6

-----------------------------------------------------------------------------
(* What a change of the tables leaves true.                                *)

LEMMA RowsStay ==
  ASSUME OmsInv, RowsKept
  PROVE  /\ \A id : Present(id) =>
              /\ Present(id)' /\ orders'[id].client = orders[id].client
              /\ orders'[id].volume = orders[id].volume
              /\ orders'[id].state = "SendPending" =>
                   orders[id].state \in {"EmsQueued", "SendPending"}
         /\ \A id \in OrderIds : Unsendable(id) => Present(id) /\ Unsendable(id)'
  <1>1. ASSUME NEW id, Present(id)
        PROVE  /\ Present(id)' /\ orders'[id].client = orders[id].client
               /\ orders'[id].volume = orders[id].volume
               /\ orders'[id].state = "SendPending" =>
                    orders[id].state \in {"EmsQueued", "SendPending"}
               /\ Unsendable(id) => Unsendable(id)'
    <2>1. RowKept(orders[id], orders'[id])
      BY <1>1 DEF RowsKept, Present
    <2> QED BY <1>1, <2>1 DEF RowKept, RowStep, Present, Lifecycle, PreSend, Terminal,
                              Unsendable
  <1>2. \A id \in OrderIds : Unsendable(id) => Present(id)
    BY DEF Unsendable, Present
  <1> QED BY <1>1, <1>2

\* A volume asked for is a positive number.
LEMMA VolumesPositive ==
  ASSUME FlowInv, NEW id, Present(id)
  PROVE  orders[id].volume \in Nat /\ orders[id].volume > 0
  <1>1. orders[id].volume \in Volumes
    BY DEF FlowInv, RowsInv, Present
  <1>2. orders[id].volume \in Nat \ {0}
    BY <1>1, ConstantsAssumption
  <1> QED BY <1>2

\* What the venue knows has been sent and has a row.
LEMMA VenueFacts ==
  ASSUME FlowInv, NEW id \in OrderIds, venue[id].status # "none"
  PROVE  Present(id) /\ sends[id] # <<>> /\ Unsendable(id)
  <1>1. sends[id] # <<>>
    BY DEF FlowInv, VenueInv
  <1> QED BY <1>1 DEF FlowInv, SendsInv, Unsendable, Present

VenueGrows ==
  \A id \in OrderIds : venue[id].status # "none" =>
    /\ venue'[id].status # "none"
    /\ venue'[id].traded \in Nat /\ venue[id].traded <= venue'[id].traded
    /\ venue[id].status \in {"canceled", "rejected"} => venue'[id].status = venue[id].status

LEMMA VenueStays ==
  ASSUME FlowInv, venue' = venue
  PROVE  VenueGrows
  BY DEF VenueGrows, FlowInv, ExtTypeOK

LEMMA RowsInvKept ==
  ASSUME FlowInv, RowsKept
  PROVE  RowsInv'
  <1> SUFFICES ASSUME NEW id \in OrderIds, Present(id)'
               PROVE  orders'[id].client \in ClientIds /\ orders'[id].volume \in Volumes
    BY DEF RowsInv
  <1>1. CASE Present(id)
    BY <1>1, RowsStay DEF FlowInv, RowsInv
  <1>2. CASE ~Present(id)
    BY <1>2 DEF RowsKept, FreshRow, Present
  <1> QED BY <1>1, <1>2

LEMMA SendsKept ==
  ASSUME FlowInv, RowsKept, UNCHANGED <<worker, sends>>
  PROVE  SendsInv'
  <1>1. /\ \A id \in OrderIds : Unsendable(id) => Unsendable(id)'
        /\ \A id \in OrderIds : Unsendable(id) /\ orders'[id].state = "SendPending" =>
             orders[id].state = "SendPending"
    BY RowsStay DEF FlowInv, Unsendable, PreSend
  <1>2. worker.pc = "send" => worker.item.id \in OrderIds
    BY DEF FlowInv, ItemsInv, Present
  <1> QED BY <1>1, <1>2 DEF FlowInv, SendsInv

LEMMA VenueKept ==
  ASSUME FlowInv, RowsKept, UNCHANGED <<sends, venue>>
  PROVE  VenueInv'
  <1>1. \A id \in OrderIds : venue[id].status # "none" => orders'[id].volume = orders[id].volume
    BY VenueFacts, RowsStay DEF FlowInv
  <1> QED BY <1>1 DEF FlowInv, VenueInv

LEMMA EventKept ==
  ASSUME FlowInv, RowsKept, VenueGrows, NEW e \in Event, NEW id \in OrderIds, EventAbout(e, id)
  PROVE  EventAbout(e, id)'
  <1>1. venue[id].status # "none"
    BY DEF EventAbout
  <1>2. /\ venue'[id].status # "none"
        /\ venue'[id].traded \in Nat /\ venue[id].traded <= venue'[id].traded
        /\ venue[id].status \in {"canceled", "rejected"} => venue'[id].status = venue[id].status
    BY <1>1 DEF VenueGrows
  <1>3. orders'[id].volume = orders[id].volume /\ orders'[id].client = orders[id].client
    BY <1>1, VenueFacts, RowsStay DEF FlowInv
  <1>4. venue[id].traded \in Nat
    BY DEF FlowInv, ExtTypeOK
  <1>5. CASE e.kind = "trade"
    <2>1. PICK n \in 1..venue[id].traded : e.report.key = <<id, n>>
      BY <1>5 DEF EventAbout
    <2>2. n \in 1..venue'[id].traded
      BY <1>2, <1>4, <2>1
    <2> QED BY <1>2, <1>3, <1>5, <2>1, <2>2 DEF EventAbout
  <1>6. CASE e.kind = "order"
    <2>1. e.report.traded \in Nat
      BY <1>6 DEF Event, OrderReport
    <2>2. e.report.traded <= venue[id].traded
      BY <1>6 DEF EventAbout
    <2>3. e.report.traded <= venue'[id].traded
      BY <1>2, <1>4, <2>1, <2>2
    <2> QED BY <1>2, <1>3, <1>6, <2>3 DEF EventAbout
  <1> QED BY <1>5, <1>6 DEF Event

LEMMA EventsKept ==
  ASSUME FlowInv, RowsKept, VenueGrows, UNCHANGED <<lane, handler>>
  PROVE  EventsInv'
  <1>1. \A i \in 1..Len(lane) : lane[i] \in Event
    BY ElementOfSeq DEF FlowInv, LaneTypeOK
  <1>2. ASSUME NEW i \in 1..Len(lane)
        PROVE  \E id \in OrderIds : EventAbout(lane[i], id)'
    BY <1>1, EventKept DEF FlowInv, EventsInv
  <1>3. ASSUME handler # <<>>
        PROVE  \E id \in OrderIds : EventAbout(handler[1], id)'
    <2>1. handler[1] \in Event
      BY <1>3 DEF FlowInv, LaneTypeOK
    <2> QED BY <1>3, <2>1, EventKept DEF FlowInv, EventsInv
  <1> QED BY <1>2, <1>3 DEF EventsInv, EventAbout

\* A step of a caller: beside the tables it changes its own state and at most
\* the queue and a reservation.
LEMMA CallerFrame ==
  ASSUME FlowInv, TablesKept, UNCHANGED <<worker, sends, venue, lane, handler>>,
         CallsTypeOK', EmsTypeOK', ExtTypeOK', SubmitsInv', ItemsInv'
  PROVE  FlowInv'
  <1>1. VenueGrows
    BY VenueStays
  <1>2. RowsInv' /\ SendsInv' /\ VenueInv' /\ EventsInv'
    BY <1>1, RowsInvKept, SendsKept, VenueKept, EventsKept DEF TablesKept
  <1>3. LaneTypeOK'
    BY DEF FlowInv, LaneTypeOK
  <1> QED BY <1>2, <1>3 DEF FlowInv, TablesKept

LEMMA ItemsKept ==
  ASSUME FlowInv, TablesKept, UNCHANGED <<cancel, queue, worker>>
  PROVE  ItemsInv'
  BY RowsStay DEF FlowInv, ItemsInv, TablesKept

LEMMA SubmitsKept ==
  ASSUME FlowInv, TablesKept, NoNewRows,
         \A s \in Submissions :
           /\ submit'[s].pc \in Preparing =>
                submit[s].pc \in Preparing /\ submit'[s].oid = submit[s].oid
           /\ submit'[s].pc \in Holding =>
                submit[s].pc \in Holding /\ submit'[s].cid = submit[s].cid
  PROVE  SubmitsInv'
  <1> SUFFICES ASSUME NEW s \in Submissions
               PROVE  /\ submit'[s].pc \in Preparing =>
                           /\ submit'[s].oid \in LocalIds /\ submit'[s].oid <= counter'
                           /\ orders'[submit'[s].oid].state = "Absent"
                           /\ \A t \in Submissions :
                                submit'[t].pc \in Preparing /\ submit'[t].oid = submit'[s].oid
                                  => t = s
                      /\ submit'[s].pc \in Holding =>
                           /\ submit'[s].cid \in OrderIds
                           /\ orders'[submit'[s].cid].state # "Absent"
                           /\ orders'[submit'[s].cid].client = ClientOf[s]
    BY DEF SubmitsInv, Present
  <1>1. ASSUME submit'[s].pc \in Preparing
        PROVE  /\ submit'[s].oid \in LocalIds /\ submit'[s].oid <= counter'
               /\ orders'[submit'[s].oid].state = "Absent"
               /\ \A t \in Submissions :
                    submit'[t].pc \in Preparing /\ submit'[t].oid = submit'[s].oid => t = s
    <2>1. /\ submit[s].pc \in Preparing /\ submit'[s].oid = submit[s].oid
          /\ submit[s].oid \in LocalIds /\ submit[s].oid <= counter
          /\ orders[submit[s].oid].state = "Absent"
      BY <1>1 DEF FlowInv, SubmitsInv
    <2>2. submit[s].oid <= counter'
      BY <2>1, ConstantsAssumption
      DEF TablesKept, FlowInv, OmsInv, TypeOK, LocalIds
    <2>3. orders'[submit[s].oid].state = "Absent"
      BY <2>1, IdFacts DEF NoNewRows, Present
    <2>4. \A t \in Submissions :
            submit'[t].pc \in Preparing /\ submit'[t].oid = submit'[s].oid => t = s
      BY <2>1 DEF FlowInv, SubmitsInv
    <2> QED BY <2>1, <2>2, <2>3, <2>4
  <1>2. ASSUME submit'[s].pc \in Holding
        PROVE  /\ submit'[s].cid \in OrderIds /\ orders'[submit'[s].cid].state # "Absent"
               /\ orders'[submit'[s].cid].client = ClientOf[s]
    <2>1. /\ submit'[s].cid = submit[s].cid /\ Present(submit[s].cid)
          /\ orders[submit[s].cid].client = ClientOf[s]
      BY <1>2 DEF FlowInv, SubmitsInv
    <2>2. Present(submit[s].cid)' /\ orders'[submit[s].cid].client = ClientOf[s]
      BY <2>1, RowsStay DEF FlowInv, TablesKept
    <2> QED BY <2>1, <2>2 DEF Present
  <1> QED BY <1>1, <1>2

\* A step from one pc to another within the life of a Submit.
LEMMA SubmitMoves ==
  ASSUME FlowInv, NEW s \in Submissions, NEW pc \in SubmitPcs, NEW rc \in ErrorCodes,
         submit' = [submit EXCEPT ![s].pc = pc, ![s].rc = rc],
         pc \in Preparing => submit[s].pc \in Preparing,
         pc \in Holding => submit[s].pc \in Holding,
         cancel' = cancel
  PROVE  /\ CallsTypeOK'
         /\ TablesKept /\ NoNewRows => SubmitsInv'
  <1>1. CallsTypeOK'
    BY DEF FlowInv, CallsTypeOK
  <1>2. \A t \in Submissions :
          /\ submit'[t].oid = submit[t].oid /\ submit'[t].cid = submit[t].cid
          /\ submit'[t].pc = IF t = s THEN pc ELSE submit[t].pc
    BY DEF FlowInv, CallsTypeOK
  <1>3. ASSUME TablesKept, NoNewRows PROVE SubmitsInv'
    BY <1>2, <1>3, SubmitsKept
  <1> QED BY <1>1, <1>3

\* SubmitStep leaves the return code alone.
LEMMA SubmitSteps ==
  ASSUME FlowInv, NEW s \in Submissions, NEW from, NEW to, SubmitStep(s, from, to)
  PROVE  /\ submit[s].pc = from /\ cancel' = cancel
         /\ submit' = [submit EXCEPT ![s].pc = to, ![s].rc = submit[s].rc]
         /\ submit[s].rc \in ErrorCodes
  <1>1. submit \in [Submissions -> [pc : SubmitPcs, oid : OrderIds \cup {NoId},
                                    cid : OrderIds \cup {NoId}, rc : ErrorCodes]]
    BY DEF FlowInv, CallsTypeOK
  <1>2. submit' = [submit EXCEPT ![s].pc = to]
    BY DEF SubmitStep
  <1>3. [submit EXCEPT ![s].pc = to] = [submit EXCEPT ![s].pc = to, ![s].rc = submit[s].rc]
    BY <1>1
  <1> QED BY <1>1, <1>2, <1>3 DEF SubmitStep

-----------------------------------------------------------------------------
(* The steps of a Submit.                                                  *)

\* What a caller's step does beside its own state.
CallerStep ==
  /\ TablesKept /\ CallsKept
  /\ UNCHANGED <<applied, worker, sends, venue, lane, handler>>

LEMMA OthersTyped ==
  ASSUME FlowInv
  PROVE  /\ UNCHANGED emsVars => EmsTypeOK'
         /\ UNCHANGED <<sends, venue, reservation>> => ExtTypeOK'
         /\ UNCHANGED <<lane, handler>> => LaneTypeOK'
         /\ UNCHANGED callVars => CallsTypeOK'
  BY DEF FlowInv, EmsTypeOK, ExtTypeOK, LaneTypeOK, CallsTypeOK, emsVars, callVars

LEMMA ReservationTyped ==
  ASSUME FlowInv, NEW id, NEW v \in {"none", "reserved", "expired", "released"},
         SetReservation(id, v)
  PROVE  ExtTypeOK'
  BY DEF FlowInv, ExtTypeOK, SetReservation

\* A step that leaves the tables and the queue alone.
LEMMA SubmitAlone ==
  ASSUME FlowInv, NEW s \in Submissions, NEW pc \in SubmitPcs, NEW rc \in ErrorCodes,
         submit' = [submit EXCEPT ![s].pc = pc, ![s].rc = rc],
         pc \in Preparing => submit[s].pc \in Preparing,
         pc \in Holding => submit[s].pc \in Holding,
         UNCHANGED <<cancel, omsVars, emsVars, laneVars, sends, venue>>, ExtTypeOK'
  PROVE  FlowInv' /\ CallerStep
  <1>1. TablesKept /\ CallsKept /\ NoNewRows
    BY NothingChanges DEF FlowInv
  <1>2. CallsTypeOK' /\ SubmitsInv'
    BY <1>1, SubmitMoves
  <1>3. EmsTypeOK' /\ ItemsInv'
    BY <1>1, OthersTyped, ItemsKept DEF emsVars
  <1> QED BY <1>1, <1>2, <1>3, CallerFrame DEF CallerStep, emsVars, laneVars, omsVars

LEMMA SubmitReturnsAlone ==
  ASSUME FlowInv, NEW s \in Submissions, NEW from, NEW rc \in ErrorCodes,
         SubmitReturns(s, from, rc), UNCHANGED <<omsVars, emsVars, laneVars, sends, venue>>,
         ExtTypeOK'
  PROVE  FlowInv' /\ CallerStep
  BY SubmitAlone DEF SubmitReturns, SubmitPcs, Preparing, Holding

LEMMA SubmitStepAlone ==
  ASSUME FlowInv, NEW s \in Submissions, NEW from, NEW to \in SubmitPcs,
         SubmitStep(s, from, to), UNCHANGED <<omsVars, emsVars, laneVars, sends, venue>>,
         to \in Preparing => from \in Preparing, to \in Holding => from \in Holding,
         ExtTypeOK'
  PROVE  FlowInv' /\ CallerStep
  <1>1. /\ submit[s].pc = from /\ cancel' = cancel
        /\ submit' = [submit EXCEPT ![s].pc = to, ![s].rc = submit[s].rc]
        /\ submit[s].rc \in ErrorCodes
    BY SubmitSteps
  <1>2. /\ to \in Preparing => submit[s].pc \in Preparing
        /\ to \in Holding => submit[s].pc \in Holding
    BY <1>1
  <1> QED BY <1>1, <1>2, SubmitAlone

LEMMA AllocateFlow ==
  ASSUME FlowInv, NEW s \in Submissions, Allocate(s)
  PROVE  FlowInv' /\ CallerStep
  <1>1. /\ TablesKept /\ CallsKept /\ NoNewRows /\ orders' = orders /\ applied' = applied
        /\ counter' = NextId /\ NextId \in LocalIds /\ orders[NextId].state = "Absent"
    BY AllocateTables DEF Allocate, FlowInv
  <1>2. /\ NextId \in OrderIds
        /\ submit' = [submit EXCEPT ![s].pc = "reserve", ![s].oid = NextId]
        /\ UNCHANGED <<cancel, emsVars, extVars, laneVars>>
    BY <1>1, IdFacts DEF Allocate
  <1>3. CallsTypeOK'
    BY <1>2, ZenonT(60) DEF FlowInv, CallsTypeOK, SubmitPcs
  <1>4. \A t \in Submissions :
          IF t = s THEN submit'[t].pc = "reserve" /\ submit'[t].oid = NextId
                   ELSE submit'[t] = submit[t]
    BY <1>2 DEF FlowInv, CallsTypeOK
  <1>5. SubmitsInv'
    <2>1. NextId = counter + 1 /\ counter \in Nat
      BY ConstantsAssumption DEF NextId, FlowInv, OmsInv, TypeOK
    <2>2. \A t \in Submissions : submit[t].pc \in Preparing =>
            /\ submit[t].oid \in LocalIds /\ submit[t].oid <= counter'
            /\ submit[t].oid # NextId
      <3> SUFFICES ASSUME NEW t \in Submissions, submit[t].pc \in Preparing
                   PROVE  /\ submit[t].oid \in LocalIds /\ submit[t].oid <= counter'
                          /\ submit[t].oid # NextId
        OBVIOUS
      <3>1. submit[t].oid \in LocalIds /\ submit[t].oid <= counter
        BY DEF FlowInv, SubmitsInv
      <3> QED BY <1>1, <2>1, <3>1, ConstantsAssumption DEF LocalIds
    <2>3. NextId <= counter'
      BY <1>1, <2>1
    <2>4. \A t \in Submissions : submit'[t].pc \in Holding =>
            Present(submit[t].cid)' /\ submit'[t].cid = submit[t].cid
              /\ orders'[submit[t].cid].client = ClientOf[t]
      BY <1>1, <1>4 DEF Holding, FlowInv, SubmitsInv, Present
    <2> QED BY <1>1, <1>4, <2>2, <2>3, <2>4 DEF SubmitsInv, FlowInv, Present
  <1>6. EmsTypeOK' /\ ExtTypeOK' /\ ItemsInv'
    BY <1>1, <1>2, OthersTyped, ItemsKept DEF emsVars, extVars
  <1> QED BY <1>1, <1>2, <1>3, <1>5, <1>6, CallerFrame
          DEF CallerStep, emsVars, extVars, laneVars

LEMMA CreateFlow ==
  ASSUME FlowInv, NEW s \in Submissions, Create(s)
  PROVE  FlowInv' /\ CallerStep
  <1> DEFINE id == submit[s].oid
  <1>1. /\ submit[s].pc = "create" /\ id \in LocalIds /\ id <= counter
        /\ orders[id].state = "Absent" /\ id \in OrderIds
        /\ \A t \in Submissions :
             submit[t].pc \in Preparing /\ submit[t].oid = id => t = s
    BY IdFacts DEF Create, FlowInv, SubmitsInv, Preparing
  <1>2. PICK v \in Volumes :
          /\ CreateOrder(Req(s, v), id)
          /\ submit' = [submit EXCEPT ![s].pc = "check", ![s].cid = CreateResult(Req(s, v), id)]
    BY DEF Create
  <1> DEFINE made == CreateResult(Req(s, v), id)
             old  == GetOrderByClientId(ClientOf[s])
  <1>3. ~Present(id) /\ ClientOf[s] \in ClientIds
    BY <1>1, FlowAssumption DEF Present
  <1> HIDE DEF id
  <1>4. RowMade(s, id, made)
    BY <1>1, <1>2, <1>3, CreateTables DEF FlowInv
  <1>5. old # NoId => Present(old) /\ orders[old].client = ClientOf[s]
    BY <1>3 DEF GetOrderByClientId, FlowInv, OmsInv, IndexConsistent, NoId
  <1>6. /\ made \in OrderIds /\ orders'[made].state # "Absent"
        /\ orders'[made].client = ClientOf[s]
    <2> HIDE DEF made, old
    <2>1. CASE old = NoId
      BY <1>1, <1>4, <2>1 DEF RowMade, FreshRow, old
    <2>2. CASE old # NoId
      BY <1>4, <1>5, <2>2 DEF RowMade, Present, old
    <2> QED BY <2>1, <2>2
  <1> HIDE DEF made, old
  <1>7. submit' = [submit EXCEPT ![s].pc = "check", ![s].cid = made]
    BY <1>2 DEF made
  <1>8. CallsTypeOK'
    <2>1. cancel' = cancel
      BY DEF Create
    <2> QED BY <1>6, <1>7, <2>1, ZenonT(60) DEF FlowInv, CallsTypeOK, SubmitPcs
  <1>9. \A t \in Submissions :
          IF t = s THEN submit'[t].pc = "check" /\ submit'[t].cid = made
                   ELSE submit'[t] = submit[t]
    BY <1>7 DEF FlowInv, CallsTypeOK
  <1>10. SubmitsInv'
    <2>1. ASSUME NEW t \in Submissions, submit'[t].pc \in Preparing
          PROVE  /\ t # s /\ submit'[t] = submit[t] /\ submit[t].oid \in LocalIds
                 /\ submit[t].oid <= counter'
                 /\ orders'[submit[t].oid].state = "Absent"
                 /\ \A u \in Submissions :
                      submit[u].pc \in Preparing /\ submit[u].oid = submit[t].oid => u = t
      <3>1. t # s /\ submit'[t] = submit[t]
        BY <1>9, <2>1 DEF Preparing
      <3>2. /\ submit[t].oid \in LocalIds /\ submit[t].oid <= counter
            /\ orders[submit[t].oid].state = "Absent"
            /\ \A u \in Submissions :
                 submit[u].pc \in Preparing /\ submit[u].oid = submit[t].oid => u = t
        BY <2>1, <3>1 DEF FlowInv, SubmitsInv
      <3>3. submit[t].oid # id /\ submit[t].oid \in OrderIds
        BY <1>1, <2>1, <3>1, <3>2, IdFacts
      <3>4. /\ counter' = counter /\ \A j \in OrderIds \ {id} : orders'[j] = orders[j]
        BY <1>4 DEF RowMade
      <3> QED BY <3>4, <3>1, <3>2, <3>3
    <2>2. ASSUME NEW t \in Submissions, submit'[t].pc \in Holding
          PROVE  /\ submit'[t].cid \in OrderIds /\ orders'[submit'[t].cid].state # "Absent"
                 /\ orders'[submit'[t].cid].client = ClientOf[t]
      <3>1. CASE t = s
        BY <1>6, <1>9, <3>1
      <3>2. CASE t # s
        <4>1. submit'[t] = submit[t]
          BY <1>9, <3>2
        <4>2. Present(submit[t].cid) /\ orders[submit[t].cid].client = ClientOf[t]
          BY <2>2, <4>1 DEF FlowInv, SubmitsInv
        <4> QED BY <4>1, <4>2, <1>4, RowsStay DEF FlowInv, TablesKept, Present, RowMade
      <3> QED BY <3>1, <3>2
    <2>3. \A t \in Submissions : submit'[t].pc \in Preparing => submit[t].pc \in Preparing
      BY <2>1
    <2> QED BY <2>1, <2>2, <2>3 DEF SubmitsInv, Present
  <1>11. /\ UNCHANGED <<cancel, emsVars, extVars, laneVars>>
         /\ EmsTypeOK' /\ ExtTypeOK' /\ ItemsInv'
    BY <1>4, OthersTyped, ItemsKept DEF Create, emsVars, extVars, RowMade
  <1> QED BY <1>4, <1>8, <1>10, <1>11, CallerFrame
          DEF RowMade, CallerStep, emsVars, extVars, laneVars

LEMMA MarkFlow ==
  ASSUME FlowInv, NEW s \in Submissions, Mark(s)
  PROVE  FlowInv' /\ CallerStep
  <1> DEFINE id == submit[s].cid
             rc == TransitionRc(id, "EmsQueued")
             to == IF rc = "Success" THEN "enqueue" ELSE "release"
  <1>1. submit[s].pc = "mark" /\ Present(id)
    BY DEF Mark, FlowInv, SubmitsInv, Holding
  <1>2. TablesKept /\ NoNewRows /\ CallsKept /\ applied' = applied
    BY <1>1, RequestTables DEF Mark, MarkEmsQueued, FlowInv, OneRowChanges
  <1>3. rc \in ErrorCodes /\ to \in {"enqueue", "release"}
    BY DEF TransitionRc, ErrorCodes
  <1>4. submit' = [submit EXCEPT ![s].pc = to, ![s].rc = rc]
    BY DEF Mark
  <1> HIDE DEF id, rc, to
  <1>5. CallsTypeOK' /\ SubmitsInv'
    BY <1>1, <1>2, <1>3, <1>4, SubmitMoves DEF Mark, SubmitPcs, Holding, Preparing
  <1>6. /\ UNCHANGED <<cancel, emsVars, extVars, laneVars>>
        /\ EmsTypeOK' /\ ExtTypeOK' /\ ItemsInv'
    BY <1>2, OthersTyped, ItemsKept DEF Mark, emsVars, extVars
  <1> QED BY <1>2, <1>5, <1>6, CallerFrame DEF CallerStep, emsVars, extVars, laneVars

LEMMA UndoSubmitFlow ==
  ASSUME FlowInv, NEW s \in Submissions, UndoSubmit(s)
  PROVE  FlowInv' /\ CallerStep
  <1>0. SubmitStep(s, "undo", "release")
    BY DEF UndoSubmit
  <1>1. /\ submit[s].pc = "undo" /\ cancel' = cancel
        /\ submit' = [submit EXCEPT ![s].pc = "release", ![s].rc = submit[s].rc]
        /\ submit[s].rc \in ErrorCodes
    BY <1>0, SubmitSteps
  <1>2. Present(submit[s].cid)
    BY <1>1 DEF FlowInv, SubmitsInv, Holding
  <1>3. TablesKept /\ NoNewRows /\ CallsKept /\ applied' = applied
    BY <1>2, SendResultTables DEF UndoSubmit, FlowInv, OneRowChanges
  <1>4. CallsTypeOK' /\ SubmitsInv'
    BY <1>1, <1>3, SubmitMoves DEF SubmitPcs, Holding, Preparing
  <1>5. /\ UNCHANGED <<emsVars, extVars, laneVars>>
        /\ EmsTypeOK' /\ ExtTypeOK' /\ ItemsInv'
    BY <1>1, <1>3, OthersTyped, ItemsKept DEF UndoSubmit, emsVars, extVars
  <1> QED BY <1>3, <1>4, <1>5, CallerFrame DEF CallerStep, emsVars, extVars, laneVars

\* Only Enqueue touches the queue, and only when there is room.
LEMMA EnqueueFacts ==
  ASSUME FlowInv, EnqueueRc = "Success"
  PROVE  Len(queue) < QueueCapacity
  BY FlowAssumption, LenProperties DEF EnqueueRc, FlowInv, EmsTypeOK

LEMMA EnqueueFlow ==
  ASSUME FlowInv, NEW s \in Submissions, Enqueue(s)
  PROVE  FlowInv' /\ CallerStep
  <1> DEFINE to   == IF EnqueueRc = "Success" THEN "done" ELSE "undo"
             item == SendItem(submit[s].cid)
  <1>1. submit[s].pc = "enqueue" /\ Present(submit[s].cid)
    BY DEF Enqueue, FlowInv, SubmitsInv, Holding
  <1>2. TablesKept /\ NoNewRows /\ CallsKept
    BY NothingChanges DEF Enqueue, FlowInv
  <1>3. EnqueueRc \in ErrorCodes /\ to \in {"done", "undo"}
    BY DEF EnqueueRc, ErrorCodes
  <1>4. submit' = [submit EXCEPT ![s].pc = to, ![s].rc = EnqueueRc]
    BY DEF Enqueue
  <1>5. CallsTypeOK' /\ SubmitsInv'
    <2> HIDE DEF to
    <2> QED BY <1>1, <1>2, <1>3, <1>4, SubmitMoves DEF Enqueue, SubmitPcs, Holding, Preparing
  <1>6. item \in Item /\ Present(item.id)
    BY <1>1 DEF SendItem, Item, Present
  <1>7. queue \in Seq(Item)
    BY DEF FlowInv, EmsTypeOK
  <1>8. /\ queue' \in Seq(Item) /\ Len(queue') <= QueueCapacity
        /\ \A i \in 1..Len(queue') : Present(queue'[i].id)
    <2> HIDE DEF item
    <2>1. CASE EnqueueRc = "Success"
      <3>1. queue' = Append(queue, item) /\ Len(queue) < QueueCapacity
        BY <2>1, EnqueueFacts DEF Enqueue, item
      <3>2. /\ queue' \in Seq(Item) /\ Len(queue') = Len(queue) + 1
            /\ \A i \in 1..Len(queue) : queue'[i] = queue[i]
            /\ queue'[Len(queue) + 1] = item /\ Len(queue) \in Nat
        BY <1>6, <1>7, <3>1, AppendProperties, LenProperties
      <3>3. \A i \in 1..Len(queue') : i \in 1..Len(queue) \/ i = Len(queue) + 1
        BY <3>2
      <3>4. Len(queue') <= QueueCapacity
        BY <3>1, <3>2, FlowAssumption
      <3> QED BY <1>6, <3>2, <3>3, <3>4 DEF FlowInv, ItemsInv
    <2>2. CASE EnqueueRc # "Success"
      BY <2>2 DEF Enqueue, FlowInv, EmsTypeOK, ItemsInv
    <2> QED BY <2>1, <2>2
  <1>9. /\ UNCHANGED <<omsVars, cancel, emsRunning, worker, extVars, laneVars>>
        /\ ExtTypeOK'
    BY OthersTyped DEF Enqueue, extVars
  <1>10. EmsTypeOK' /\ ItemsInv'
    BY <1>8, <1>9 DEF FlowInv, EmsTypeOK, ItemsInv, Present, omsVars
  <1> QED BY <1>2, <1>5, <1>9, <1>10, CallerFrame DEF CallerStep, omsVars, extVars, laneVars

LEMMA SubmitFlow ==
  ASSUME FlowInv, NEW s \in Submissions, Submit(s)
  PROVE  FlowInv' /\ CallerStep
  <1> USE DEF SubmitPcs, Preparing, Holding, ErrorCodes
  <1>1. CASE Admit(s)
    <2>1. /\ UNCHANGED <<omsVars, emsVars, laneVars, sends, venue>> /\ ExtTypeOK'
      BY <1>1, OthersTyped DEF Admit, extVars
    <2>2. \/ SubmitReturns(s, "admit", "SystemError") \/ SubmitReturns(s, "admit", "Success")
          \/ SubmitStep(s, "admit", "allocate")
      BY <1>1 DEF Admit
    <2> QED BY <2>1, <2>2, SubmitReturnsAlone, SubmitStepAlone
  <1>2. CASE Reserve(s)
    <2>1. UNCHANGED <<omsVars, emsVars, laneVars, sends, venue>>
      BY <1>2 DEF Reserve, SetReservation, extVars
    <2>2. ExtTypeOK'
      <3>1. \/ UNCHANGED extVars
            \/ \E v \in {"reserved", "expired"} : SetReservation(submit[s].oid, v)
        BY <1>2 DEF Reserve
      <3> QED BY <3>1, OthersTyped, ReservationTyped DEF extVars
    <2>3. \/ SubmitStep(s, "reserve", "create") \/ SubmitReturns(s, "reserve", "SystemError")
          \/ SubmitStep(s, "reserve", "query")
      BY <1>2 DEF Reserve
    <2> QED BY <2>1, <2>2, <2>3, SubmitReturnsAlone, SubmitStepAlone
  <1>3. CASE QueryReservation(s)
    <2>1. /\ UNCHANGED <<omsVars, emsVars, laneVars, sends, venue>> /\ ExtTypeOK'
      BY <1>3, OthersTyped DEF QueryReservation, extVars
    <2>2. \/ SubmitReturns(s, "query", "Timeout") \/ SubmitReturns(s, "query", "Success")
          \/ SubmitReturns(s, "query", "SystemError") \/ SubmitStep(s, "query", "create")
      BY <1>3 DEF QueryReservation
    <2> QED BY <2>1, <2>2, SubmitReturnsAlone, SubmitStepAlone
  <1>4. CASE CheckPrepared(s)
    <2>1. /\ UNCHANGED <<omsVars, emsVars, laneVars, sends, venue>> /\ ExtTypeOK'
      BY <1>4, OthersTyped DEF CheckPrepared, extVars
    <2>2. SubmitStep(s, "check", "mark") \/ SubmitReturns(s, "check", "Success")
      BY <1>4 DEF CheckPrepared
    <2> QED BY <2>1, <2>2, SubmitReturnsAlone, SubmitStepAlone
  <1>5. CASE ReleaseSubmit(s)
    <2>1. UNCHANGED <<omsVars, emsVars, laneVars, sends, venue>> /\ ExtTypeOK'
      BY <1>5, ReservationTyped DEF ReleaseSubmit, SetReservation
    <2>2. SubmitStep(s, "release", "done")
      BY <1>5 DEF ReleaseSubmit
    <2> QED BY <2>1, <2>2, SubmitStepAlone
  <1> QED BY <1>1, <1>2, <1>3, <1>4, <1>5, AllocateFlow, CreateFlow, MarkFlow, EnqueueFlow,
             UndoSubmitFlow DEF Submit

-----------------------------------------------------------------------------
(* The steps of a Cancel, and StopEms.                                     *)

LEMMA SubmitsUntouched ==
  ASSUME FlowInv, TablesKept, NoNewRows, submit' = submit
  PROVE  SubmitsInv'
  BY SubmitsKept

LEMMA CancelFrame ==
  ASSUME FlowInv, TablesKept, CallsKept, NoNewRows,
         UNCHANGED <<applied, submit, emsRunning, worker, extVars, laneVars>>, cancel' \in
           [Cancellations -> [pc : CancelPcs, id : OrderIds \cup {NoId},
                              broker : BOOLEAN, rc : ErrorCodes]],
         queue' \in Seq(Item), Len(queue') <= QueueCapacity, ItemsInv'
  PROVE  FlowInv' /\ CallerStep
  <1>1. SubmitsInv' /\ ExtTypeOK'
    BY SubmitsUntouched, OthersTyped DEF extVars
  <1>2. CallsTypeOK' /\ EmsTypeOK'
    BY DEF FlowInv, CallsTypeOK, EmsTypeOK
  <1> QED BY <1>1, <1>2, CallerFrame DEF CallerStep, extVars, laneVars

LEMMA CancelFlow ==
  ASSUME FlowInv, NEW k \in Cancellations, Cancel(k)
  PROVE  FlowInv' /\ CallerStep
  <1>0. /\ cancel \in [Cancellations -> [pc : CancelPcs, id : OrderIds \cup {NoId},
                                         broker : BOOLEAN, rc : ErrorCodes]]
        /\ queue \in Seq(Item) /\ Len(queue) <= QueueCapacity
    BY DEF FlowInv, CallsTypeOK, EmsTypeOK
  <1>1. CASE LookupCancel(k)
    <2>1. PICK id \in OrderIds :
            /\ Present(id) /\ cancel[k].pc = "lookup"
            /\ cancel' = [cancel EXCEPT ![k].pc = "cancel", ![k].id = id,
                                        ![k].broker = orders[id].broker]
      BY <1>1 DEF LookupCancel
    <2>2. /\ UNCHANGED <<omsVars, submit, emsVars, extVars, laneVars>>
          /\ TablesKept /\ CallsKept /\ NoNewRows
      BY <1>1, NothingChanges DEF LookupCancel, FlowInv
    <2>3. orders[id].broker \in BOOLEAN
      BY DEF FlowInv, OmsInv, TypeOK, Entry
    <2>4. cancel' \in [Cancellations -> [pc : CancelPcs, id : OrderIds \cup {NoId},
                                         broker : BOOLEAN, rc : ErrorCodes]]
      <3> DEFINE new == [cancel[k] EXCEPT !.pc = "cancel", !.id = id, !.broker = orders[id].broker]
      <3>1. new \in [pc : CancelPcs, id : OrderIds \cup {NoId}, broker : BOOLEAN, rc : ErrorCodes]
        BY <1>0, <2>1, <2>3 DEF CancelPcs
      <3>2. cancel' = [cancel EXCEPT ![k] = new]
        BY <2>1
      <3> HIDE DEF new
      <3> QED BY <1>0, <3>1, <3>2
    <2>5. \A j \in Cancellations :
            IF j = k THEN cancel'[j].id = id ELSE cancel'[j] = cancel[j]
      BY <1>0, <2>1
    <2>6. ItemsInv'
      BY <2>1, <2>2, <2>5 DEF FlowInv, ItemsInv, Present, omsVars, emsVars
    <2> QED BY <1>0, <2>2, <2>4, <2>6, CancelFrame DEF omsVars, emsVars
  <1>2. CASE AcceptCancel(k)
    <2> DEFINE rc == TransitionRc(cancel[k].id, "CancelPending")
               pc == IF rc = "Success" THEN "enqueue" ELSE "done"
    <2>1. cancel[k].pc = "cancel" /\ Present(cancel[k].id)
      BY <1>2 DEF AcceptCancel, FlowInv, ItemsInv
    <2>2. TablesKept /\ NoNewRows /\ CallsKept /\ applied' = applied
      BY <1>2, <2>1, RequestTables DEF AcceptCancel, CancelOrder, FlowInv, OneRowChanges
    <2>3. rc \in ErrorCodes /\ pc \in CancelPcs
      BY DEF TransitionRc, ErrorCodes, CancelPcs
    <2>4. /\ cancel' = [cancel EXCEPT ![k].pc = pc, ![k].rc = rc]
          /\ UNCHANGED <<submit, emsVars, extVars, laneVars>>
      BY <1>2 DEF AcceptCancel
    <2> HIDE DEF rc, pc
    <2>5. cancel' \in [Cancellations -> [pc : CancelPcs, id : OrderIds \cup {NoId},
                                         broker : BOOLEAN, rc : ErrorCodes]]
      BY <1>0, <2>3, <2>4
    <2>6. \A j \in Cancellations :
            cancel'[j].id = cancel[j].id /\ (j # k => cancel'[j] = cancel[j])
      BY <1>0, <2>4
    <2>7. ItemsInv'
      <3>1. \A id : Present(id) => Present(id)'
        BY <2>2, RowsStay DEF FlowInv, TablesKept
      <3>2. \A j \in Cancellations : cancel'[j].pc \in {"cancel", "enqueue", "undo"} =>
              Present(cancel[j].id) /\ cancel'[j].id = cancel[j].id
        BY <2>1, <2>6 DEF FlowInv, ItemsInv
      <3>3. UNCHANGED <<queue, worker>>
        BY <2>4 DEF emsVars
      <3> QED BY <3>1, <3>2, <3>3 DEF FlowInv, ItemsInv, Present
    <2> QED BY <1>0, <2>2, <2>4, <2>5, <2>7, CancelFrame DEF emsVars
  <1>3. CASE EnqueueCancel(k)
    <2> DEFINE pc   == IF EnqueueRc = "Success" THEN "done" ELSE "undo"
               item == CancelItem(cancel[k].id, cancel[k].broker)
    <2>1. cancel[k].pc = "enqueue" /\ Present(cancel[k].id)
      BY <1>3 DEF EnqueueCancel, FlowInv, ItemsInv
    <2>2. /\ UNCHANGED <<omsVars, submit, emsRunning, worker, extVars, laneVars>>
          /\ TablesKept /\ CallsKept /\ NoNewRows
      BY <1>3, NothingChanges DEF EnqueueCancel, FlowInv
    <2>3. EnqueueRc \in ErrorCodes /\ pc \in {"done", "undo"}
      BY DEF EnqueueRc, ErrorCodes
    <2>4. /\ cancel' = [cancel EXCEPT ![k].pc = pc, ![k].rc = EnqueueRc]
          /\ queue' = IF EnqueueRc = "Success" THEN <<item>> \o queue ELSE queue
      BY <1>3 DEF EnqueueCancel
    <2>5. item \in Item /\ Present(item.id)
      BY <1>0, <2>1 DEF CancelItem, Item
    <2> HIDE DEF pc, item
    <2>6. cancel' \in [Cancellations -> [pc : CancelPcs, id : OrderIds \cup {NoId},
                                         broker : BOOLEAN, rc : ErrorCodes]]
      BY <1>0, <2>3, <2>4, ZenonT(60) DEF CancelPcs
    <2>7. \A j \in Cancellations :
            cancel'[j].id = cancel[j].id /\ (j # k => cancel'[j] = cancel[j])
      BY <1>0, <2>4
    <2>8. /\ queue' \in Seq(Item) /\ Len(queue') <= QueueCapacity
          /\ \A i \in 1..Len(queue') : Present(queue'[i].id)
      <3>1. CASE EnqueueRc = "Success"
        <4>1. queue' = <<item>> \o queue /\ Len(queue) < QueueCapacity
          BY <2>4, <3>1, EnqueueFacts
        <4>2. <<item>> \in Seq(Item) /\ Len(<<item>>) = 1 /\ <<item>>[1] = item
          BY <2>5
        <4>3. /\ queue' \in Seq(Item) /\ Len(queue') = Len(queue) + 1
              /\ \A i \in 1..(1 + Len(queue)) :
                   queue'[i] = IF i <= 1 THEN item ELSE queue[i - 1]
          BY <1>0, <4>1, <4>2, ConcatProperties
        <4>4. Len(queue) \in Nat
          BY <1>0, LenProperties
        <4>5. \A i \in 1..Len(queue) : Present(queue[i].id)
          BY DEF FlowInv, ItemsInv
        <4>6. Len(queue') <= QueueCapacity
          BY <4>1, <4>3, <4>4, FlowAssumption
        <4>7. \A i \in 1..Len(queue') : queue'[i] = item \/ \E j \in 1..Len(queue) : queue'[i] = queue[j]
          BY <4>3, <4>4
        <4> QED BY <2>5, <4>3, <4>5, <4>6, <4>7
      <3>2. CASE EnqueueRc # "Success"
        BY <1>0, <2>4, <3>2 DEF FlowInv, ItemsInv
      <3> QED BY <3>1, <3>2
    <2>9. ItemsInv'
      BY <2>1, <2>2, <2>7, <2>8 DEF FlowInv, ItemsInv, Present, omsVars
    <2> QED BY <2>2, <2>6, <2>8, <2>9, CancelFrame DEF omsVars
  <1>4. CASE UndoCancel(k)
    <2>1. cancel[k].pc = "undo" /\ Present(cancel[k].id)
      BY <1>4 DEF UndoCancel, FlowInv, ItemsInv
    <2>2. TablesKept /\ NoNewRows /\ CallsKept /\ applied' = applied
      BY <1>4, <2>1, CancelResultTables DEF UndoCancel, FlowInv, OneRowChanges
    <2>3. /\ cancel' = [cancel EXCEPT ![k].pc = "done"]
          /\ UNCHANGED <<submit, emsVars, extVars, laneVars>>
      BY <1>4 DEF UndoCancel
    <2>4. cancel' \in [Cancellations -> [pc : CancelPcs, id : OrderIds \cup {NoId},
                                         broker : BOOLEAN, rc : ErrorCodes]]
      BY <1>0, <2>3 DEF CancelPcs
    <2>5. \A j \in Cancellations :
            IF j = k THEN cancel'[j].pc = "done" ELSE cancel'[j] = cancel[j]
      BY <1>0, <2>3
    <2>6. ItemsInv'
      BY <2>2, <2>3, <2>5, RowsStay DEF FlowInv, ItemsInv, TablesKept, Present, emsVars
    <2> QED BY <1>0, <2>2, <2>3, <2>4, <2>6, CancelFrame DEF emsVars
  <1> QED BY <1>1, <1>2, <1>3, <1>4 DEF Cancel

LEMMA StopFlow ==
  ASSUME FlowInv, StopEms
  PROVE  FlowInv' /\ CallerStep
  <1>1. /\ UNCHANGED <<omsVars, callVars, queue, worker, extVars, laneVars>>
        /\ emsRunning' = FALSE
    BY DEF StopEms
  <1>2. TablesKept /\ CallsKept /\ NoNewRows
    BY <1>1, NothingChanges DEF FlowInv
  <1>3. SubmitsInv' /\ ItemsInv' /\ CallsTypeOK' /\ ExtTypeOK'
    BY <1>1, <1>2, SubmitsUntouched, ItemsKept, OthersTyped DEF callVars, extVars
  <1>4. EmsTypeOK'
    BY <1>1 DEF FlowInv, EmsTypeOK
  <1> QED BY <1>1, <1>2, <1>3, <1>4, CallerFrame
          DEF CallerStep, omsVars, extVars, laneVars

-----------------------------------------------------------------------------
(* The steps of the worker, but for the send itself.                       *)

SameAtVenue ==
  \A id \in OrderIds :
    venue'[id].status = venue[id].status /\ venue'[id].traded = venue[id].traded

\* A step of a caller or of the worker that is not a send.
InnerStep ==
  TablesKept /\ CallsKept /\ SameAtVenue /\ UNCHANGED <<applied, sends, lane, handler>>

LEMMA CallerIsInner ==
  ASSUME CallerStep
  PROVE  InnerStep
  BY DEF CallerStep, InnerStep, SameAtVenue

LEMMA WorkerFrame ==
  ASSUME FlowInv, TablesKept, NoNewRows, SameAtVenue, UNCHANGED <<callVars, sends, lane, handler>>,
         EmsTypeOK', ExtTypeOK', ItemsInv', SendsInv'
  PROVE  FlowInv'
  <1>1. VenueGrows
    BY DEF VenueGrows, SameAtVenue, FlowInv, ExtTypeOK
  <1>2. RowsInv' /\ EventsInv'
    BY <1>1, RowsInvKept, EventsKept DEF TablesKept
  <1>3. VenueInv'
    <2>1. \A id \in OrderIds : venue[id].status # "none" => orders'[id].volume = orders[id].volume
      BY VenueFacts, RowsStay DEF FlowInv, TablesKept
    <2> QED BY <2>1 DEF FlowInv, VenueInv, SameAtVenue
  <1>4. SubmitsInv' /\ LaneTypeOK' /\ CallsTypeOK'
    BY SubmitsUntouched, OthersTyped DEF callVars
  <1> QED BY <1>2, <1>3, <1>4 DEF FlowInv, TablesKept

\* Unless a result is to be recorded no sent order is SendPending.
LEMMA SentIsPast ==
  ASSUME FlowInv, RowsKept, worker.pc # "sent", NEW id \in OrderIds, sends[id] # <<>>
  PROVE  Unsendable(id)' /\ orders'[id].state # "SendPending"
  <1>1. Unsendable(id) /\ orders[id].state # "SendPending"
    BY DEF FlowInv, SendsInv
  <1>2. Unsendable(id)' /\ Present(id)
    BY <1>1, RowsStay DEF FlowInv
  <1>3. orders'[id].state = "SendPending" => orders[id].state \in {"EmsQueued", "SendPending"}
    BY <1>2, RowsStay DEF FlowInv
  <1> QED BY <1>1, <1>2, <1>3 DEF Unsendable, PreSend

LEMMA SendsPast ==
  ASSUME FlowInv, sends' = sends, worker'.pc \notin {"send", "sent"},
         \A id \in OrderIds : sends[id] # <<>> =>
           Unsendable(id)' /\ orders'[id].state # "SendPending"
  PROVE  SendsInv'
  BY DEF FlowInv, SendsInv

LEMMA WorkerToTyped ==
  ASSUME FlowInv, NEW pc \in WorkerPcs, NEW rc \in ErrorCodes, WorkerTo(pc, rc)
  PROVE  /\ EmsTypeOK' /\ queue' = queue
         /\ worker'.pc = pc /\ worker'.rc = rc /\ worker'.item = worker.item
  BY DEF FlowInv, EmsTypeOK, WorkerTo

LEMMA WorkerItems ==
  ASSUME FlowInv, TablesKept, UNCHANGED <<cancel, queue>>, worker'.item = worker.item,
         worker.pc # "idle"
  PROVE  ItemsInv'
  BY RowsStay DEF FlowInv, ItemsInv, TablesKept, Present

\* A step of the worker that keeps its item and sends nothing.
LEMMA WorkerMoves ==
  ASSUME FlowInv, TablesKept, CallsKept, NoNewRows, SameAtVenue, ExtTypeOK',
         UNCHANGED <<applied, callVars, sends, laneVars>>,
         worker.pc # "idle", NEW pc \in WorkerPcs, pc \notin {"send", "sent"},
         NEW rc \in ErrorCodes, WorkerTo(pc, rc),
         \A id \in OrderIds : sends[id] # <<>> =>
           Unsendable(id)' /\ orders'[id].state # "SendPending"
  PROVE  FlowInv' /\ InnerStep
  <1>1. /\ EmsTypeOK' /\ queue' = queue
        /\ worker'.pc = pc /\ worker'.item = worker.item
    BY WorkerToTyped
  <1>2. ItemsInv' /\ SendsInv'
    BY <1>1, WorkerItems, SendsPast DEF callVars
  <1> QED BY <1>1, <1>2, WorkerFrame DEF InnerStep, laneVars

LEMMA WorkerTakeFlow ==
  ASSUME FlowInv, WorkerTake
  PROVE  FlowInv' /\ InnerStep
  <1>1. /\ worker.pc = "idle" /\ queue # <<>>
        /\ worker' = [pc |-> IF Head(queue).type = "Send" THEN "mark" ELSE "cancel",
                      item |-> Head(queue), rc |-> "Success"]
        /\ queue' = Tail(queue)
        /\ UNCHANGED <<omsVars, callVars, emsRunning, extVars, laneVars>>
    BY DEF WorkerTake, WorkerAt
  <1>2. queue \in Seq(Item) /\ Len(queue) <= QueueCapacity
    BY DEF FlowInv, EmsTypeOK
  <1>3. /\ Head(queue) \in Item /\ Tail(queue) \in Seq(Item)
        /\ Len(Tail(queue)) = Len(queue) - 1 /\ Len(queue) \in Nat
        /\ \A i \in 1..Len(Tail(queue)) : Tail(queue)[i] = queue[i + 1]
        /\ Head(queue) = queue[1] /\ Len(queue) > 0
    <2>1. Head(queue) = queue[1] /\ Len(queue) \in Nat /\ Len(queue) # 0
      BY <1>1, <1>2
    <2> QED BY <1>1, <1>2, <2>1, HeadTailProperties
  <1>4. \A i \in 1..Len(queue) : Present(queue[i].id)
    BY DEF FlowInv, ItemsInv
  <1>5. EmsTypeOK'
    <2>1. Len(Tail(queue)) <= QueueCapacity
      BY <1>2, <1>3, FlowAssumption
    <2> QED BY <1>1, <1>3, <2>1 DEF FlowInv, EmsTypeOK, WorkerPcs, ErrorCodes
  <1>6. ItemsInv'
    <2>1. \A i \in 1..Len(queue') : i + 1 \in 1..Len(queue) /\ queue'[i] = queue[i + 1]
      BY <1>1, <1>3
    <2>2. 1 \in 1..Len(queue)
      BY <1>3
    <2> QED BY <1>1, <1>3, <1>4, <2>1, <2>2 DEF FlowInv, ItemsInv, Present, callVars, omsVars
  <1>7. TablesKept /\ CallsKept /\ NoNewRows
    BY <1>1, NothingChanges DEF FlowInv
  <1>8. SendsInv'
    BY <1>1, <1>7, SentIsPast, SendsPast DEF TablesKept, extVars
  <1>9. ExtTypeOK' /\ SameAtVenue
    BY <1>1, OthersTyped DEF extVars, SameAtVenue
  <1> QED BY <1>1, <1>5, <1>6, <1>7, <1>8, <1>9, WorkerFrame
          DEF InnerStep, extVars, omsVars, laneVars

LEMMA MarkSucceeds ==
  ASSUME OmsInv, NEW id, Present(id), MarkSendPending(id),
         TransitionRc(id, "SendPending") = "Success"
  PROVE  /\ orders[id].state \in {"EmsQueued", "SendPending"}
         /\ orders'[id].state = "SendPending"
  <1>1. CanTransition(orders[id].state, "SendPending")
    BY DEF TransitionRc
  <1>2. orders'[id] = ApplyTransition(orders[id], "SendPending")
    BY RequestTables DEF MarkSendPending, OneRowChanges
  <1>3. orders[id] \in Entry
    BY RowTyped DEF Present
  <1> QED BY <1>1, <1>2, <1>3
          DEF CanTransition, Successors, ApplyTransition, Entry, Lifecycle, PreSend, Terminal

LEMMA WorkerMarkFlow ==
  ASSUME FlowInv, WorkerMark
  PROVE  FlowInv' /\ InnerStep
  <1> DEFINE id == worker.item.id
             rc == TransitionRc(id, "SendPending")
  <1>1. worker.pc = "mark" /\ Present(id) /\ MarkSendPending(id)
    BY DEF WorkerMark, WorkerAt, FlowInv, ItemsInv
  <1>2. TablesKept /\ NoNewRows /\ CallsKept /\ applied' = applied
    BY <1>1, RequestTables DEF MarkSendPending, FlowInv, OneRowChanges
  <1>3. rc \in ErrorCodes /\ UNCHANGED <<callVars, extVars, laneVars>>
    BY DEF TransitionRc, ErrorCodes, WorkerMark
  <1>4. ExtTypeOK' /\ SameAtVenue
    BY <1>3, OthersTyped DEF extVars, SameAtVenue
  <1>5. \A i \in OrderIds : sends[i] # <<>> =>
          Unsendable(i)' /\ orders'[i].state # "SendPending"
    BY <1>1, <1>2, SentIsPast DEF TablesKept
  <1>6. CASE rc = "Success"
    <2>1. WorkerTo("send", "Success")
      BY <1>6 DEF WorkerMark
    <2>2. /\ EmsTypeOK' /\ queue' = queue
          /\ worker'.pc = "send" /\ worker'.item = worker.item
      BY <2>1, WorkerToTyped DEF WorkerPcs, ErrorCodes
    <2>3. ItemsInv'
      BY <1>1, <1>2, <1>3, <2>2, WorkerItems DEF callVars
    <2>4. orders'[id].state = "SendPending" /\ id \in OrderIds
      BY <1>1, <1>6, MarkSucceeds DEF FlowInv, Present
    <2>5. orders'[id].state \notin PreSend \cup {"Absent"} /\ sends[id] = <<>>
      BY <1>5, <2>4 DEF PreSend
    <2>6. SendsInv'
      BY <1>3, <1>5, <2>2, <2>5 DEF FlowInv, SendsInv, Unsendable, extVars
    <2> QED BY <1>2, <1>3, <1>4, <2>2, <2>3, <2>6, WorkerFrame
            DEF InnerStep, extVars, laneVars
  <1>7. CASE rc # "Success"
    <2>1. WorkerTo("refused", rc)
      BY <1>7 DEF WorkerMark
    <2> HIDE DEF rc, id
    <2> QED BY <1>1, <1>2, <1>3, <1>4, <1>5, <2>1, WorkerMoves DEF WorkerPcs, extVars
  <1> QED BY <1>6, <1>7

LEMMA WorkerTyped ==
  ASSUME FlowInv
  PROVE  worker.rc \in ErrorCodes /\ worker.pc \in WorkerPcs /\ worker.item \in Item
  BY DEF FlowInv, EmsTypeOK

LEMMA WorkerRefusedFlow ==
  ASSUME FlowInv, WorkerRefused
  PROVE  FlowInv' /\ InnerStep
  <1>1. worker.pc = "refused" /\ Present(worker.item.id)
    BY DEF WorkerRefused, WorkerAt, FlowInv, ItemsInv
  <1>2. TablesKept /\ NoNewRows /\ CallsKept /\ applied' = applied
    BY <1>1, SendResultTables DEF WorkerRefused, FlowInv, OneRowChanges
  <1>3. UNCHANGED <<callVars, extVars, laneVars>> /\ WorkerTo("release", worker.rc)
    BY DEF WorkerRefused
  <1>4. ExtTypeOK' /\ SameAtVenue
    BY <1>3, OthersTyped DEF extVars, SameAtVenue
  <1>5. \A i \in OrderIds : sends[i] # <<>> =>
          Unsendable(i)' /\ orders'[i].state # "SendPending"
    BY <1>1, <1>2, SentIsPast DEF TablesKept
  <1> QED BY <1>1, <1>2, <1>3, <1>4, <1>5, WorkerTyped, WorkerMoves DEF WorkerPcs, extVars

LEMMA WorkerRecordSendFlow ==
  ASSUME FlowInv, WorkerRecordSend
  PROVE  FlowInv' /\ InnerStep
  <1> DEFINE id == worker.item.id
             to == IF worker.rc = "Success" THEN "idle" ELSE "release"
  <1>1. worker.pc = "sent" /\ Present(id) /\ RecordSendResult(id, worker.rc)
    BY DEF WorkerRecordSend, WorkerAt, FlowInv, ItemsInv
  <1>2. /\ OneRowChanges(id, SendResult(orders[id], worker.rc))
        /\ CallsKept /\ applied' = applied
    BY <1>1, SendResultTables DEF FlowInv
  <1>3. UNCHANGED <<callVars, extVars, laneVars>> /\ WorkerTo(to, worker.rc)
    BY DEF WorkerRecordSend
  <1>4. ExtTypeOK' /\ SameAtVenue
    BY <1>3, OthersTyped DEF extVars, SameAtVenue
  <1>5. ASSUME NEW i \in OrderIds, sends[i] # <<>>
        PROVE  Unsendable(i)' /\ orders'[i].state # "SendPending"
    <2>1. Unsendable(i) /\ (orders[i].state = "SendPending" => i = id)
      BY <1>5 DEF FlowInv, SendsInv
    <2>2. Present(i) /\ Unsendable(i)'
      BY <1>2, <2>1, RowsStay DEF FlowInv, OneRowChanges, TablesKept
    <2>3. orders'[i].state = "SendPending" => orders[i].state \in {"EmsQueued", "SendPending"}
      BY <1>2, <2>2, RowsStay DEF FlowInv, OneRowChanges, TablesKept
    <2>4. orders'[i].state = "SendPending" => orders[i].state = "SendPending"
      BY <2>1, <2>3 DEF Unsendable, PreSend
    <2>5. orders[id].state = "SendPending" => orders'[id].state # "SendPending"
      BY <1>1, <1>2, RowTyped, SendResultKept DEF OneRowChanges, FlowInv, Present
    <2> QED BY <2>1, <2>2, <2>4, <2>5
  <1>6. to \in {"idle", "release"}
    OBVIOUS
  <1>7. TablesKept /\ NoNewRows
    BY <1>2 DEF OneRowChanges
  <1> HIDE DEF to, id
  <1> QED BY <1>1, <1>2, <1>3, <1>4, <1>5, <1>6, <1>7, WorkerTyped, WorkerMoves
          DEF WorkerPcs, extVars

LEMMA WorkerReleaseFlow ==
  ASSUME FlowInv, WorkerRelease
  PROVE  FlowInv' /\ InnerStep
  <1>1. /\ worker.pc = "release" /\ WorkerTo("idle", worker.rc)
        /\ UNCHANGED <<omsVars, callVars, laneVars>>
        /\ SetReservation(worker.item.id, "released")
    BY DEF WorkerRelease, WorkerAt
  <1>2. TablesKept /\ CallsKept /\ NoNewRows
    BY <1>1, NothingChanges DEF FlowInv
  <1>3. ExtTypeOK' /\ SameAtVenue /\ sends' = sends
    BY <1>1, ReservationTyped DEF SetReservation, SameAtVenue
  <1>4. \A i \in OrderIds : sends[i] # <<>> =>
          Unsendable(i)' /\ orders'[i].state # "SendPending"
    BY <1>1, <1>2, SentIsPast DEF TablesKept
  <1> QED BY <1>1, <1>2, <1>3, <1>4, WorkerTyped, WorkerMoves DEF WorkerPcs, omsVars

LEMMA WorkerCancelFlow ==
  ASSUME FlowInv, WorkerCancel
  PROVE  FlowInv' /\ InnerStep
  <1>1. worker.pc = "cancel" /\ UNCHANGED <<omsVars, callVars, sends, reservation, laneVars>>
    BY DEF WorkerCancel, WorkerAt
  <1>2. PICK rc \in {"Success", "Timeout", "NotFound", "SystemError"}, asks \in BOOLEAN :
          /\ venue' = [venue EXCEPT ![worker.item.id].asked = @ \/ asks]
          /\ WorkerTo("canceled", rc)
    BY DEF WorkerCancel
  <1>3. TablesKept /\ CallsKept /\ NoNewRows
    BY <1>1, NothingChanges DEF FlowInv
  <1>4. venue \in [OrderIds -> [status : {"none", "queued", "filled", "canceled", "rejected"},
                                traded : Nat, asked : BOOLEAN, repeated : BOOLEAN]]
    BY DEF FlowInv, ExtTypeOK
  <1>5. SameAtVenue /\ ExtTypeOK'
    <2>1. worker.item.id \in OrderIds
      BY <1>1 DEF FlowInv, ItemsInv, Present
    <2>2. (venue[worker.item.id].asked \/ asks) \in BOOLEAN
      BY <1>4, <2>1, Zenon
    <2> DEFINE a == venue[worker.item.id].asked \/ asks
    <2>3. venue' = [venue EXCEPT ![worker.item.id].asked = a]
      BY <1>2, <1>4, <2>1
    <2> HIDE DEF a
    <2>4. a \in BOOLEAN
      BY <2>2 DEF a
    <2> QED BY <1>1, <1>4, <2>1, <2>3, <2>4, ZenonT(60) DEF SameAtVenue, FlowInv, ExtTypeOK
  <1>6. \A i \in OrderIds : sends[i] # <<>> =>
          Unsendable(i)' /\ orders'[i].state # "SendPending"
    BY <1>1, <1>3, SentIsPast DEF TablesKept
  <1>7. rc \in ErrorCodes
    BY DEF ErrorCodes
  <1> QED BY <1>1, <1>2, <1>3, <1>5, <1>6, <1>7, WorkerMoves DEF WorkerPcs, omsVars

LEMMA WorkerRecordCancelFlow ==
  ASSUME FlowInv, WorkerRecordCancel
  PROVE  FlowInv' /\ InnerStep
  <1>1. worker.pc = "canceled" /\ Present(worker.item.id)
    BY DEF WorkerRecordCancel, WorkerAt, FlowInv, ItemsInv
  <1>2. TablesKept /\ NoNewRows /\ CallsKept /\ applied' = applied
    BY <1>1, CancelResultTables DEF WorkerRecordCancel, FlowInv, OneRowChanges
  <1>3. UNCHANGED <<callVars, extVars, laneVars>> /\ WorkerTo("idle", worker.rc)
    BY DEF WorkerRecordCancel
  <1>4. ExtTypeOK' /\ SameAtVenue
    BY <1>3, OthersTyped DEF extVars, SameAtVenue
  <1>5. \A i \in OrderIds : sends[i] # <<>> =>
          Unsendable(i)' /\ orders'[i].state # "SendPending"
    BY <1>1, <1>2, SentIsPast DEF TablesKept
  <1> QED BY <1>1, <1>2, <1>3, <1>4, <1>5, WorkerTyped, WorkerMoves DEF WorkerPcs, extVars

-----------------------------------------------------------------------------
(* What the venue publishes.                                               *)

\* The lane is the old one with the first of the events after it.
Published(events) ==
  /\ lane' \in Seq(Event) /\ Len(lane') \in Nat /\ Len(lane) <= Len(lane')
  /\ \A i \in 1..Len(lane) : lane'[i] = lane[i]
  /\ \A i \in 1..Len(lane') : i \notin 1..Len(lane) =>
       i - Len(lane) \in 1..Len(events) /\ lane'[i] = events[i - Len(lane)]

LEMMA PublishFacts ==
  ASSUME LaneTypeOK, NEW events \in Seq(Event), Publish(events)
  PROVE  Published(events) /\ Len(lane') <= LaneCapacity
  <1> DEFINE all == lane \o events
             n   == IF Len(all) <= LaneCapacity THEN Len(all) ELSE LaneCapacity
  <1>1. lane \in Seq(Event) /\ Len(lane) <= LaneCapacity /\ Len(lane) \in Nat
    BY LenProperties DEF LaneTypeOK
  <1>2. Len(events) \in Nat
    BY LenProperties
  <1>3. /\ all \in Seq(Event) /\ Len(all) = Len(lane) + Len(events)
        /\ \A i \in 1..Len(all) :
             all[i] = IF i <= Len(lane) THEN lane[i] ELSE events[i - Len(lane)]
    BY <1>1, ConcatProperties
  <1>4. /\ n \in Nat /\ Len(lane) <= n /\ n <= Len(all) /\ n <= LaneCapacity
    BY <1>1, <1>2, <1>3, FlowAssumption
  <1>5. lane' = SubSeq(all, 1, n)
    BY DEF Publish
  <1> HIDE DEF all, n
  <1>6. \A i \in 1..n : all[i] \in Event
    BY <1>2, <1>1, <1>3, <1>4, ElementOfSeq
  <1>7. lane' \in Seq(Event) /\ Len(lane') = n /\ \A i \in 1..n : lane'[i] = all[i]
    BY <1>4, <1>5, <1>6, SubSeqProperties
  <1> QED BY <1>1, <1>2, <1>3, <1>4, <1>7 DEF Published

LEMMA PublishFlow ==
  ASSUME FlowInv, RowsKept, VenueGrows, handler' = handler,
         NEW events \in Seq(Event), Publish(events), NEW id \in OrderIds,
         \A i \in 1..Len(events) : EventAbout(events[i], id)'
  PROVE  LaneTypeOK' /\ EventsInv' /\ Published(events)
  <1>1. Published(events) /\ Len(lane') <= LaneCapacity
    BY PublishFacts DEF FlowInv
  <1>2. LaneTypeOK'
    BY <1>1 DEF FlowInv, LaneTypeOK, Published
  <1>3. \A i \in 1..Len(lane) : lane[i] \in Event
    BY ElementOfSeq DEF FlowInv, LaneTypeOK
  <1>4. ASSUME NEW e \in Event, \E j \in OrderIds : EventAbout(e, j)
        PROVE  \E j \in OrderIds : EventAbout(e, j)'
    BY <1>4, EventKept
  <1>5. \A i \in 1..Len(lane') : \E j \in OrderIds : EventAbout(lane[i], j)'
    <2> SUFFICES ASSUME NEW i \in 1..Len(lane')
                 PROVE  \E j \in OrderIds : EventAbout(lane[i], j)'
      OBVIOUS
    <2>1. CASE i \in 1..Len(lane)
      <3>1. PICK e \in Event : e = lane[i] /\ e = lane'[i]
        BY <1>1, <1>3, <2>1 DEF Published
      <3>2. \E j \in OrderIds : EventAbout(e, j)
        BY <2>1, <3>1 DEF FlowInv, EventsInv
      <3>3. \E j \in OrderIds : EventAbout(e, j)'
        BY <1>4, <3>2
      <3> QED BY <3>1, <3>3 DEF EventAbout
    <2>2. CASE i \notin 1..Len(lane)
      <3>1. i - Len(lane) \in 1..Len(events) /\ lane'[i] = events[i - Len(lane)]
        BY <1>1, <2>2 DEF Published
      <3>2. PICK k \in 1..Len(events) : lane'[i] = events[k]
        BY <3>1
      <3>3. PICK e : e = events[k] /\ EventAbout(e, id)'
        OBVIOUS
      <3> QED BY <3>2, <3>3 DEF EventAbout
    <2> QED BY <2>1, <2>2
  <1>6. handler # <<>> => \E j \in OrderIds : EventAbout(handler[1], j)'
    <2> SUFFICES ASSUME handler # <<>>
                 PROVE  \E j \in OrderIds : EventAbout(handler[1], j)'
      OBVIOUS
    <2>1. PICK e \in Event : e = handler[1] /\ e = handler'[1]
      BY DEF FlowInv, LaneTypeOK
    <2>2. \E j \in OrderIds : EventAbout(e, j)
      BY <2>1 DEF FlowInv, EventsInv
    <2>3. \E j \in OrderIds : EventAbout(e, j)'
      BY <1>4, <2>2
    <2> QED BY <2>1, <2>3 DEF EventAbout
  <1> QED BY <1>1, <1>2, <1>5, <1>6 DEF EventsInv

LEMMA OrderEventFacts ==
  ASSUME FlowInv, orders' = orders, NEW id \in OrderIds, Present(id),
         NEW status \in Statuses \ {"Unknown"}, NEW traded \in Nat,
         traded <= venue'[id].traded, traded <= orders[id].volume,
         venue'[id].status # "none", status = "New" => traded = 0,
         status \in {"PartiallyFilled", "Filled"} => traded # 0,
         status = "Filled" => traded = orders[id].volume,
         status = "Canceled" => venue'[id].status = "canceled",
         status = "Rejected" => venue'[id].status = "rejected",
         NEW e, e = OrderEvent(id, status, traded)
  PROVE  e \in Event /\ EventAbout(e, id)'
  <1>1. /\ orders[id].client \in ClientIds \cup {NoClient} /\ orders[id].volume \in Nat
        /\ orders[id].volume - traded \in Nat
    <2>1. orders[id].client \in ClientIds \cup {NoClient} /\ orders[id].volume \in Nat
      BY DEF FlowInv, OmsInv, TypeOK, Entry
    <2> QED BY <2>1
  <1> DEFINE r == e.report
  <1>2. /\ e = [kind |-> "order", report |-> r]
        /\ r = [order_id |-> IF venue[id].asked THEN id ELSE NoId,
                client |-> orders[id].client, status |-> status,
                volume |-> orders[id].volume, left |-> orders[id].volume - traded,
                traded |-> traded, broker |-> TRUE]
    BY DEF OrderEvent
  <1>3. r \in OrderReport
    BY <1>1, <1>2 DEF OrderReport
  <1> HIDE DEF r
  <1>4. e \in Event
    BY <1>2, <1>3 DEF Event
  <1>5. /\ e.kind = "order" /\ r.client = orders[id].client /\ r.order_id \in {NoId, id}
        /\ r.volume = orders[id].volume /\ r.traded = traded /\ r.status = status
        /\ e.report = r
    BY <1>2
  <1>6. EventAbout(e, id)'
    BY <1>5 DEF EventAbout
  <1> QED BY <1>4, <1>6

LEMMA TradeEventFacts ==
  ASSUME FlowInv, orders' = orders, NEW id \in OrderIds, Present(id),
         NEW n \in Nat, n # 0, n <= orders[id].volume, n <= venue'[id].traded,
         venue'[id].traded \in Nat, venue'[id].status # "none",
         NEW e, e = TradeEvent(id, n)
  PROVE  e \in Event /\ EventAbout(e, id)'
  <1>1. /\ orders[id].client \in ClientIds \cup {NoClient}
        /\ orders[id].volume \in Volumes /\ orders[id].volume \in Nat
    BY VolumesPositive DEF FlowInv, OmsInv, TypeOK, Entry, RowsInv
  <1>2. <<id, n>> \in TradeKeys
    <2>1. OrderIds \X (1..orders[id].volume) \subseteq TradeKeys
      BY <1>1, FlowAssumption
    <2>2. n \in 1..orders[id].volume
      BY <1>1
    <2> QED BY <2>1, <2>2
  <1> DEFINE r == e.report
  <1>3. /\ e = [kind |-> "trade", report |-> r]
        /\ r = [key |-> <<id, n>>, order_id |-> NoId,
                client |-> orders[id].client, volume |-> 1]
    BY DEF TradeEvent
  <1>4. r \in TradeReport
    BY <1>1, <1>2, <1>3 DEF TradeReport
  <1> HIDE DEF r
  <1>5. e \in Event
    BY <1>3, <1>4 DEF Event
  <1>6. /\ e.kind = "trade" /\ r.client = orders[id].client /\ r.order_id = NoId
        /\ r.volume = 1 /\ r.key = <<id, n>> /\ e.report = r
    BY <1>3
  <1>7. n \in 1..venue'[id].traded
    OBVIOUS
  <1>8. EventAbout(e, id)'
    BY <1>6, <1>7 DEF EventAbout
  <1> QED BY <1>5, <1>8

-----------------------------------------------------------------------------
(* The steps of the venue, and the send.                                   *)

\* A step of the venue about one order, with what it publishes.
VenueMove(id, events) ==
  /\ UNCHANGED <<omsVars, callVars, emsVars, sends, reservation, handler>>
  /\ Present(id) /\ venue[id].status # "none" /\ VenueGrows
  /\ \A j \in OrderIds \ {id} : venue'[j] = venue[j]
  /\ Published(events)

LEMMA VenueFrame ==
  ASSUME FlowInv, NEW id \in OrderIds, venue[id].status # "none",
         UNCHANGED <<omsVars, callVars, emsVars, sends, reservation, handler>>,
         NEW new \in [status : {"queued", "filled", "canceled", "rejected"},
                      traded : Nat, asked : BOOLEAN, repeated : BOOLEAN],
         venue' = [venue EXCEPT ![id] = new],
         venue[id].traded <= new.traded, new.traded <= orders[id].volume,
         new.traded = orders[id].volume <=> new.status = "filled",
         venue[id].status \in {"canceled", "rejected"} => new.status = venue[id].status,
         NEW events \in Seq(Event), Publish(events),
         \A i \in 1..Len(events) : EventAbout(events[i], id)'
  PROVE  FlowInv' /\ VenueMove(id, events) /\ venue'[id] = new
  <1>1. \A j \in OrderIds : venue'[j] = IF j = id THEN new ELSE venue[j]
    BY DEF FlowInv, ExtTypeOK
  <1>2. VenueGrows
    BY <1>1 DEF VenueGrows, FlowInv, ExtTypeOK
  <1>3. ExtTypeOK'
    BY DEF FlowInv, ExtTypeOK
  <1>4. VenueInv'
    <2>1. orders' = orders /\ sends' = sends
      BY DEF omsVars
    <2>2. \A j \in OrderIds : venue'[j] = venue[j] \/ (j = id /\ venue'[j] = new)
      BY <1>1
    <2> QED BY <2>1, <2>2 DEF FlowInv, VenueInv
  <1>5. TablesKept /\ NoNewRows
    BY NothingChanges DEF FlowInv
  <1>6. LaneTypeOK' /\ EventsInv' /\ Published(events)
    BY <1>2, <1>5, PublishFlow DEF TablesKept
  <1>7. RowsInv' /\ SendsInv' /\ SubmitsInv' /\ ItemsInv'
    BY <1>5, RowsInvKept, SendsKept, SubmitsUntouched, ItemsKept
    DEF TablesKept, callVars, emsVars
  <1>8. CallsTypeOK' /\ EmsTypeOK'
    BY OthersTyped
  <1> QED BY <1>1, <1>2, <1>3, <1>4, <1>5, <1>6, <1>7, <1>8, VenueFacts
          DEF FlowInv, TablesKept, VenueMove

LEMMA VenueFillFlow ==
  ASSUME FlowInv, NEW id \in OrderIds, VenueFill(id)
  PROVE  /\ FlowInv' /\ VenueMove(id, FillEvents(id, venue[id].traded + 1))
         /\ venue'[id].traded = venue[id].traded + 1
         /\ venue'[id].traded <= orders[id].volume
         /\ venue'[id].status =
              (IF venue'[id].traded = orders[id].volume THEN "filled" ELSE "queued")
  <1> DEFINE n     == venue[id].traded + 1
             full  == n = orders[id].volume
             new   == [venue[id] EXCEPT !.traded = n, !.status = IF full THEN "filled" ELSE @]
  <1>1. /\ venue[id].status = "queued" /\ Present(id)
        /\ UNCHANGED <<omsVars, callVars, emsVars, sends, reservation, handler>>
        /\ Publish(FillEvents(id, n))
    BY VenueFacts DEF VenueFill, Live
  <1>2. venue \in [OrderIds -> [status : {"none", "queued", "filled", "canceled", "rejected"},
                                traded : Nat, asked : BOOLEAN, repeated : BOOLEAN]]
    BY DEF FlowInv, ExtTypeOK
  <1>3. /\ venue[id].traded \in Nat /\ orders[id].volume \in Nat
        /\ venue[id].traded <= orders[id].volume /\ venue[id].traded # orders[id].volume
    BY <1>1, <1>2, VolumesPositive DEF FlowInv, VenueInv
  <1>4. n \in Nat /\ n # 0 /\ n <= orders[id].volume
    BY <1>3
  <1>5. /\ new \in [status : {"queued", "filled", "canceled", "rejected"},
                    traded : Nat, asked : BOOLEAN, repeated : BOOLEAN]
        /\ new.traded = n /\ new.status = IF full THEN "filled" ELSE "queued"
    BY <1>1, <1>2, <1>4
  <1>6. venue' = [venue EXCEPT ![id] = new]
    BY <1>2 DEF VenueFill
  <1> HIDE DEF new
  <1>7. venue'[id] = new
    BY <1>2, <1>6
  <1>8. PICK trade : trade = TradeEvent(id, n)
    OBVIOUS
  <1>9. PICK snap : snap = OrderEvent(id, IF full THEN "Filled" ELSE "PartiallyFilled", n)
    OBVIOUS
  <1>10. PICK events : events = FillEvents(id, n)
    OBVIOUS
  <1>11. events \in {<<trade>>, <<trade, snap>>, <<snap, trade>>}
    BY <1>8, <1>9, <1>10, FlowAssumption DEF FillEvents
  <1>12. Publish(events)
    BY <1>1, <1>10
  <1> HIDE DEF n
  <1>13. n <= venue'[id].traded /\ venue'[id].traded \in Nat /\ venue'[id].status # "none"
    BY <1>4, <1>5, <1>7
  <1>14. trade \in Event /\ EventAbout(trade, id)'
    BY <1>1, <1>4, <1>8, <1>13, TradeEventFacts DEF omsVars
  <1>15. snap \in Event /\ EventAbout(snap, id)'
    <2> DEFINE status == IF full THEN "Filled" ELSE "PartiallyFilled"
    <2>1. /\ status \in Statuses \ {"Unknown"} /\ (status = "Filled" => n = orders[id].volume)
          /\ status \notin {"New", "Canceled", "Rejected"} /\ snap = OrderEvent(id, status, n)
      BY <1>9 DEF Statuses
    <2> HIDE DEF status, full
    <2> QED BY <1>1, <1>4, <1>13, <2>1, OrderEventFacts DEF omsVars
  <1>16. events \in Seq(Event) /\ \A i \in 1..Len(events) : events[i] \in {trade, snap}
    <2>1. ASSUME NEW a \in Event, NEW b \in Event
          PROVE  /\ <<a>> \in Seq(Event) /\ \A i \in 1..Len(<<a>>) : <<a>>[i] = a
                 /\ <<a, b>> \in Seq(Event)
                 /\ \A i \in 1..Len(<<a, b>>) : <<a, b>>[i] \in {a, b}
      OBVIOUS
    <2>2. CASE events = <<trade>>
      BY <1>14, <2>1, <2>2
    <2>3. CASE events = <<trade, snap>>
      BY <1>14, <1>15, <2>1, <2>3
    <2>4. CASE events = <<snap, trade>>
      BY <1>14, <1>15, <2>1, <2>4
    <2> QED BY <1>11, <2>2, <2>3, <2>4
  <1>17. \A i \in 1..Len(events) : EventAbout(events[i], id)'
    BY <1>14, <1>15, <1>16
  <1>18. FlowInv' /\ VenueMove(id, events) /\ venue'[id] = new
    <2>1. new.traded = orders[id].volume <=> new.status = "filled"
      BY <1>5
    <2>2. venue[id].traded <= new.traded
      BY <1>3, <1>5 DEF n
    <2> QED BY <1>1, <1>4, <1>5, <1>6, <1>12, <1>16, <1>17, <2>1, <2>2, VenueFrame
  <1> QED BY <1>4, <1>5, <1>10, <1>18 DEF n

LEMMA VenueCancelFlow ==
  ASSUME FlowInv, NEW id \in OrderIds, VenueCancel(id)
  PROVE  /\ FlowInv'
         /\ VenueMove(id, <<OrderEvent(id, "Canceled", venue[id].traded)>>)
         /\ venue'[id].traded = venue[id].traded /\ venue'[id].status = "canceled"
  <1> DEFINE new == [venue[id] EXCEPT !.status = "canceled"]
  <1>1. /\ venue[id].status = "queued" /\ Present(id)
        /\ UNCHANGED <<omsVars, callVars, emsVars, sends, reservation, handler>>
        /\ Publish(<<OrderEvent(id, "Canceled", venue[id].traded)>>)
    BY VenueFacts DEF VenueCancel, Live
  <1>2. venue \in [OrderIds -> [status : {"none", "queued", "filled", "canceled", "rejected"},
                                traded : Nat, asked : BOOLEAN, repeated : BOOLEAN]]
    BY DEF FlowInv, ExtTypeOK
  <1>3. /\ venue[id].traded \in Nat /\ orders[id].volume \in Nat
        /\ venue[id].traded <= orders[id].volume /\ venue[id].traded # orders[id].volume
    BY <1>1, <1>2, VolumesPositive DEF FlowInv, VenueInv
  <1>4. /\ new \in [status : {"queued", "filled", "canceled", "rejected"},
                    traded : Nat, asked : BOOLEAN, repeated : BOOLEAN]
        /\ new.traded = venue[id].traded /\ new.status = "canceled"
    BY <1>1, <1>2
  <1>5. venue' = [venue EXCEPT ![id] = new]
    BY <1>2 DEF VenueCancel
  <1> HIDE DEF new
  <1>6. venue'[id] = new
    BY <1>2, <1>5
  <1>7. PICK e : e = OrderEvent(id, "Canceled", venue[id].traded)
    OBVIOUS
  <1>8. e \in Event /\ EventAbout(e, id)'
    <2>1. "Canceled" \in Statuses \ {"Unknown"}
      BY DEF Statuses
    <2> QED BY <1>1, <1>3, <1>4, <1>6, <1>7, <2>1, OrderEventFacts DEF omsVars
  <1>9. PICK events : events = <<e>>
    OBVIOUS
  <1>10. events \in Seq(Event) /\ \A i \in 1..Len(events) : events[i] = e
    BY <1>8, <1>9
  <1>11. FlowInv' /\ VenueMove(id, events)
    <2>1. \A i \in 1..Len(events) : EventAbout(events[i], id)'
      BY <1>8, <1>10
    <2>2. Publish(events)
      BY <1>1, <1>7, <1>9
    <2>3. /\ venue[id].traded <= new.traded /\ new.traded <= orders[id].volume
          /\ new.traded = orders[id].volume <=> new.status = "filled"
      BY <1>3, <1>4
    <2>4. venue[id].status \in {"canceled", "rejected"} => new.status = venue[id].status
      BY <1>1
    <2> QED BY <1>1, <1>4, <1>5, <1>10, <2>1, <2>2, <2>3, <2>4, VenueFrame
  <1> QED BY <1>4, <1>6, <1>7, <1>9, <1>11

LEMMA VenueRejectFlow ==
  ASSUME FlowInv, NEW id \in OrderIds, VenueReject(id)
  PROVE  /\ FlowInv' /\ VenueMove(id, <<OrderEvent(id, "Rejected", 0)>>)
         /\ venue'[id].traded = venue[id].traded /\ venue'[id].status = "rejected"
  <1> DEFINE new == [venue[id] EXCEPT !.status = "rejected"]
  <1>1. /\ venue[id].status = "queued" /\ Present(id)
        /\ UNCHANGED <<omsVars, callVars, emsVars, sends, reservation, handler>>
        /\ Publish(<<OrderEvent(id, "Rejected", 0)>>)
    BY VenueFacts DEF VenueReject, Live
  <1>2. venue \in [OrderIds -> [status : {"none", "queued", "filled", "canceled", "rejected"},
                                traded : Nat, asked : BOOLEAN, repeated : BOOLEAN]]
    BY DEF FlowInv, ExtTypeOK
  <1>3. /\ venue[id].traded \in Nat /\ orders[id].volume \in Nat
        /\ venue[id].traded <= orders[id].volume /\ venue[id].traded # orders[id].volume
    BY <1>1, <1>2, VolumesPositive DEF FlowInv, VenueInv
  <1>4. /\ new \in [status : {"queued", "filled", "canceled", "rejected"},
                    traded : Nat, asked : BOOLEAN, repeated : BOOLEAN]
        /\ new.traded = venue[id].traded /\ new.status = "rejected"
    BY <1>1, <1>2
  <1>5. venue' = [venue EXCEPT ![id] = new]
    BY <1>2 DEF VenueReject
  <1> HIDE DEF new
  <1>6. venue'[id] = new
    BY <1>2, <1>5
  <1>7. PICK e : e = OrderEvent(id, "Rejected", 0)
    OBVIOUS
  <1>8. e \in Event /\ EventAbout(e, id)'
    <2>1. "Rejected" \in Statuses \ {"Unknown"} /\ 0 \in Nat
      BY DEF Statuses
    <2>2. 0 <= venue'[id].traded /\ 0 <= orders[id].volume /\ venue'[id].status = "rejected"
      BY <1>3, <1>4, <1>6
    <2> QED BY <1>1, <1>7, <2>1, <2>2, OrderEventFacts DEF omsVars
  <1>9. PICK events : events = <<e>>
    OBVIOUS
  <1>10. events \in Seq(Event) /\ \A i \in 1..Len(events) : events[i] = e
    BY <1>8, <1>9
  <1>11. FlowInv' /\ VenueMove(id, events)
    <2>1. \A i \in 1..Len(events) : EventAbout(events[i], id)'
      BY <1>8, <1>10
    <2>2. Publish(events)
      BY <1>1, <1>7, <1>9
    <2>3. /\ venue[id].traded <= new.traded /\ new.traded <= orders[id].volume
          /\ new.traded = orders[id].volume <=> new.status = "filled"
      BY <1>3, <1>4
    <2>4. venue[id].status \in {"canceled", "rejected"} => new.status = venue[id].status
      BY <1>1
    <2> QED BY <1>1, <1>4, <1>5, <1>10, <2>1, <2>2, <2>3, <2>4, VenueFrame
  <1> QED BY <1>4, <1>6, <1>7, <1>9, <1>11

LEMMA VenueRepeatFlow ==
  ASSUME FlowInv, NEW id \in OrderIds, VenueRepeat(id)
  PROVE  /\ FlowInv' /\ VenueMove(id, <<TradeEvent(id, venue[id].traded)>>)
         /\ venue'[id].traded = venue[id].traded /\ venue'[id].status = venue[id].status
         /\ lane = <<>>
  <1> DEFINE n   == venue[id].traded
             new == [venue[id] EXCEPT !.repeated = TRUE]
  <1>1. /\ venue[id].status # "none" /\ Present(id) /\ n > 0 /\ lane = <<>>
        /\ UNCHANGED <<omsVars, callVars, emsVars, sends, reservation, handler>>
        /\ Publish(<<TradeEvent(id, n)>>)
    BY VenueFacts DEF VenueRepeat, FlowInv, VenueInv
  <1>2. venue \in [OrderIds -> [status : {"none", "queued", "filled", "canceled", "rejected"},
                                traded : Nat, asked : BOOLEAN, repeated : BOOLEAN]]
    BY DEF FlowInv, ExtTypeOK
  <1>3. /\ n \in Nat /\ n # 0 /\ orders[id].volume \in Nat /\ n <= orders[id].volume
        /\ n = orders[id].volume <=> venue[id].status = "filled"
    BY <1>1, <1>2, VolumesPositive DEF FlowInv, VenueInv
  <1>4. /\ new \in [status : {"queued", "filled", "canceled", "rejected"},
                    traded : Nat, asked : BOOLEAN, repeated : BOOLEAN]
        /\ new.traded = n /\ new.status = venue[id].status
    BY <1>1, <1>2
  <1>5. venue' = [venue EXCEPT ![id] = new]
    BY <1>2 DEF VenueRepeat
  <1> HIDE DEF new
  <1>6. venue'[id] = new
    BY <1>2, <1>5
  <1>7. PICK e : e = TradeEvent(id, n)
    OBVIOUS
  <1>8. PICK m : m = n
    OBVIOUS
  <1>9. e \in Event /\ EventAbout(e, id)'
    <2>1. /\ m \in Nat /\ m # 0 /\ m <= orders[id].volume /\ m <= venue'[id].traded
          /\ venue'[id].traded \in Nat /\ venue'[id].status # "none" /\ e = TradeEvent(id, m)
      BY <1>1, <1>3, <1>4, <1>6, <1>7, <1>8
    <2> QED BY <1>1, <2>1, TradeEventFacts DEF omsVars
  <1>10. PICK events : events = <<e>>
    OBVIOUS
  <1>11. events \in Seq(Event) /\ \A i \in 1..Len(events) : events[i] = e
    BY <1>9, <1>10
  <1>12. FlowInv' /\ VenueMove(id, events)
    <2>1. \A i \in 1..Len(events) : EventAbout(events[i], id)'
      BY <1>9, <1>11
    <2>2. Publish(events)
      BY <1>1, <1>7, <1>10
    <2>3. /\ venue[id].traded <= new.traded /\ new.traded <= orders[id].volume
          /\ new.traded = orders[id].volume <=> new.status = "filled"
      BY <1>3, <1>4
    <2>4. venue[id].status \in {"canceled", "rejected"} => new.status = venue[id].status
      BY <1>4
    <2> QED BY <1>1, <1>4, <1>5, <1>11, <2>1, <2>2, <2>3, <2>4, VenueFrame
  <1> QED BY <1>1, <1>4, <1>6, <1>7, <1>10, <1>12

\* The send: its result joins the order's, and if the venue took the order it is
\* queued there and the lane has the acknowledgement.
SendMove(id, rc, taken) ==
  /\ UNCHANGED <<omsVars, callVars, emsRunning, queue, reservation, handler>>
  /\ worker.pc = "send" /\ worker'.pc = "sent" /\ worker'.rc = rc
  /\ worker'.item = worker.item /\ worker.item.id = id
  /\ Present(id) /\ Unsendable(id) /\ sends[id] = <<>>
  /\ venue[id].status = "none" /\ venue[id].traded = 0 /\ VenueGrows
  /\ taken => rc \in {"Success", "Timeout"}
  /\ sends' = [sends EXCEPT ![id] = <<rc>>]
  /\ venue' = IF taken THEN [venue EXCEPT ![id].status = "queued"] ELSE venue
  /\ IF taken THEN Published(<<OrderEvent(id, "New", 0)>>) ELSE lane' = lane

LEMMA WorkerSendFlow ==
  ASSUME FlowInv, WorkerSend
  PROVE  /\ FlowInv'
         /\ \E rc \in Results, taken \in BOOLEAN : SendMove(worker.item.id, rc, taken)
  <1>1. PICK id : id = worker.item.id
    OBVIOUS
  <1>2. /\ worker.pc = "send" /\ Present(id) /\ id \in OrderIds
        /\ Unsendable(id) /\ sends[id] = <<>>
    BY <1>1 DEF WorkerSend, WorkerAt, FlowInv, ItemsInv, SendsInv, Present
  <1>3. UNCHANGED <<omsVars, callVars, reservation, handler>>
    BY DEF WorkerSend
  <1>4. PICK rc \in Results, taken \in BOOLEAN :
          /\ taken <=> rc = "Success" \/ (rc = "Timeout" /\ taken)
          /\ sends' = [sends EXCEPT ![id] = Append(@, rc)]
          /\ IF taken
             THEN /\ venue' = [venue EXCEPT ![id].status = "queued"]
                  /\ Publish(<<OrderEvent(id, "New", 0)>>)
             ELSE UNCHANGED <<venue, lane>>
          /\ WorkerTo("sent", rc)
    BY <1>1 DEF WorkerSend
  <1>5. /\ venue \in [OrderIds -> [status : {"none", "queued", "filled", "canceled", "rejected"},
                                   traded : Nat, asked : BOOLEAN, repeated : BOOLEAN]]
        /\ sends \in [OrderIds -> Seq(Results)]
    BY DEF FlowInv, ExtTypeOK
  <1>6. /\ venue[id].status = "none" /\ venue[id].traded = 0
        /\ orders[id].volume \in Nat /\ orders[id].volume > 0
    BY <1>2, VolumesPositive DEF FlowInv, VenueInv
  <1>7. sends' = [sends EXCEPT ![id] = <<rc>>]
    <2>1. Append(sends[id], rc) = <<rc>>
      BY <1>2
    <2> QED BY <1>4, <2>1
  <1>8. venue' = IF taken THEN [venue EXCEPT ![id].status = "queued"] ELSE venue
    BY <1>4
  <1>9. ExtTypeOK'
    <2>1. <<rc>> \in Seq(Results)
      OBVIOUS
    <2>2. sends' \in [OrderIds -> Seq(Results)]
      BY <1>5, <1>7, <2>1
    <2>3. venue' \in [OrderIds -> [status : {"none", "queued", "filled", "canceled", "rejected"},
                                   traded : Nat, asked : BOOLEAN, repeated : BOOLEAN]]
      BY <1>5, <1>8
    <2>4. reservation' \in [OrderIds -> {"none", "reserved", "expired", "released"}]
      BY <1>3 DEF FlowInv, ExtTypeOK
    <2> QED BY <2>2, <2>3, <2>4 DEF ExtTypeOK
  <1>10. /\ \A j \in OrderIds : j # id => venue'[j] = venue[j] /\ sends'[j] = sends[j]
         /\ sends'[id] = <<rc>> /\ venue'[id].traded = 0
         /\ venue'[id].status = IF taken THEN "queued" ELSE "none"
    BY <1>2, <1>5, <1>6, <1>7, <1>8
  <1>11. VenueGrows
    BY <1>5, <1>6, <1>10 DEF VenueGrows
  <1>12. taken => rc \in {"Success", "Timeout"}
    BY <1>4
  <1>13. VenueInv'
    <2>1. \A j \in OrderIds : j # id => venue'[j] = venue[j] /\ sends'[j] = sends[j]
      BY <1>10
    <2>2. orders' = orders
      BY <1>3 DEF omsVars
    <2>3. taken => sends'[id] \in {<<"Success">>, <<"Timeout">>}
      BY <1>10, <1>12
    <2>4. ASSUME NEW j \in OrderIds
          PROVE  /\ venue'[j].status = "none" => venue'[j].traded = 0
                 /\ venue'[j].status # "none" =>
                      /\ sends'[j] \in {<<"Success">>, <<"Timeout">>}
                      /\ venue'[j].traded <= orders[j].volume
                      /\ venue'[j].traded = orders[j].volume <=> venue'[j].status = "filled"
      <3>1. CASE j = id
        BY <1>6, <1>10, <2>3, <3>1
      <3>2. CASE j # id
        BY <2>1, <3>2 DEF FlowInv, VenueInv
      <3> QED BY <3>1, <3>2
    <2> QED BY <2>2, <2>4 DEF VenueInv
  <1>14. rc \in ErrorCodes
    BY DEF Results, ErrorCodes
  <1>15. /\ EmsTypeOK' /\ UNCHANGED <<queue, emsRunning>>
         /\ worker'.pc = "sent" /\ worker'.rc = rc /\ worker'.item = worker.item
    BY <1>4, <1>14, WorkerToTyped DEF WorkerPcs, WorkerTo
  <1>16. TablesKept /\ NoNewRows
    BY <1>3, NothingChanges DEF FlowInv
  <1>17. LaneTypeOK' /\ EventsInv'
         /\ IF taken THEN Published(<<OrderEvent(id, "New", 0)>>) ELSE lane' = lane
    <2>1. CASE ~taken
      <3>1. UNCHANGED <<lane, handler>>
        BY <1>3, <1>4, <2>1
      <3> QED BY <1>11, <1>16, <2>1, <3>1, EventsKept, OthersTyped DEF TablesKept
    <2>2. CASE taken
      <3>1. PICK e : e = OrderEvent(id, "New", 0)
        OBVIOUS
      <3>2. e \in Event /\ EventAbout(e, id)'
        <4>1. "New" \in Statuses \ {"Unknown"} /\ 0 \in Nat
          BY DEF Statuses
        <4>2. 0 <= venue'[id].traded /\ 0 <= orders[id].volume /\ venue'[id].status # "none"
          BY <1>6, <1>10, <2>2
        <4> QED BY <1>2, <1>3, <3>1, <4>1, <4>2, OrderEventFacts DEF omsVars
      <3>3. PICK events : events = <<e>>
        OBVIOUS
      <3>4. events \in Seq(Event) /\ \A i \in 1..Len(events) : events[i] = e
        BY <3>2, <3>3
      <3>5. Publish(events)
        BY <1>4, <2>2, <3>1, <3>3
      <3>6. LaneTypeOK' /\ EventsInv' /\ Published(events)
        <4>1. \A i \in 1..Len(events) : EventAbout(events[i], id)'
          BY <3>2, <3>4
        <4> QED BY <1>2, <1>3, <1>11, <1>16, <3>4, <3>5, <4>1, PublishFlow DEF TablesKept
      <3> QED BY <2>2, <3>1, <3>3, <3>6
    <2> QED BY <2>1, <2>2
  <1>18. SendsInv'
    <2>1. ASSUME NEW j \in OrderIds
          PROVE  /\ Len(sends'[j]) <= 1
                 /\ sends'[j] # <<>> => Unsendable(j)
                 /\ sends'[j] # <<>> /\ orders[j].state = "SendPending" => j = id
      <3>1. CASE j = id
        <4>1. Len(<<rc>>) = 1
          OBVIOUS
        <4>2. Len(sends'[id]) = 1 /\ 1 <= 1
          BY <1>10, <4>1
        <4>3. Len(sends'[id]) <= 1
          BY <4>2
        <4> QED BY <1>2, <3>1, <4>3
      <3>2. CASE j # id
        BY <1>2, <1>10, <3>2 DEF FlowInv, SendsInv
      <3> QED BY <3>1, <3>2
    <2> QED BY <1>1, <1>3, <1>10, <1>15, <2>1 DEF SendsInv, Unsendable, omsVars
  <1>19. RowsInv' /\ SubmitsInv' /\ ItemsInv' /\ CallsTypeOK'
    BY <1>2, <1>3, <1>15, <1>16, RowsInvKept, SubmitsUntouched, WorkerItems, OthersTyped
    DEF TablesKept, callVars
  <1>20. FlowInv'
    BY <1>9, <1>13, <1>15, <1>16, <1>17, <1>18, <1>19 DEF FlowInv, TablesKept
  <1>21. SendMove(id, rc, taken)
    BY <1>1, <1>2, <1>3, <1>6, <1>7, <1>8, <1>11, <1>12, <1>15, <1>17 DEF SendMove
  <1> QED BY <1>1, <1>20, <1>21

-----------------------------------------------------------------------------
(* The steps of the Lane-T thread.                                         *)

\* An event is about the order that a lookup of its report finds.
LEMMA FindAbout ==
  ASSUME FlowInv, NEW e, NEW id \in OrderIds, EventAbout(e, id)
  PROVE  /\ Present(id) /\ sends[id] # <<>> /\ Unsendable(id)
         /\ Find(e.report.order_id, e.report.client) = id /\ LocalOrder(e.report) = id
  <1>1. Present(id) /\ sends[id] # <<>> /\ Unsendable(id)
    BY VenueFacts DEF EventAbout
  <1>2. orders[id].client \in ClientIds
    BY <1>1 DEF FlowInv, RowsInv
  <1>3. clientIndex[orders[id].client] = id
    BY <1>1, <1>2, IdFacts DEF FlowInv, OmsInv, IndexConsistent
  <1>4. GetOrderByClientId(e.report.client) = id
    BY <1>1, <1>2, <1>3 DEF GetOrderByClientId, EventAbout
  <1>5. e.report.order_id \in {NoId, id} /\ ~Present(NoId)
    BY IdFacts DEF EventAbout, Present
  <1> QED BY <1>1, <1>4, <1>5 DEF Find, LocalOrder

\* The event at the head of the lane is applied to the row it is about.
ReportMove(e, id) ==
  /\ Len(lane) \in Nat \ {0} /\ e = lane[1] /\ e \in Event
  /\ EventAbout(e, id) /\ Present(id)
  /\ UNCHANGED <<callVars, emsVars, extVars>> /\ handler' = <<e>>
  /\ Len(lane') = Len(lane) - 1 /\ \A i \in 1..Len(lane') : lane'[i] = lane[i + 1]
  /\ TablesKept /\ NoNewRows /\ \A j \in OrderIds \ {id} : orders'[j] = orders[j]
  /\ \/ /\ e.kind = "order" /\ applied' = applied
        /\ orders'[id] = Merged(orders[id], e.report)
     \/ /\ e.kind = "trade" /\ TradeAccepted(id, e.report)
        /\ applied' = applied \cup {e.report.key}
        /\ orders'[id] = Traded(orders[id], e.report)
     \/ e.kind = "trade" /\ ~TradeAccepted(id, e.report) /\ UNCHANGED omsVars

LEMMA HandleTables ==
  ASSUME FlowInv, HandleReport, NEW e \in Event, e = Head(lane),
         NEW id \in OrderIds, EventAbout(e, id)
  PROVE  /\ TablesKept /\ NoNewRows /\ \A j \in OrderIds \ {id} : orders'[j] = orders[j]
         /\ \/ /\ e.kind = "order" /\ applied' = applied
               /\ orders'[id] = Merged(orders[id], e.report)
            \/ /\ e.kind = "trade" /\ TradeAccepted(id, e.report)
               /\ applied' = applied \cup {e.report.key}
               /\ orders'[id] = Traded(orders[id], e.report)
            \/ e.kind = "trade" /\ ~TradeAccepted(id, e.report) /\ UNCHANGED omsVars
  <1>1. /\ Present(id) /\ Find(e.report.order_id, e.report.client) = id /\ id # NoId
        /\ orders[id] \in Entry /\ orders[id].state \in Lifecycle
    BY FindAbout, RowTyped, IdFacts DEF FlowInv
  <1>2. CASE e.kind = "order"
    <2> DEFINE new == Merged(orders[id], e.report)
    <2>1. orders' = [orders EXCEPT ![id] = new] /\ OnlyOrders
      BY <1>1, <1>2 DEF HandleReport, ApplyOrderReport
    <2>2. /\ e.report \in OrderReport /\ e.report.volume = orders[id].volume
          /\ e.report.status # "Unknown"
      BY <1>2 DEF EventAbout, Event
    <2>3. RowKept(orders[id], new)
      BY <1>1, <2>2, MergedKept
    <2>4. OtherTablesTyped
      BY <2>1 DEF FlowInv, OmsInv, TypeOK, OnlyOrders, OtherTablesTyped
    <2> HIDE DEF new
    <2>5. OneRowChanges(id, new)
      BY <1>1, <2>1, <2>3, <2>4, OneRowKept DEF FlowInv, OnlyOrders
    <2> QED BY <1>2, <2>1, <2>5 DEF OneRowChanges, OnlyOrders, new
  <1>3. CASE e.kind = "trade" /\ TradeAccepted(id, e.report)
    <2> DEFINE new == Traded(orders[id], e.report)
    <2>1. /\ orders' = [orders EXCEPT ![id] = new] /\ applied' = applied \cup {e.report.key}
          /\ UNCHANGED <<initialized, counter, clientIndex, reconciled>>
      BY <1>1, <1>3 DEF HandleReport, ApplyTradeReport
    <2>2. /\ e.report \in TradeReport /\ e.report.volume \in Nat /\ e.report.key \in TradeKeys
          /\ CanTransition(orders[id].state, TradeState(orders[id], e.report))
      BY <1>3 DEF TradeAccepted, Event, TradeReport
    <2>3. RowKept(orders[id], new)
      BY <1>1, <2>2, TradedKept
    <2>4. OtherTablesTyped
      BY <2>1, <2>2 DEF FlowInv, OmsInv, TypeOK, OtherTablesTyped
    <2> HIDE DEF new
    <2>5. OneRowChanges(id, new)
      BY <1>1, <2>1, <2>3, <2>4, OneRowKept DEF FlowInv
    <2> QED BY <1>3, <2>1, <2>5 DEF OneRowChanges, new
  <1>4. CASE e.kind = "trade" /\ ~TradeAccepted(id, e.report)
    <2>1. UNCHANGED omsVars
      BY <1>1, <1>4 DEF HandleReport, ApplyTradeReport
    <2> QED BY <1>4, <2>1, NothingChanges DEF FlowInv, omsVars
  <1> QED BY <1>2, <1>3, <1>4 DEF Event

LEMMA HandleReportFlow ==
  ASSUME FlowInv, HandleReport
  PROVE  FlowInv' /\ \E e \in Event, id \in OrderIds : ReportMove(e, id)
  <1>1. /\ lane # <<>> /\ lane' = Tail(lane) /\ handler = <<>> /\ handler' = <<Head(lane)>>
        /\ UNCHANGED <<callVars, emsVars, extVars>>
    BY DEF HandleReport
  <1>2. lane \in Seq(Event) /\ Len(lane) <= LaneCapacity
    BY DEF FlowInv, LaneTypeOK
  <1>3. /\ Len(lane) \in Nat \ {0} /\ Head(lane) = lane[1] /\ Head(lane) \in Event
        /\ lane' \in Seq(Event) /\ Len(lane') = Len(lane) - 1
        /\ \A i \in 1..Len(lane') : lane'[i] = lane[i + 1]
    <2>1. Len(lane) \in Nat /\ Len(lane) # 0 /\ Head(lane) = lane[1]
      BY <1>1, <1>2
    <2> QED BY <1>1, <1>2, <2>1, HeadTailProperties
  <1>4. PICK e \in Event : e = Head(lane)
    BY <1>3
  <1>5. PICK id \in OrderIds : EventAbout(e, id)
    BY <1>3, <1>4 DEF FlowInv, EventsInv
  <1>6. ReportMove(e, id)
    BY <1>1, <1>3, <1>4, <1>5, HandleTables, FindAbout DEF ReportMove
  <1>7. TablesKept /\ NoNewRows /\ VenueGrows
    BY <1>1, <1>6, VenueStays DEF ReportMove, extVars
  <1>8. EventsInv'
    <2>1. ASSUME NEW i \in 1..Len(lane')
          PROVE  \E j \in OrderIds : EventAbout(lane[i], j)'
      <3>1. i + 1 \in 1..Len(lane) /\ lane'[i] = lane[i + 1]
        BY <1>3
      <3>2. PICK f \in Event : f = lane[i + 1]
        BY <1>2, <3>1, ElementOfSeq
      <3>3. PICK j \in OrderIds : EventAbout(f, j)
        BY <3>1, <3>2 DEF FlowInv, EventsInv
      <3>4. EventAbout(f, j)'
        BY <1>7, <3>3, EventKept DEF TablesKept
      <3> QED BY <3>1, <3>2, <3>4 DEF EventAbout
    <2>2. EventAbout(e, id)'
      BY <1>5, <1>7, EventKept DEF TablesKept
    <2>3. EventAbout(handler[1], id)'
      BY <1>1, <1>4, <2>2 DEF EventAbout
    <2> QED BY <2>1, <2>3 DEF EventsInv
  <1>9. LaneTypeOK'
    <2>1. <<e>> \in Seq(Event) /\ Len(<<e>>) = 1
      OBVIOUS
    <2>2. Len(lane') <= LaneCapacity
      BY <1>2, <1>3, FlowAssumption
    <2> QED BY <1>1, <1>3, <1>4, <2>1, <2>2 DEF LaneTypeOK
  <1>10. RowsInv' /\ SendsInv' /\ VenueInv'
    BY <1>1, <1>7, RowsInvKept, SendsKept, VenueKept DEF TablesKept, emsVars, extVars
  <1>11. SubmitsInv' /\ ItemsInv' /\ CallsTypeOK' /\ EmsTypeOK' /\ ExtTypeOK'
    BY <1>1, <1>7, SubmitsUntouched, ItemsKept, OthersTyped DEF callVars, emsVars, extVars
  <1>12. FlowInv'
    BY <1>7, <1>8, <1>9, <1>10, <1>11 DEF FlowInv, TablesKept
  <1> QED BY <1>6, <1>12

\* The second half of a handler: at most a reservation is released.
FinishMove(e, id) ==
  /\ UNCHANGED <<omsVars, callVars, emsVars, sends, venue, lane>>
  /\ e \in Event /\ EventAbout(e, id) /\ Present(id) /\ sends[id] # <<>>
  /\ reservation' = [reservation EXCEPT ![id] = "released"] \/ reservation' = reservation
  /\ reservation' # reservation =>
       IF e.kind = "order" THEN e.report.status \in {"Rejected", "Canceled"}
                           ELSE orders[id].status = "Filled"

LEMMA FinishReportFlow ==
  ASSUME FlowInv, FinishReport
  PROVE  FlowInv' /\ \E e \in Event, id \in OrderIds : FinishMove(e, id)
  <1>1. /\ handler # <<>> /\ handler' = <<>>
        /\ UNCHANGED <<omsVars, callVars, emsVars, lane>>
    BY DEF FinishReport
  <1>2. PICK e \in Event : e = handler[1]
    BY <1>1 DEF FlowInv, LaneTypeOK
  <1>3. PICK id \in OrderIds : EventAbout(e, id)
    BY <1>1, <1>2 DEF FlowInv, EventsInv
  <1>4. Present(id) /\ sends[id] # <<>> /\ LocalOrder(e.report) = id
    BY <1>3, FindAbout
  <1>5. \/ UNCHANGED extVars
        \/ ReleasesReservation(e) /\ SetReservation(id, "released")
    BY <1>2, <1>4 DEF FinishReport
  <1>6. /\ UNCHANGED <<sends, venue>> /\ ExtTypeOK'
    BY <1>5, OthersTyped, ReservationTyped DEF SetReservation, extVars
  <1>7. FinishMove(e, id)
    BY <1>1, <1>3, <1>4, <1>5, <1>6
    DEF FinishMove, ReleasesReservation, SetReservation, extVars
  <1>8. TablesKept /\ NoNewRows /\ VenueGrows
    BY <1>1, <1>6, NothingChanges, VenueStays DEF FlowInv
  <1>9. RowsInv' /\ SendsInv' /\ VenueInv' /\ SubmitsInv' /\ ItemsInv'
    BY <1>1, <1>6, <1>8, RowsInvKept, SendsKept, VenueKept, SubmitsUntouched, ItemsKept
    DEF TablesKept, callVars, emsVars
  <1>10. CallsTypeOK' /\ EmsTypeOK'
    BY <1>1, OthersTyped
  <1>11. LaneTypeOK' /\ EventsInv'
    <2>1. handler' \in Seq(Event) /\ Len(handler') = 0
      BY <1>1
    <2>2. LaneTypeOK'
      BY <1>1, <2>1 DEF FlowInv, LaneTypeOK
    <2>3. ASSUME NEW i \in 1..Len(lane)
          PROVE  \E j \in OrderIds : EventAbout(lane[i], j)'
      <3>1. PICK f \in Event : f = lane[i]
        BY ElementOfSeq DEF FlowInv, LaneTypeOK
      <3>2. PICK j \in OrderIds : EventAbout(f, j)
        BY <3>1 DEF FlowInv, EventsInv
      <3>3. EventAbout(f, j)'
        BY <1>8, <3>2, EventKept DEF TablesKept
      <3> QED BY <1>1, <3>1, <3>3 DEF EventAbout
    <2> QED BY <1>1, <2>2, <2>3 DEF EventsInv
  <1> QED BY <1>6, <1>7, <1>8, <1>9, <1>10, <1>11 DEF FlowInv, TablesKept

-----------------------------------------------------------------------------
(* What holds for all callers.                                             *)

LEMMA FlowInitially == FlowInit => FlowInv
  <1> SUFFICES ASSUME FlowInit PROVE FlowInv
    OBVIOUS
  <1>1. OmsInv /\ initialized
    <2>1. /\ initialized = TRUE /\ counter = 0 /\ applied = {} /\ reconciled = {}
          /\ orders = [id \in OrderIds |-> Absent]
          /\ clientIndex = [c \in ClientIds |-> NoId]
      BY DEF FlowInit, EmptyTables
    <2>2. Absent \in Entry /\ Absent.state = "Absent" /\ Absent.client = NoClient
      BY DEF Absent, Entry, Statuses
    <2>3. TypeOK
      <3>1. counter \in 0..MaxOrders
        BY <2>1, ConstantsAssumption
      <3> QED BY <2>1, <2>2, <3>1 DEF TypeOK
    <2>4. \A id : ~Present(id)
      BY <2>1, <2>2 DEF Present
    <2> QED BY <2>1, <2>2, <2>3, <2>4
            DEF OmsInv, IndexConsistent, AllocatedBeforeUse, AbsentOwnsNothing
  <1>2. \A id : ~Present(id)
    BY DEF FlowInit, EmptyTables, Present, Absent
  <1>3. /\ \A s \in Submissions : submit[s].pc = "admit"
        /\ \A k \in Cancellations : cancel[k].pc = "lookup"
        /\ worker.pc = "idle" /\ queue = <<>> /\ lane = <<>> /\ handler = <<>>
        /\ \A id \in OrderIds : sends[id] = <<>> /\ venue[id].status = "none"
                                /\ venue[id].traded = 0
    BY DEF FlowInit
  <1>4. CallsTypeOK
    BY DEF FlowInit, CallsTypeOK, SubmitPcs, CancelPcs, ErrorCodes
  <1>5. EmsTypeOK
    <2>1. NoItem \in Item
      BY DEF NoItem, SendItem, Item
    <2>2. queue \in Seq(Item) /\ Len(queue) = 0
      BY <1>3
    <2>3. worker \in [pc : WorkerPcs, item : Item, rc : ErrorCodes]
      BY <2>1 DEF FlowInit, WorkerPcs, ErrorCodes
    <2> QED BY <2>2, <2>3, FlowAssumption DEF FlowInit, EmsTypeOK
  <1>6. ExtTypeOK
    <2>1. sends \in [OrderIds -> Seq(Results)]
      BY DEF FlowInit
    <2> QED BY <2>1 DEF FlowInit, ExtTypeOK
  <1>7. LaneTypeOK
    BY <1>3, FlowAssumption DEF LaneTypeOK
  <1>8. RowsInv /\ SubmitsInv /\ ItemsInv
    BY <1>2, <1>3 DEF RowsInv, SubmitsInv, ItemsInv, Preparing, Holding
  <1>9. SendsInv
    BY <1>3 DEF SendsInv
  <1>10. VenueInv /\ EventsInv
    BY <1>3 DEF VenueInv, EventsInv
  <1> QED BY <1>1, <1>4, <1>5, <1>6, <1>7, <1>8, <1>9, <1>10 DEF FlowInv

LEMMA VenueFlow ==
  ASSUME FlowInv, NEW id \in OrderIds, Venue(id)
  PROVE  FlowInv' /\ UNCHANGED omsVars
  BY VenueFillFlow, VenueCancelFlow, VenueRejectFlow, VenueRepeatFlow DEF Venue, VenueMove

LEMMA FlowStep ==
  FlowInv /\ [FlowNext]_vars => FlowInv' /\ TablesKept
  <1> SUFFICES ASSUME FlowInv, [FlowNext]_vars PROVE FlowInv' /\ TablesKept
    OBVIOUS
  <1>0. OmsInv
    BY DEF FlowInv
  <1>1. CASE \E s \in Submissions : Submit(s)
    BY <1>1, SubmitFlow DEF CallerStep
  <1>2. CASE \E k \in Cancellations : Cancel(k)
    BY <1>2, CancelFlow DEF CallerStep
  <1>3. CASE StopEms
    BY <1>3, StopFlow DEF CallerStep
  <1>4. CASE Worker
    <2>1. CASE WorkerSend
      BY <1>0, <2>1, WorkerSendFlow, NothingChanges DEF SendMove
    <2>2. CASE ~WorkerSend
      BY <1>4, <2>2, WorkerTakeFlow, WorkerMarkFlow, WorkerRefusedFlow, WorkerRecordSendFlow,
         WorkerReleaseFlow, WorkerCancelFlow, WorkerRecordCancelFlow DEF Worker, InnerStep
    <2> QED BY <2>1, <2>2
  <1>5. CASE \E id \in OrderIds : Venue(id)
    BY <1>0, <1>5, VenueFlow, NothingChanges
  <1>6. CASE HandleReport
    BY <1>6, HandleReportFlow DEF ReportMove
  <1>7. CASE FinishReport
    BY <1>0, <1>7, FinishReportFlow, NothingChanges DEF FinishMove
  <1>8. CASE UNCHANGED vars
    <2>1. UNCHANGED <<omsVars, submit, cancel, emsRunning, queue, worker, sends, venue, lane,
                      handler, reservation>>
      BY <1>8 DEF vars, callVars, emsVars, extVars, laneVars
    <2>2. TablesKept /\ NoNewRows /\ VenueGrows
      BY <1>0, <2>1, NothingChanges, VenueStays
    <2>3. RowsInv' /\ SendsInv' /\ VenueInv' /\ SubmitsInv' /\ ItemsInv' /\ EventsInv'
      BY <2>1, <2>2, RowsInvKept, SendsKept, VenueKept, SubmitsUntouched, ItemsKept, EventsKept
      DEF TablesKept
    <2>4. CallsTypeOK' /\ EmsTypeOK' /\ ExtTypeOK' /\ LaneTypeOK'
      BY <2>1, OthersTyped DEF callVars, emsVars
    <2> QED BY <2>2, <2>3, <2>4 DEF FlowInv, TablesKept
  <1> QED BY <1>1, <1>2, <1>3, <1>4, <1>5, <1>6, <1>7, <1>8 DEF FlowNext, LaneThread

\* The inductive invariant: whatever the callers, the worker, the venue and the
\* lane thread do, a call in progress owns its identifier, what is queued has a
\* row, a sent row is past sending, and an event is about an order the venue has.
THEOREM FlowInvariant == FlowSpec => []FlowInv
  BY FlowInitially, FlowStep, PTL DEF FlowSpec

\* The composition keeps its types, and the queue and Lane-T their capacities.
THEOREM FlowTypeCorrect == FlowSpec => []FlowTypeOK
  <1>1. FlowInv => FlowTypeOK
    BY DEF FlowInv, OmsInv, FlowTypeOK
  <1> QED BY <1>1, FlowInvariant, PTL

\* A client_order_id is sent to the venue at most once, however many Submit
\* calls carry it and however they, the queue and cancellations interleave.
THEOREM SentAtMostOnce == FlowSpec => []AtMostOneSend
  <1>1. FlowInv => AtMostOneSend
    <2> SUFFICES ASSUME FlowInv, NEW i \in OrderIds, NEW j \in OrderIds,
                        Present(i), Present(j), orders[i].client = orders[j].client,
                        sends[i] # <<>>, sends[j] # <<>>
                 PROVE  i = j /\ Len(sends[i]) = 1
      BY DEF AtMostOneSend
    <2>1. orders[i].client \in ClientIds /\ NoClient \notin ClientIds
      BY IdFacts DEF FlowInv, RowsInv
    <2>2. i = j
      BY <2>1 DEF FlowInv, OmsInv, IndexConsistent
    <2>3. Len(sends[i]) \in Nat /\ Len(sends[i]) # 0 /\ Len(sends[i]) <= 1
      <3>1. sends[i] \in Seq(Results)
        BY DEF FlowInv, ExtTypeOK
      <3> QED BY <3>1, EmptySeq DEF FlowInv, SendsInv
    <2>4. \A n \in Nat : n # 0 /\ n <= 1 => n = 1
      OBVIOUS
    <2> QED BY <2>2, <2>3, <2>4
  <1> QED BY <1>1, FlowInvariant, PTL

\* In the running engine too no step takes a terminal order out of its final
\* state, or a sent one back to where it would be sent again.
THEOREM NothingRegressesInFlow == FlowSpec => NoRegression
  <1>1. FlowInv /\ [FlowNext]_vars => [NoRegressionStep]_omsVars
    BY FlowStep DEF TablesKept, GoodStep
  <1> QED BY <1>1, FlowInvariant, PTL DEF FlowSpec, NoRegression

-----------------------------------------------------------------------------
(* Who may send an order, when no two Submit calls share a client.         *)

Early == {"admit", "allocate"} \cup Preparing

\* Two Submits never prepare or hold the same order.
LEMMA HoldersDiffer ==
  ASSUME FlowInv, RightsInv, NEW s \in Submissions, NEW t \in Submissions, s # t
  PROVE  /\ submit[s].pc \in Preparing /\ submit[t].pc \in Preparing =>
              submit[s].oid # submit[t].oid
         /\ submit[s].pc \in Holding /\ submit[t].pc \in Holding =>
              submit[s].cid # submit[t].cid
         /\ submit[s].pc \in Preparing /\ submit[t].pc \in Holding =>
              submit[s].oid # submit[t].cid
  BY DEF FlowInv, SubmitsInv, RightsInv, ClientsDistinct, Present

\* What has no row yet is neither queued nor with the worker.
LEMMA AbsentIsFree ==
  ASSUME FlowInv, NEW id \in OrderIds, ~Present(id)
  PROVE  Unsent(id) /\ ~WorkerHas(id) /\ ~Queued(id)
  BY DEF FlowInv, SendsInv, ItemsInv, Unsendable, Present, Unsent, WorkerHas, Queued

\* Nobody relies on these orders, so their reservations may be given back.
LEMMA NotRelied ==
  ASSUME FlowInv, RightsInv
  PROVE  /\ \A s \in Submissions : submit[s].pc \in {"reserve", "query"} =>
              ~Relied(submit[s].oid)
         /\ \A s \in Submissions : submit[s].pc = "release" => ~Relied(submit[s].cid)
         /\ worker.pc = "release" => ~Relied(worker.item.id)
         /\ \A id \in OrderIds : ~Unsent(id) => ~Relied(id)
  <1>1. ASSUME NEW s \in Submissions, submit[s].pc \in {"reserve", "query"}
        PROVE  ~Relied(submit[s].oid)
    <2>1. /\ submit[s].pc \in Preparing /\ submit[s].oid \in OrderIds
          /\ ~Present(submit[s].oid)
      BY <1>1, IdFacts DEF Preparing, FlowInv, SubmitsInv, Present
    <2>2. \A t \in Submissions : ~SubmitRelies(t, submit[s].oid)
      BY <1>1, <2>1, HoldersDiffer DEF SubmitRelies, Preparing, Holding
    <2>3. ~Queued(submit[s].oid) /\ ~WorkerHas(submit[s].oid)
      BY <2>1, AbsentIsFree
    <2> QED BY <2>2, <2>3 DEF Relied, WorkerHas
  <1>2. ASSUME NEW s \in Submissions, submit[s].pc = "release"
        PROVE  ~Relied(submit[s].cid)
    <2>1. submit[s].pc \in Holding /\ Present(submit[s].cid)
      BY <1>2 DEF Holding, FlowInv, SubmitsInv
    <2>2. \A t \in Submissions : ~SubmitRelies(t, submit[s].cid)
      BY <1>2, <2>1, HoldersDiffer DEF SubmitRelies, Preparing, Holding
    <2>3. ~Queued(submit[s].cid) /\ ~WorkerHas(submit[s].cid)
      BY <2>1 DEF RightsInv, HeldBySubmit
    <2> QED BY <2>2, <2>3 DEF Relied, WorkerHas
  <1>3. ASSUME worker.pc = "release"
        PROVE  ~Relied(worker.item.id)
    <2>1. WorkerHas(worker.item.id) /\ Present(worker.item.id)
      BY <1>3 DEF WorkerHas, FlowInv, ItemsInv
    <2>2. \A t \in Submissions : ~SubmitRelies(t, worker.item.id)
      <3> SUFFICES ASSUME NEW t \in Submissions, SubmitRelies(t, worker.item.id)
                   PROVE  FALSE
        OBVIOUS
      <3>1. CASE submit[t].pc = "create" /\ submit[t].oid = worker.item.id
        BY <2>1, <3>1 DEF FlowInv, SubmitsInv, Preparing, Present
      <3>2. CASE submit[t].pc \in {"check", "mark", "enqueue"} /\ submit[t].cid = worker.item.id
        BY <2>1, <3>2 DEF RightsInv, HeldBySubmit, Holding
      <3> QED BY <3>1, <3>2 DEF SubmitRelies
    <2>3. ~Queued(worker.item.id)
      BY <2>1 DEF RightsInv, HeldByQueue, Queued
    <2> QED BY <1>3, <2>2, <2>3 DEF Relied
  <1>4. ASSUME NEW id \in OrderIds, ~Unsent(id)
        PROVE  ~Relied(id)
    <2>1. Present(id)
      BY <1>4 DEF FlowInv, SendsInv, Unsent, Unsendable, Present
    <2>2. \A t \in Submissions : ~SubmitRelies(t, id)
      BY <1>4, <2>1 DEF SubmitRelies, FlowInv, SubmitsInv, Preparing, Holding, Present,
                        RightsInv, HeldBySubmit
    <2>3. ~Queued(id)
      BY <1>4 DEF RightsInv, HeldByQueue, Queued
    <2>4. ~(worker.pc \in {"mark", "send"} /\ worker.item.id = id)
      BY <1>4 DEF RightsInv, HeldByWorker
    <2> QED BY <2>2, <2>3, <2>4 DEF Relied
  <1> QED BY <1>1, <1>2, <1>3, <1>4

LEMMA CancelsKept ==
  ASSUME FlowInv, RightsInv, RowsKept,
         \A k \in Cancellations : cancel'[k].pc \in {"enqueue", "undo"} =>
           cancel[k].pc \in {"enqueue", "undo"} /\ cancel'[k].id = cancel[k].id
  PROVE  AcceptedCancels'
  <1> SUFFICES ASSUME NEW k \in Cancellations, cancel'[k].pc \in {"enqueue", "undo"}
               PROVE  orders'[cancel'[k].id].state \notin PreSend \cup {"SendPending"}
    BY DEF AcceptedCancels
  <1>1. PICK id : id = cancel[k].id
    OBVIOUS
  <1>2. /\ Present(id) /\ orders[id].state \notin PreSend \cup {"SendPending"}
        /\ cancel'[k].id = id
    BY <1>1 DEF FlowInv, ItemsInv, RightsInv, AcceptedCancels
  <1>3. RowKept(orders[id], orders'[id])
    BY <1>2 DEF RowsKept, Present
  <1> QED BY <1>2, <1>3 DEF RowKept, RowStep, PreSend

\* A step of a Submit that neither makes a row nor queues it, or of nobody who
\* has the right: the queue, the worker and the sends stay as they are.
LEMMA RightsFrame ==
  ASSUME FlowInv, RightsInv, TablesKept, NoNewRows,
         UNCHANGED <<cancel, queue, worker, sends>>,
         \A s \in Submissions :
           /\ submit'[s].pc \in Early => submit[s].pc \in Early
           /\ submit'[s].pc \in Holding =>
                submit[s].pc \in Holding /\ submit'[s].cid = submit[s].cid
           /\ \A id \in OrderIds :
                SubmitRelies(s, id)' => SubmitRelies(s, id) \/ Covered(id)',
         \A id \in OrderIds : Relied(id) => reservation'[id] = reservation[id],
         worker.pc = "send" => orders'[worker.item.id] = orders[worker.item.id]
  PROVE  RightsInv'
  <1>1. ASSUME NEW id
        PROVE  /\ WorkerHas(id)' <=> WorkerHas(id)
               /\ Queued(id)' <=> Queued(id)
               /\ Unsent(id)' <=> Unsent(id)
    BY DEF WorkerHas, Queued, Unsent
  <1>2. ReservationsHeld'
    <2> SUFFICES ASSUME NEW id \in OrderIds, Relied(id)' PROVE Covered(id)'
      BY DEF ReservationsHeld
    <2>1. Relied(id) \/ Covered(id)'
      BY <1>1 DEF Relied
    <2> QED BY <2>1 DEF RightsInv, ReservationsHeld, Covered
  <1>3. ASSUME NEW s \in Submissions, submit'[s].pc \in Early,
               NEW id \in OrderIds, Present(id)'
        PROVE  orders'[id].client # ClientOf[s]
    <2>1. Present(id)
      BY <1>3 DEF NoNewRows
    <2>2. orders[id].client # ClientOf[s]
      BY <1>3, <2>1 DEF RightsInv, HeldBySubmit, Early
    <2> QED BY <2>1, <2>2, RowsStay DEF FlowInv, TablesKept
  <1>4. ASSUME NEW s \in Submissions, submit'[s].pc \in Holding
        PROVE  /\ sends'[submit'[s].cid] = <<>>
               /\ ~WorkerHas(submit[s].cid) /\ ~Queued(submit[s].cid)
               /\ submit'[s].cid = submit[s].cid
    BY <1>4 DEF RightsInv, HeldBySubmit, Unsent
  <1>5. HeldBySubmit'
    BY <1>3, <1>4 DEF HeldBySubmit, Early, Unsent, WorkerHas, Queued
  <1>6. HeldByQueue'
    BY DEF RightsInv, HeldByQueue, Unsent, WorkerHas
  <1>7. HeldByWorker'
    BY DEF RightsInv, HeldByWorker, Unsent
  <1>8. AcceptedCancels'
    BY CancelsKept DEF TablesKept
  <1> QED BY <1>2, <1>5, <1>6, <1>7, <1>8 DEF RightsInv, ClientsDistinct

LEMMA ReservationMoves ==
  ASSUME FlowInv, NEW id \in OrderIds, ~Relied(id), NEW v, SetReservation(id, v)
  PROVE  /\ \A j \in OrderIds : Relied(j) => reservation'[j] = reservation[j]
         /\ reservation'[id] = v /\ sends' = sends
  BY DEF FlowInv, ExtTypeOK, SetReservation

\* A step of one Submit that keeps its order.
LEMMA SubmitRightsFrame ==
  ASSUME FlowInv, RightsInv, TablesKept, NoNewRows,
         UNCHANGED <<cancel, queue, worker, sends>>, NEW s \in Submissions,
         \A t \in Submissions \ {s} : submit'[t] = submit[t],
         submit'[s].pc \in Early => submit[s].pc \in Early,
         submit'[s].pc \in Holding =>
           submit[s].pc \in Holding /\ submit'[s].cid = submit[s].cid,
         submit'[s].pc = "create" => reservation'[submit'[s].oid] = "reserved",
         submit'[s].pc \in {"check", "mark", "enqueue"} =>
           submit[s].pc \in {"check", "mark", "enqueue"},
         \A id \in OrderIds : Relied(id) => reservation'[id] = reservation[id],
         worker.pc = "send" => orders'[worker.item.id] = orders[worker.item.id]
  PROVE  RightsInv'
  <1>1. ASSUME NEW t \in Submissions
        PROVE  /\ submit'[t].pc \in Early => submit[t].pc \in Early
               /\ submit'[t].pc \in Holding =>
                    submit[t].pc \in Holding /\ submit'[t].cid = submit[t].cid
               /\ \A id \in OrderIds :
                    SubmitRelies(t, id)' => SubmitRelies(t, id) \/ Covered(id)'
    <2>1. CASE t = s
      BY <2>1 DEF SubmitRelies, Covered, Holding
    <2>2. CASE t # s
      <3>1. submit'[t] = submit[t]
        BY <2>2
      <3> QED BY <3>1 DEF SubmitRelies
    <2> QED BY <2>1, <2>2
  <1> QED BY <1>1, RightsFrame

\* A submit step of the two usual kinds, with nothing else changed but perhaps a
\* reservation nobody relies on.
LEMMA SubmitPcRights ==
  ASSUME FlowInv, RightsInv, NEW s \in Submissions, NEW from, NEW to, NEW rc,
         SubmitStep(s, from, to) \/ (to = "done" /\ SubmitReturns(s, from, rc)),
         TablesKept, NoNewRows, UNCHANGED <<queue, worker, sends>>,
         to \in Early => from \in Early, to \in Holding => from \in Holding,
         to = "create" => reservation'[submit[s].oid] = "reserved",
         to \in {"check", "mark", "enqueue"} => from \in {"check", "mark", "enqueue"},
         \A id \in OrderIds : Relied(id) => reservation'[id] = reservation[id],
         worker.pc = "send" => orders'[worker.item.id] = orders[worker.item.id]
  PROVE  RightsInv'
  <1>1. submit \in [Submissions -> [pc : SubmitPcs, oid : OrderIds \cup {NoId},
                                    cid : OrderIds \cup {NoId}, rc : ErrorCodes]]
    BY DEF FlowInv, CallsTypeOK
  <1>2. /\ submit[s].pc = from /\ submit'[s].pc = to /\ submit'[s].oid = submit[s].oid
        /\ submit'[s].cid = submit[s].cid /\ cancel' = cancel
        /\ \A t \in Submissions \ {s} : submit'[t] = submit[t]
    BY <1>1 DEF SubmitStep, SubmitReturns
  <1> QED BY <1>2, SubmitRightsFrame

LEMMA SubmitRights ==
  ASSUME FlowInv, RightsInv, NEW s \in Submissions, Submit(s), ~Create(s), ~Enqueue(s)
  PROVE  RightsInv'
  <1> USE DEF Early, Preparing, Holding
  <1>0. OmsInv
    BY DEF FlowInv
  <1>1. CASE Admit(s)
    <2>1. TablesKept /\ NoNewRows /\ UNCHANGED <<orders, queue, worker, sends, reservation>>
      BY <1>0, <1>1, NothingChanges DEF Admit, emsVars, extVars, omsVars
    <2>2. \/ SubmitReturns(s, "admit", "SystemError") \/ SubmitReturns(s, "admit", "Success")
          \/ SubmitStep(s, "admit", "allocate")
      BY <1>1 DEF Admit
    <2> QED BY <2>1, <2>2, SubmitPcRights
  <1>2. CASE Allocate(s)
    <2>1. TablesKept /\ NoNewRows /\ orders' = orders
      BY <1>0, <1>2, AllocateTables DEF Allocate
    <2>2. /\ submit[s].pc = "allocate" /\ submit'[s].pc = "reserve"
          /\ \A t \in Submissions \ {s} : submit'[t] = submit[t]
          /\ UNCHANGED <<cancel, queue, worker, sends, reservation>>
      BY <1>2 DEF Allocate, FlowInv, CallsTypeOK, emsVars, extVars
    <2> QED BY <2>1, <2>2, SubmitRightsFrame
  <1>3. CASE Reserve(s)
    <2>1. TablesKept /\ NoNewRows /\ UNCHANGED <<orders, queue, worker>>
      BY <1>0, <1>3, NothingChanges DEF Reserve, emsVars, omsVars
    <2>2. submit[s].pc = "reserve"
      BY <1>3 DEF Reserve, SubmitStep, SubmitReturns
    <2>3. submit[s].oid \in OrderIds /\ ~Relied(submit[s].oid)
      BY <2>2, NotRelied, IdFacts DEF FlowInv, SubmitsInv
    <2>4. CASE SubmitStep(s, "reserve", "create") /\ SetReservation(submit[s].oid, "reserved")
      <3> DEFINE id == submit[s].oid
      <3>1. /\ \A j \in OrderIds : Relied(j) => reservation'[j] = reservation[j]
            /\ reservation'[id] = "reserved" /\ sends' = sends
        <4> HIDE DEF id
        <4> QED BY <2>3, <2>4, ReservationMoves DEF id
      <3> QED BY <2>1, <2>4, <3>1, SubmitPcRights
    <2>5. CASE SubmitReturns(s, "reserve", "SystemError") /\ UNCHANGED extVars
      BY <2>1, <2>5, SubmitPcRights DEF extVars
    <2>6. CASE /\ SubmitStep(s, "reserve", "query")
               /\ \/ UNCHANGED extVars
                  \/ \E found \in {"reserved", "expired"} : SetReservation(submit[s].oid, found)
      <3>1. /\ \A j \in OrderIds : Relied(j) => reservation'[j] = reservation[j]
            /\ sends' = sends
        BY <2>3, <2>6, ReservationMoves DEF extVars
      <3> QED BY <2>1, <2>6, <3>1, SubmitPcRights
    <2> QED BY <1>3, <2>4, <2>5, <2>6 DEF Reserve
  <1>4. CASE QueryReservation(s)
    <2>1. TablesKept /\ NoNewRows /\ UNCHANGED <<orders, queue, worker, sends, reservation>>
      BY <1>0, <1>4, NothingChanges DEF QueryReservation, emsVars, extVars, omsVars
    <2>2. \/ SubmitReturns(s, "query", "Timeout") \/ SubmitReturns(s, "query", "Success")
          \/ SubmitReturns(s, "query", "SystemError")
          \/ SubmitStep(s, "query", "create") /\ reservation[submit[s].oid] = "reserved"
      BY <1>4 DEF QueryReservation
    <2> QED BY <2>1, <2>2, SubmitPcRights
  <1>5. CASE CheckPrepared(s)
    <2>1. TablesKept /\ NoNewRows /\ UNCHANGED <<orders, queue, worker, sends, reservation>>
      BY <1>0, <1>5, NothingChanges DEF CheckPrepared, emsVars, extVars, omsVars
    <2>2. SubmitStep(s, "check", "mark") \/ SubmitReturns(s, "check", "Success")
      BY <1>5 DEF CheckPrepared
    <2> QED BY <2>1, <2>2, SubmitPcRights
  <1>6. ASSUME submit[s].pc \in Holding, OneRowChanges(submit[s].cid, orders'[submit[s].cid])
        PROVE  worker.pc = "send" => orders'[worker.item.id] = orders[worker.item.id]
    BY <1>6 DEF OneRowChanges, RightsInv, HeldBySubmit, WorkerHas, FlowInv, ItemsInv, Present
  <1>7. CASE Mark(s)
    <2>1. /\ submit[s].pc = "mark" /\ submit'[s].pc \in {"enqueue", "release"}
          /\ submit'[s].cid = submit[s].cid
          /\ \A t \in Submissions \ {s} : submit'[t] = submit[t]
          /\ UNCHANGED <<cancel, queue, worker, sends, reservation>>
      BY <1>7 DEF Mark, FlowInv, CallsTypeOK, emsVars, extVars
    <2>2. Present(submit[s].cid)
      BY <2>1 DEF FlowInv, SubmitsInv
    <2>3. OneRowChanges(submit[s].cid, orders'[submit[s].cid]) /\ TablesKept /\ NoNewRows
      BY <1>0, <1>7, <2>2, RequestTables DEF Mark, MarkEmsQueued, OneRowChanges
    <2> QED BY <1>6, <2>1, <2>3, SubmitRightsFrame
  <1>8. CASE UndoSubmit(s)
    <2>1. /\ SubmitStep(s, "undo", "release") /\ submit[s].pc = "undo"
          /\ UNCHANGED <<queue, worker, sends, reservation>>
      BY <1>8 DEF UndoSubmit, SubmitStep, emsVars, extVars
    <2>2. Present(submit[s].cid)
      BY <2>1 DEF FlowInv, SubmitsInv
    <2>3. OneRowChanges(submit[s].cid, orders'[submit[s].cid]) /\ TablesKept /\ NoNewRows
      BY <1>0, <1>8, <2>2, SendResultTables DEF UndoSubmit, OneRowChanges
    <2> QED BY <1>6, <2>1, <2>3, SubmitPcRights
  <1>9. CASE ReleaseSubmit(s)
    <2>1. /\ SubmitStep(s, "release", "done") /\ submit[s].pc = "release"
          /\ SetReservation(submit[s].cid, "released")
          /\ UNCHANGED <<omsVars, queue, worker>>
      BY <1>9 DEF ReleaseSubmit, SubmitStep, emsVars
    <2>2. submit[s].cid \in OrderIds /\ ~Relied(submit[s].cid)
      BY <2>1, NotRelied DEF FlowInv, SubmitsInv, Present
    <2>3. /\ \A j \in OrderIds : Relied(j) => reservation'[j] = reservation[j]
          /\ sends' = sends
      BY <2>1, <2>2, ReservationMoves
    <2>4. TablesKept /\ NoNewRows /\ orders' = orders
      BY <1>0, <2>1, NothingChanges DEF omsVars
    <2> QED BY <2>1, <2>3, <2>4, SubmitPcRights
  <1> QED BY <1>1, <1>2, <1>3, <1>4, <1>5, <1>7, <1>8, <1>9 DEF Submit

LEMMA CreateRights ==
  ASSUME FlowInv, RightsInv, NEW s \in Submissions, Create(s)
  PROVE  RightsInv'
  <1>1. PICK id : id = submit[s].oid
    OBVIOUS
  <1>2. /\ submit[s].pc = "create" /\ id \in LocalIds /\ id <= counter /\ id \in OrderIds
        /\ ~Present(id)
        /\ UNCHANGED <<cancel, emsVars, extVars, laneVars>>
    BY <1>1, IdFacts DEF Create, FlowInv, SubmitsInv, Preparing, Present
  <1>3. PICK v \in Volumes :
          /\ CreateOrder(Req(s, v), id)
          /\ submit' = [submit EXCEPT ![s].pc = "check", ![s].cid = CreateResult(Req(s, v), id)]
    BY <1>1 DEF Create
  <1>4. PICK made : made = CreateResult(Req(s, v), id)
    OBVIOUS
  <1>5. RowMade(s, id, made)
    BY <1>2, <1>3, <1>4, CreateTables DEF FlowInv
  <1>6. GetOrderByClientId(ClientOf[s]) = NoId
    <2> SUFFICES ASSUME ClientOf[s] \in ClientIds, Present(clientIndex[ClientOf[s]])
                 PROVE  FALSE
      BY DEF GetOrderByClientId
    <2>1. orders[clientIndex[ClientOf[s]]].client = ClientOf[s]
      BY IdFacts DEF FlowInv, OmsInv, IndexConsistent, Present
    <2> QED BY <1>2, <2>1 DEF RightsInv, HeldBySubmit, Preparing, Present
  <1>7. /\ made = id /\ orders'[id].client = ClientOf[s] /\ TablesKept
        /\ \A j \in OrderIds \ {id} : orders'[j] = orders[j]
    BY <1>5, <1>6 DEF RowMade
  <1>8. /\ submit'[s].pc = "check" /\ submit'[s].cid = id
        /\ \A t \in Submissions \ {s} : submit'[t] = submit[t]
    BY <1>3, <1>4, <1>7 DEF FlowInv, CallsTypeOK
  <1>9. UNCHANGED <<cancel, queue, worker, sends, reservation>>
    BY <1>2 DEF emsVars, extVars
  <1>10. Unsent(id) /\ ~WorkerHas(id) /\ ~Queued(id)
    BY <1>2, AbsentIsFree
  <1>11. ReservationsHeld'
    <2>1. ASSUME NEW j \in OrderIds, Relied(j)' PROVE Relied(j)
      <3>1. \A t \in Submissions : SubmitRelies(t, j)' => SubmitRelies(t, j)
        BY <1>1, <1>2, <1>8 DEF SubmitRelies
      <3> QED BY <1>9, <2>1, <3>1 DEF Relied, Queued
    <2> QED BY <1>9, <2>1 DEF RightsInv, ReservationsHeld, Covered
  <1>12. HeldBySubmit'
    <2>1. ASSUME NEW t \in Submissions, submit'[t].pc \in Early,
                 NEW j \in OrderIds, orders'[j].state # "Absent"
          PROVE  orders'[j].client # ClientOf[t]
      <3>1. t # s /\ submit[t].pc \in Early
        BY <1>8, <2>1 DEF Early, Preparing
      <3>2. CASE j = id
        BY <1>7, <3>1, <3>2 DEF RightsInv, ClientsDistinct
      <3>3. CASE j # id
        BY <1>7, <2>1, <3>1, <3>3 DEF RightsInv, HeldBySubmit, Early, Present
      <3> QED BY <3>2, <3>3
    <2>2. ASSUME NEW t \in Submissions, submit'[t].pc \in Holding
          PROVE  /\ sends[submit'[t].cid] = <<>>
                 /\ \A j : j = submit'[t].cid => ~WorkerHas(j) /\ ~Queued(j)
      <3>1. CASE t = s
        BY <1>8, <1>10, <3>1 DEF Unsent
      <3>2. CASE t # s
        BY <1>8, <2>2, <3>2 DEF RightsInv, HeldBySubmit, Unsent
      <3> QED BY <3>1, <3>2
    <2> QED BY <1>9, <2>1, <2>2 DEF HeldBySubmit, Early, Present, Unsent, WorkerHas, Queued
  <1>13. HeldByQueue'
    BY <1>9 DEF RightsInv, HeldByQueue, Unsent, WorkerHas
  <1>14. HeldByWorker'
    <2>1. worker.pc = "send" => orders'[worker.item.id] = orders[worker.item.id]
      BY <1>2, <1>7 DEF FlowInv, ItemsInv, Present
    <2> QED BY <1>9, <2>1 DEF RightsInv, HeldByWorker, Unsent
  <1>15. AcceptedCancels'
    BY <1>7, <1>9, CancelsKept DEF TablesKept
  <1> QED BY <1>11, <1>12, <1>13, <1>14, <1>15 DEF RightsInv, ClientsDistinct

LEMMA EnqueueRights ==
  ASSUME FlowInv, RightsInv, NEW s \in Submissions, Enqueue(s)
  PROVE  RightsInv'
  <1>1. PICK id : id = submit[s].cid
    OBVIOUS
  <1>2. /\ submit[s].pc = "enqueue" /\ Present(id) /\ id \in OrderIds
        /\ UNCHANGED <<omsVars, cancel, worker, sends, reservation>>
        /\ Unsent(id) /\ ~WorkerHas(id) /\ ~Queued(id) /\ Relied(id)
    BY <1>1 DEF Enqueue, FlowInv, SubmitsInv, Holding, Present, extVars,
                RightsInv, HeldBySubmit, Relied, SubmitRelies
  <1>3. TablesKept /\ NoNewRows /\ orders' = orders
    BY <1>2, NothingChanges DEF FlowInv, omsVars
  <1>4. /\ submit'[s].pc = IF EnqueueRc = "Success" THEN "done" ELSE "undo"
        /\ submit'[s].cid = id
        /\ \A t \in Submissions \ {s} : submit'[t] = submit[t]
    BY <1>1 DEF Enqueue, FlowInv, CallsTypeOK
  <1>5. CASE EnqueueRc # "Success"
    <2>1. queue' = queue
      BY <1>5 DEF Enqueue
    <2> QED BY <1>1, <1>2, <1>3, <1>4, <1>5, <2>1, SubmitRightsFrame
            DEF Early, Preparing, Holding
  <1>6. CASE EnqueueRc = "Success"
    <2> DEFINE n == Len(queue) + 1
    <2>1. queue' = Append(queue, SendItem(id))
      BY <1>1, <1>6 DEF Enqueue
    <2>2. SendItem(id) \in Item /\ queue \in Seq(Item)
      BY <1>2 DEF SendItem, Item, FlowInv, EmsTypeOK
    <2>3. /\ Len(queue') = n /\ Len(queue) \in Nat /\ queue'[n] = SendItem(id)
          /\ \A i \in 1..Len(queue) : queue'[i] = queue[i]
      BY <2>1, <2>2, AppendProperties, LenProperties
    <2>4. \A i \in 1..Len(queue') : i \in 1..Len(queue) \/ (i = n /\ i \notin 1..Len(queue))
      BY <2>3
    <2>5. \A j : Queued(j)' <=> (Queued(j) \/ j = id)
      <3>1. SendItem(id).type = "Send" /\ SendItem(id).id = id
        BY DEF SendItem
      <3>2. n \in 1..Len(queue')
        BY <2>3
      <3>3. \A i \in 1..Len(queue) : i \in 1..Len(queue')
        BY <2>3
      <3> HIDE DEF n
      <3> QED BY <2>3, <2>4, <3>1, <3>2, <3>3 DEF Queued
    <2> HIDE DEF n
    <2>6. ReservationsHeld'
      <3>1. ASSUME NEW j \in OrderIds, Relied(j)' PROVE Relied(j)
        <4>1. \A t \in Submissions : SubmitRelies(t, j)' => SubmitRelies(t, j)
          BY <1>2, <1>4, <1>6 DEF SubmitRelies
        <4> QED BY <1>2, <2>5, <3>1, <4>1 DEF Relied
      <3> QED BY <1>2, <3>1 DEF RightsInv, ReservationsHeld, Covered
    <2>7. HeldBySubmit'
      <3>1. ASSUME NEW t \in Submissions, submit'[t].pc \in Early \cup Holding
            PROVE  t # s /\ submit'[t] = submit[t]
        BY <1>4, <1>6, <3>1 DEF Early, Preparing, Holding
      <3>2. ASSUME NEW t \in Submissions, submit'[t].pc \in Holding
            PROVE  /\ sends[submit[t].cid] = <<>> /\ submit'[t] = submit[t]
                   /\ \A j : j = submit[t].cid => ~WorkerHas(j) /\ ~Queued(j)'
        <4>1. t # s /\ submit'[t] = submit[t]
          BY <3>1, <3>2
        <4>2. submit[t].cid # id
          BY <1>1, <1>2, <3>2, <4>1, HoldersDiffer DEF Holding
        <4> QED BY <2>5, <3>2, <4>1, <4>2 DEF RightsInv, HeldBySubmit, Unsent
      <3> QED BY <1>2, <1>3, <3>1, <3>2
              DEF HeldBySubmit, RightsInv, Early, Present, Unsent, WorkerHas, Queued
    <2>8. HeldByQueue'
      <3>1. SendItem(id).type = "Send" /\ SendItem(id).id = id
        BY DEF SendItem
      <3>2. ASSUME NEW i \in 1..Len(queue'), queue'[i].type = "Send"
            PROVE  /\ sends[queue'[i].id] = <<>>
                   /\ \A j : j = queue'[i].id => ~WorkerHas(j)
                   /\ \A j \in 1..Len(queue') :
                        queue'[j].type = "Send" /\ queue'[j].id = queue'[i].id => j = i
        <4>1. CASE i \in 1..Len(queue)
          <5>1. /\ Queued(queue[i].id) /\ queue'[i] = queue[i] /\ queue[i].type = "Send"
                /\ queue'[i].id # id
            BY <1>2, <2>3, <3>2, <4>1 DEF Queued
          <5> QED BY <2>3, <2>4, <3>1, <3>2, <4>1, <5>1 DEF RightsInv, HeldByQueue, Unsent
        <4>2. CASE i = n
          <5>1. queue'[i].id = id /\ \A j \in 1..Len(queue) : queue[j].type = "Send" => queue[j].id # id
            BY <1>2, <2>3, <3>1, <4>2 DEF Queued
          <5> QED BY <1>2, <2>3, <2>4, <4>2, <5>1 DEF Unsent
        <4> QED BY <2>4, <4>1, <4>2
      <3> QED BY <1>2, <3>2 DEF HeldByQueue, Unsent, WorkerHas
    <2>9. HeldByWorker' /\ AcceptedCancels'
      BY <1>2, <1>3, CancelsKept DEF TablesKept, RightsInv, HeldByWorker, Unsent
    <2> QED BY <2>6, <2>7, <2>8, <2>9 DEF RightsInv, ClientsDistinct
  <1> QED BY <1>5, <1>6

\* A step that changes neither the Submits nor what is queued and sent.
LEMMA OutsideRights ==
  ASSUME FlowInv, RightsInv, TablesKept, NoNewRows,
         UNCHANGED <<submit, cancel, queue, worker, sends>>,
         \A id \in OrderIds : Relied(id) => reservation'[id] = reservation[id],
         worker.pc = "send" => orders'[worker.item.id] = orders[worker.item.id]
  PROVE  RightsInv'
  <1>1. \A s \in Submissions, id \in OrderIds : SubmitRelies(s, id)' => SubmitRelies(s, id)
    BY DEF SubmitRelies
  <1>2. \A s \in Submissions :
          /\ submit'[s].pc \in Early => submit[s].pc \in Early
          /\ submit'[s].pc \in Holding =>
               submit[s].pc \in Holding /\ submit'[s].cid = submit[s].cid
    OBVIOUS
  <1> QED BY <1>1, <1>2, RightsFrame

\* No step of a Cancel makes or takes the right to send.
LEMMA CancelRightsFrame ==
  ASSUME FlowInv, RightsInv, TablesKept, NoNewRows,
         UNCHANGED <<submit, worker, sends, reservation>>, AcceptedCancels',
         worker.pc = "send" => orders'[worker.item.id] = orders[worker.item.id],
         \A id : Queued(id)' <=> Queued(id), HeldByQueue'
  PROVE  RightsInv'
  <1>1. ReservationsHeld'
    <2>1. ASSUME NEW j \in OrderIds, Relied(j)' PROVE Relied(j)
      <3>1. \A t \in Submissions : SubmitRelies(t, j)' => SubmitRelies(t, j)
        BY DEF SubmitRelies
      <3> QED BY <2>1, <3>1 DEF Relied
    <2> QED BY <2>1 DEF RightsInv, ReservationsHeld, Covered
  <1>2. ASSUME NEW s \in Submissions, submit[s].pc \in Early,
               NEW id \in OrderIds, Present(id)'
        PROVE  orders'[id].client # ClientOf[s]
    <2>1. Present(id)
      BY <1>2 DEF NoNewRows
    <2>2. orders[id].client # ClientOf[s]
      BY <1>2, <2>1 DEF RightsInv, HeldBySubmit, Early
    <2> QED BY <2>1, <2>2, RowsStay DEF FlowInv, TablesKept
  <1>3. ASSUME NEW s \in Submissions, submit[s].pc \in Holding
        PROVE  /\ sends[submit[s].cid] = <<>>
               /\ \A j : j = submit[s].cid => ~WorkerHas(j) /\ ~Queued(j)'
    BY <1>3 DEF RightsInv, HeldBySubmit, Unsent
  <1>4. HeldBySubmit'
    BY <1>2, <1>3 DEF HeldBySubmit, Early, Unsent, WorkerHas, Queued
  <1>5. HeldByWorker'
    BY DEF RightsInv, HeldByWorker, Unsent
  <1> QED BY <1>1, <1>4, <1>5 DEF RightsInv, ClientsDistinct

LEMMA CancelRights ==
  ASSUME FlowInv, RightsInv, NEW k \in Cancellations, Cancel(k)
  PROVE  RightsInv'
  <1>0. /\ OmsInv
        /\ cancel \in [Cancellations -> [pc : CancelPcs, id : OrderIds \cup {NoId},
                                         broker : BOOLEAN, rc : ErrorCodes]]
        /\ queue \in Seq(Item)
    BY DEF FlowInv, CallsTypeOK, EmsTypeOK
  <1>1. ASSUME queue' = queue, UNCHANGED <<worker, sends>>
        PROVE  (\A id : Queued(id)' <=> Queued(id)) /\ HeldByQueue'
    BY <1>1 DEF Queued, RightsInv, HeldByQueue, Unsent, WorkerHas
  <1>2. CASE LookupCancel(k)
    <2>1. /\ UNCHANGED <<omsVars, submit, queue, worker, sends, reservation>>
          /\ TablesKept /\ NoNewRows /\ orders' = orders
      BY <1>0, <1>2, NothingChanges DEF LookupCancel, emsVars, extVars, omsVars
    <2>2. AcceptedCancels'
      <3>1. \A j \in Cancellations : cancel'[j].pc \in {"enqueue", "undo"} =>
              cancel[j].pc \in {"enqueue", "undo"} /\ cancel'[j].id = cancel[j].id
        BY <1>0, <1>2 DEF LookupCancel
      <3> QED BY <2>1, <3>1, CancelsKept DEF TablesKept
    <2> QED BY <1>1, <2>1, <2>2, CancelRightsFrame
  <1>3. CASE AcceptCancel(k)
    <2>1. PICK id : id = cancel[k].id
      OBVIOUS
    <2>2. /\ cancel[k].pc = "cancel" /\ Present(id) /\ id \in OrderIds /\ CancelOrder(id)
          /\ UNCHANGED <<submit, queue, worker, sends, reservation>>
      BY <1>3, <2>1 DEF AcceptCancel, FlowInv, ItemsInv, Present, emsVars, extVars
    <2>3. /\ OneRowChanges(id, ApplyTransition(orders[id], "CancelPending"))
          /\ orders[id] \in Entry
      BY <1>0, <2>2, RequestTables, RowTyped DEF CancelOrder
    <2>4. TablesKept /\ NoNewRows
      BY <2>3 DEF OneRowChanges
    <2>5. worker.pc = "send" => orders'[worker.item.id] = orders[worker.item.id]
      <3>1. ~CanTransition("SendPending", "CancelPending")
        BY DEF CanTransition, Successors
      <3>2. worker.pc = "send" => Present(worker.item.id)
        BY DEF FlowInv, ItemsInv
      <3> QED BY <2>3, <3>1, <3>2
              DEF OneRowChanges, ApplyTransition, RightsInv, HeldByWorker, Present
    <2>6. AcceptedCancels'
      <3> DEFINE ok == TransitionRc(id, "CancelPending") = "Success"
      <3>1. /\ cancel'[k].pc = IF ok THEN "enqueue" ELSE "done"
            /\ cancel'[k].id = id
            /\ \A j \in Cancellations \ {k} : cancel'[j] = cancel[j]
        BY <1>0, <1>3, <2>1 DEF AcceptCancel
      <3>2. ok => orders'[id].state = "CancelPending"
        BY <2>2, <2>3 DEF TransitionRc, OneRowChanges, ApplyTransition, Entry
      <3> HIDE DEF ok
      <3>3. ASSUME NEW j \in Cancellations, cancel'[j].pc \in {"enqueue", "undo"}
            PROVE  orders'[cancel'[j].id].state \notin PreSend \cup {"SendPending"}
        <4>1. CASE j = k
          BY <3>1, <3>2, <3>3, <4>1 DEF PreSend
        <4>2. CASE j # k
          <5>1. PICK i : i = cancel[j].id
            OBVIOUS
          <5>2. /\ cancel'[j] = cancel[j] /\ Present(i)
                /\ orders[i].state \notin PreSend \cup {"SendPending"}
            BY <3>1, <3>3, <4>2, <5>1 DEF RightsInv, AcceptedCancels, FlowInv, ItemsInv
          <5>3. RowKept(orders[i], orders'[i])
            BY <2>4, <5>2 DEF TablesKept, RowsKept, Present
          <5> QED BY <5>1, <5>2, <5>3 DEF RowKept, RowStep, PreSend
        <4> QED BY <4>1, <4>2
      <3> QED BY <3>3 DEF AcceptedCancels
    <2> QED BY <1>1, <2>2, <2>4, <2>5, <2>6, CancelRightsFrame
  <1>4. CASE EnqueueCancel(k)
    <2>1. PICK item : item = CancelItem(cancel[k].id, cancel[k].broker)
      OBVIOUS
    <2>2. /\ UNCHANGED <<omsVars, submit, worker, sends, reservation>>
          /\ TablesKept /\ NoNewRows /\ orders' = orders /\ cancel[k].pc = "enqueue"
      BY <1>0, <1>4, NothingChanges DEF EnqueueCancel, extVars, omsVars
    <2>3. AcceptedCancels'
      <3>1. \A j \in Cancellations : cancel'[j].pc \in {"enqueue", "undo"} =>
              cancel[j].pc \in {"enqueue", "undo"} /\ cancel'[j].id = cancel[j].id
        BY <1>0, <1>4 DEF EnqueueCancel
      <3> QED BY <2>2, <3>1, CancelsKept DEF TablesKept
    <2>4. CASE EnqueueRc # "Success"
      <3>1. queue' = queue
        BY <1>4, <2>4 DEF EnqueueCancel
      <3> QED BY <1>1, <2>2, <2>3, <3>1, CancelRightsFrame
    <2>5. CASE EnqueueRc = "Success"
      <3>1. queue' = <<item>> \o queue
        BY <1>4, <2>1, <2>5 DEF EnqueueCancel
      <3>2. item \in Item /\ item.type = "Cancel"
        BY <1>0, <2>1 DEF CancelItem, Item
      <3>3. <<item>> \in Seq(Item) /\ Len(<<item>>) = 1 /\ <<item>>[1] = item
        BY <3>2
      <3>4. /\ Len(queue') = Len(queue) + 1 /\ Len(queue) \in Nat
            /\ \A i \in 1..(1 + Len(queue)) :
                 queue'[i] = IF i <= 1 THEN item ELSE queue[i - 1]
        BY <1>0, <3>1, <3>3, ConcatProperties, LenProperties
      <3>5. /\ \A i \in 1..Len(queue') : queue'[i].type = "Send" =>
                 i - 1 \in 1..Len(queue) /\ queue'[i] = queue[i - 1]
            /\ \A i \in 1..Len(queue) : i + 1 \in 1..Len(queue') /\ queue'[i + 1] = queue[i]
        BY <3>2, <3>4
      <3>6. \A id : Queued(id)' <=> Queued(id)
        BY <3>5 DEF Queued
      <3>7. HeldByQueue'
        <4>1. ASSUME NEW i \in 1..Len(queue'), queue'[i].type = "Send"
              PROVE  /\ sends[queue'[i].id] = <<>>
                     /\ \A j : j = queue'[i].id => ~WorkerHas(j)
                     /\ \A j \in 1..Len(queue') :
                          queue'[j].type = "Send" /\ queue'[j].id = queue'[i].id => j = i
          <5>1. PICK m \in 1..Len(queue) : m = i - 1 /\ queue'[i] = queue[m]
            BY <3>5, <4>1
          <5>2. /\ sends[queue[m].id] = <<>> /\ ~WorkerHas(queue[m].id)
                /\ \A j \in 1..Len(queue) :
                     queue[j].type = "Send" /\ queue[j].id = queue[m].id => j = m
            BY <4>1, <5>1 DEF RightsInv, HeldByQueue, Unsent
          <5>3. ASSUME NEW j \in 1..Len(queue'),
                       queue'[j].type = "Send" /\ queue'[j].id = queue'[i].id
                PROVE  j = i
            <6>1. j - 1 \in 1..Len(queue) /\ queue'[j] = queue[j - 1]
              BY <3>5, <5>3
            <6>2. j - 1 = m
              BY <5>1, <5>2, <5>3, <6>1
            <6> QED BY <3>4, <5>1, <6>2
          <5> QED BY <5>1, <5>2, <5>3
        <4> QED BY <2>2, <4>1 DEF HeldByQueue, Unsent, WorkerHas
      <3> QED BY <2>2, <2>3, <3>6, <3>7, CancelRightsFrame
    <2> QED BY <2>4, <2>5
  <1>5. CASE UndoCancel(k)
    <2>1. PICK id : id = cancel[k].id
      OBVIOUS
    <2>2. /\ cancel[k].pc = "undo" /\ Present(id) /\ id \in OrderIds
          /\ RecordCancelResult(id, cancel[k].rc)
          /\ UNCHANGED <<submit, queue, worker, sends, reservation>>
          /\ orders[id].state # "SendPending"
      BY <1>5, <2>1 DEF UndoCancel, FlowInv, ItemsInv, Present, emsVars, extVars,
                        RightsInv, AcceptedCancels
    <2>3. OneRowChanges(id, orders'[id]) /\ TablesKept /\ NoNewRows
      BY <1>0, <2>2, CancelResultTables DEF OneRowChanges
    <2>4. worker.pc = "send" => orders'[worker.item.id] = orders[worker.item.id]
      BY <2>2, <2>3 DEF OneRowChanges, RightsInv, HeldByWorker, FlowInv, ItemsInv, Present
    <2>5. AcceptedCancels'
      <3>1. \A j \in Cancellations : cancel'[j].pc \in {"enqueue", "undo"} =>
              cancel[j].pc \in {"enqueue", "undo"} /\ cancel'[j].id = cancel[j].id
        BY <1>0, <1>5 DEF UndoCancel
      <3> QED BY <2>3, <3>1, CancelsKept DEF TablesKept
    <2> QED BY <1>1, <2>2, <2>3, <2>4, <2>5, CancelRightsFrame
  <1> QED BY <1>2, <1>3, <1>4, <1>5 DEF Cancel

\* The worker keeps its item or puts it down.
LEMMA WorkerRightsFrame ==
  ASSUME FlowInv, RightsInv, TablesKept, NoNewRows, UNCHANGED <<submit, cancel, queue>>,
         \A id : WorkerHas(id)' => WorkerHas(id),
         \A id \in OrderIds : ~WorkerHas(id) => sends'[id] = sends[id],
         worker'.pc \in {"mark", "send"} =>
           worker.pc \in {"mark", "send"} /\ worker'.item = worker.item,
         \A id \in OrderIds : Relied(id) => reservation'[id] = reservation[id],
         HeldByWorker'
  PROVE  RightsInv'
  <1>1. \A id : Queued(id)' <=> Queued(id)
    BY DEF Queued
  <1>2. ReservationsHeld'
    <2>1. ASSUME NEW j \in OrderIds, Relied(j)' PROVE Relied(j)
      <3>1. \A t \in Submissions : SubmitRelies(t, j)' => SubmitRelies(t, j)
        BY DEF SubmitRelies
      <3> QED BY <1>1, <2>1, <3>1 DEF Relied
    <2> QED BY <2>1 DEF RightsInv, ReservationsHeld, Covered
  <1>3. ASSUME NEW s \in Submissions, submit[s].pc \in Early,
               NEW id \in OrderIds, Present(id)'
        PROVE  orders'[id].client # ClientOf[s]
    <2>1. Present(id)
      BY <1>3 DEF NoNewRows
    <2>2. orders[id].client # ClientOf[s]
      BY <1>3, <2>1 DEF RightsInv, HeldBySubmit, Early
    <2> QED BY <2>1, <2>2, RowsStay DEF FlowInv, TablesKept
  <1>4. ASSUME NEW s \in Submissions, submit[s].pc \in Holding
        PROVE  /\ sends'[submit[s].cid] = <<>>
               /\ \A j : j = submit[s].cid => ~WorkerHas(j)' /\ ~Queued(j)
    <2>1. submit[s].cid \in OrderIds
      BY <1>4 DEF FlowInv, SubmitsInv, Present
    <2> QED BY <1>4, <2>1 DEF RightsInv, HeldBySubmit, Unsent
  <1>5. HeldBySubmit'
    BY <1>3, <1>4 DEF HeldBySubmit, Early, Unsent, WorkerHas, Queued
  <1>6. ASSUME NEW i \in 1..Len(queue), queue[i].type = "Send"
        PROVE  /\ sends'[queue[i].id] = <<>>
               /\ \A j : j = queue[i].id => ~WorkerHas(j)'
    <2>1. queue[i].id \in OrderIds
      BY <1>6 DEF FlowInv, ItemsInv, Present
    <2> QED BY <1>6, <2>1 DEF RightsInv, HeldByQueue, Unsent
  <1>7. HeldByQueue'
    BY <1>6 DEF RightsInv, HeldByQueue, Unsent, WorkerHas
  <1>8. AcceptedCancels'
    BY CancelsKept DEF TablesKept
  <1> QED BY <1>2, <1>5, <1>7, <1>8 DEF RightsInv, ClientsDistinct

LEMMA WorkerTakeRights ==
  ASSUME FlowInv, RightsInv, WorkerTake
  PROVE  RightsInv'
  <1>1. /\ queue # <<>>
        /\ worker' = [pc |-> IF Head(queue).type = "Send" THEN "mark" ELSE "cancel",
                      item |-> Head(queue), rc |-> "Success"]
        /\ queue' = Tail(queue)
        /\ UNCHANGED <<omsVars, submit, cancel, sends, reservation>>
    BY DEF WorkerTake, WorkerAt, callVars, extVars
  <1>2. queue \in Seq(Item)
    BY DEF FlowInv, EmsTypeOK
  <1>3. PICK h \in Item : h = Head(queue) /\ h = queue[1]
    <2>1. Head(queue) = queue[1]
      BY <1>1, <1>2
    <2> QED BY <1>1, <1>2, <2>1, HeadTailProperties
  <1>4. /\ Len(queue) \in Nat /\ 1 \in 1..Len(queue)
        /\ \A i \in 1..Len(queue') : i + 1 \in 1..Len(queue) /\ queue'[i] = queue[i + 1]
                                     /\ i + 1 # 1
    <2>1. Len(queue) \in Nat /\ Len(queue) # 0
      BY <1>1, <1>2
    <2>2. Len(queue') = Len(queue) - 1 /\ \A i \in 1..Len(queue') : queue'[i] = queue[i + 1]
      BY <1>1, <1>2, HeadTailProperties
    <2> QED BY <2>1, <2>2
  <1>5. TablesKept /\ NoNewRows /\ orders' = orders
    BY <1>1, NothingChanges DEF FlowInv, omsVars
  <1>6. worker'.item = h /\ worker'.pc = IF h.type = "Send" THEN "mark" ELSE "cancel"
    BY <1>1, <1>3
  <1>7. \A j : WorkerHas(j)' => h.type = "Send" /\ h.id = j
    BY <1>6 DEF WorkerHas
  <1>8. \A j : Queued(j)' => Queued(j) /\ ~(h.type = "Send" /\ h.id = j)
    <2>1. ASSUME NEW j, Queued(j)' PROVE Queued(j) /\ ~(h.type = "Send" /\ h.id = j)
      <3>1. PICK i \in 1..Len(queue') : queue'[i].type = "Send" /\ queue'[i].id = j
        BY <2>1 DEF Queued
      <3>2. /\ i + 1 \in 1..Len(queue) /\ queue[i + 1].type = "Send" /\ queue[i + 1].id = j
            /\ i + 1 # 1
        BY <1>4, <3>1
      <3> QED BY <1>3, <1>4, <3>2 DEF Queued, RightsInv, HeldByQueue
    <2> QED BY <2>1
  <1>9. h.type = "Send" => Queued(h.id) /\ sends[h.id] = <<>>
    BY <1>3, <1>4 DEF Queued, RightsInv, HeldByQueue, Unsent
  <1>10. ReservationsHeld'
    <2>1. ASSUME NEW j \in OrderIds, Relied(j)' PROVE Relied(j)
      <3>1. \A t \in Submissions : SubmitRelies(t, j)' => SubmitRelies(t, j)
        BY <1>1 DEF SubmitRelies
      <3> QED BY <1>6, <1>8, <1>9, <2>1, <3>1 DEF Relied
    <2> QED BY <1>1, <2>1 DEF RightsInv, ReservationsHeld, Covered
  <1>11. ASSUME NEW s \in Submissions, submit[s].pc \in Holding
         PROVE  /\ sends[submit[s].cid] = <<>>
                /\ \A j : j = submit[s].cid => ~WorkerHas(j)' /\ ~Queued(j)'
    BY <1>7, <1>8, <1>9, <1>11 DEF RightsInv, HeldBySubmit, Unsent
  <1>12. HeldBySubmit'
    BY <1>1, <1>5, <1>11
    DEF HeldBySubmit, RightsInv, Early, Present, Unsent, WorkerHas, Queued
  <1>13. HeldByQueue'
    <2>1. ASSUME NEW i \in 1..Len(queue'), queue'[i].type = "Send"
          PROVE  /\ sends[queue'[i].id] = <<>>
                 /\ \A j : j = queue'[i].id => ~WorkerHas(j)'
                 /\ \A j \in 1..Len(queue') :
                      queue'[j].type = "Send" /\ queue'[j].id = queue'[i].id => j = i
      <3>1. /\ i + 1 \in 1..Len(queue) /\ queue'[i] = queue[i + 1]
            /\ sends[queue[i + 1].id] = <<>>
            /\ \A j \in 1..Len(queue) :
                 queue[j].type = "Send" /\ queue[j].id = queue[i + 1].id => j = i + 1
        BY <1>4, <2>1 DEF RightsInv, HeldByQueue, Unsent
      <3>2. \A j : j = queue'[i].id => ~WorkerHas(j)'
        BY <1>3, <1>4, <1>7, <3>1
      <3>3. ASSUME NEW j \in 1..Len(queue'),
                   queue'[j].type = "Send" /\ queue'[j].id = queue'[i].id
            PROVE  j = i
        <4>1. j + 1 \in 1..Len(queue) /\ queue'[j] = queue[j + 1]
          BY <1>4
        <4>2. j + 1 = i + 1
          BY <3>1, <3>3, <4>1
        <4> QED BY <4>2
      <3> QED BY <3>1, <3>2, <3>3
    <2> QED BY <1>1, <2>1 DEF HeldByQueue, Unsent, WorkerHas
  <1>14. HeldByWorker'
    BY <1>1, <1>6, <1>9 DEF HeldByWorker, Unsent
  <1>15. AcceptedCancels'
    BY <1>1, <1>5, CancelsKept DEF TablesKept
  <1> QED BY <1>10, <1>12, <1>13, <1>14, <1>15 DEF RightsInv, ClientsDistinct

LEMMA WorkerRights ==
  ASSUME FlowInv, RightsInv, Worker
  PROVE  RightsInv'
  <1>0. OmsInv /\ (worker.pc # "idle" => Present(worker.item.id) /\ worker.item.id \in OrderIds)
    BY DEF FlowInv, ItemsInv, Present
  <1>1. CASE WorkerTake
    BY <1>1, WorkerTakeRights
  <1>2. ASSUME NEW pc, NEW rc, WorkerTo(pc, rc)
        PROVE  /\ worker'.pc = pc /\ worker'.rc = rc /\ worker'.item = worker.item
               /\ queue' = queue
    BY <1>2 DEF WorkerTo, FlowInv, EmsTypeOK
  <1>3. CASE WorkerMark
    <2> DEFINE ok == TransitionRc(worker.item.id, "SendPending") = "Success"
    <2>1. /\ worker.pc = "mark" /\ MarkSendPending(worker.item.id)
          /\ UNCHANGED <<submit, cancel, sends, reservation>>
      BY <1>3 DEF WorkerMark, WorkerAt, callVars, extVars
    <2>2. TablesKept /\ NoNewRows
      BY <1>0, <2>1, RequestTables DEF MarkSendPending, OneRowChanges
    <2>3. /\ worker'.pc = IF ok THEN "send" ELSE "refused"
          /\ worker'.item = worker.item /\ queue' = queue
      BY <1>2, <1>3 DEF WorkerMark
    <2>4. ok => orders'[worker.item.id].state = "SendPending"
      BY <1>0, <2>1, MarkSucceeds
    <2> HIDE DEF ok
    <2>5. HeldByWorker'
      BY <2>1, <2>3, <2>4 DEF RightsInv, HeldByWorker, Unsent
    <2>6. \A id : WorkerHas(id)' => WorkerHas(id)
      BY <2>1, <2>3 DEF WorkerHas
    <2> QED BY <2>1, <2>2, <2>3, <2>5, <2>6, WorkerRightsFrame
  <1>4. CASE WorkerRefused
    <2>1. /\ worker.pc = "refused" /\ RecordSendResult(worker.item.id, worker.rc)
          /\ UNCHANGED <<submit, cancel, sends, reservation>>
      BY <1>4 DEF WorkerRefused, WorkerAt, callVars, extVars
    <2>2. TablesKept /\ NoNewRows
      BY <1>0, <2>1, SendResultTables DEF OneRowChanges
    <2>3. worker'.pc = "release" /\ worker'.item = worker.item /\ queue' = queue
      BY <1>2, <1>4 DEF WorkerRefused
    <2>4. HeldByWorker'
      BY <2>1, <2>3 DEF RightsInv, HeldByWorker, Unsent
    <2>5. \A id : WorkerHas(id)' => WorkerHas(id)
      BY <2>1, <2>3 DEF WorkerHas
    <2> QED BY <2>1, <2>2, <2>3, <2>4, <2>5, WorkerRightsFrame
  <1>5. CASE WorkerSend
    <2>1. PICK rc \in Results, taken \in BOOLEAN : SendMove(worker.item.id, rc, taken)
      BY <1>5, WorkerSendFlow
    <2>2. /\ worker.pc = "send" /\ worker'.pc = "sent" /\ worker'.item = worker.item
          /\ UNCHANGED <<omsVars, submit, cancel, queue, reservation>>
          /\ sends' = [sends EXCEPT ![worker.item.id] = <<rc>>]
      BY <2>1 DEF SendMove, callVars
    <2>3. TablesKept /\ NoNewRows
      BY <1>0, <2>2, NothingChanges
    <2>4. \A id : WorkerHas(id)' => WorkerHas(id)
      BY <2>2 DEF WorkerHas
    <2>5. \A id \in OrderIds : ~WorkerHas(id) => sends'[id] = sends[id]
      BY <2>2 DEF WorkerHas, FlowInv, ExtTypeOK
    <2>6. HeldByWorker'
      BY <2>2 DEF HeldByWorker
    <2> QED BY <2>2, <2>3, <2>4, <2>5, <2>6, WorkerRightsFrame
  <1>6. CASE WorkerRecordSend
    <2>1. /\ worker.pc = "sent" /\ RecordSendResult(worker.item.id, worker.rc)
          /\ UNCHANGED <<submit, cancel, sends, reservation>>
          /\ sends[worker.item.id] = <<worker.rc>>
      BY <1>6 DEF WorkerRecordSend, WorkerAt, callVars, extVars, FlowInv, SendsInv
    <2>2. TablesKept /\ NoNewRows
      BY <1>0, <2>1, SendResultTables DEF OneRowChanges
    <2>3. /\ worker'.pc = IF worker.rc = "Success" THEN "idle" ELSE "release"
          /\ worker'.item = worker.item /\ worker'.rc = worker.rc /\ queue' = queue
      BY <1>2, <1>6 DEF WorkerRecordSend
    <2>4. HeldByWorker'
      BY <2>1, <2>3 DEF HeldByWorker
    <2>5. \A id : WorkerHas(id)' => WorkerHas(id)
      BY <2>1, <2>3 DEF WorkerHas
    <2> QED BY <2>1, <2>2, <2>3, <2>4, <2>5, WorkerRightsFrame
  <1>7. CASE WorkerRelease
    <2>1. /\ worker.pc = "release" /\ SetReservation(worker.item.id, "released")
          /\ UNCHANGED <<omsVars, submit, cancel>>
      BY <1>7 DEF WorkerRelease, WorkerAt, callVars
    <2>2. TablesKept /\ NoNewRows
      BY <1>0, <2>1, NothingChanges
    <2>3. worker'.pc = "idle" /\ worker'.item = worker.item /\ queue' = queue
      BY <1>2, <1>7 DEF WorkerRelease
    <2>4. /\ \A j \in OrderIds : Relied(j) => reservation'[j] = reservation[j]
          /\ sends' = sends
      BY <1>0, <2>1, NotRelied, ReservationMoves
    <2>5. HeldByWorker' /\ \A id : WorkerHas(id)' => WorkerHas(id)
      BY <2>3 DEF HeldByWorker, WorkerHas
    <2> QED BY <2>1, <2>2, <2>3, <2>4, <2>5, WorkerRightsFrame
  <1>8. CASE WorkerCancel
    <2>1. /\ worker.pc = "cancel" /\ UNCHANGED <<omsVars, submit, cancel, sends, reservation>>
      BY <1>8 DEF WorkerCancel, WorkerAt, callVars
    <2>2. TablesKept /\ NoNewRows
      BY <1>0, <2>1, NothingChanges
    <2>3. worker'.pc = "canceled" /\ worker'.item = worker.item /\ queue' = queue
      BY <1>2, <1>8 DEF WorkerCancel
    <2>4. HeldByWorker' /\ \A id : WorkerHas(id)' => WorkerHas(id)
      BY <2>3 DEF HeldByWorker, WorkerHas
    <2> QED BY <2>1, <2>2, <2>3, <2>4, WorkerRightsFrame
  <1>9. CASE WorkerRecordCancel
    <2>1. /\ worker.pc = "canceled" /\ RecordCancelResult(worker.item.id, worker.rc)
          /\ UNCHANGED <<submit, cancel, sends, reservation>>
      BY <1>9 DEF WorkerRecordCancel, WorkerAt, callVars, extVars
    <2>2. TablesKept /\ NoNewRows
      BY <1>0, <2>1, CancelResultTables DEF OneRowChanges
    <2>3. worker'.pc = "idle" /\ worker'.item = worker.item /\ queue' = queue
      BY <1>2, <1>9 DEF WorkerRecordCancel
    <2>4. HeldByWorker' /\ \A id : WorkerHas(id)' => WorkerHas(id)
      BY <2>3 DEF HeldByWorker, WorkerHas
    <2> QED BY <2>1, <2>2, <2>3, <2>4, WorkerRightsFrame
  <1> QED BY <1>1, <1>3, <1>4, <1>5, <1>6, <1>7, <1>8, <1>9 DEF Worker

LEMMA ReportRights ==
  ASSUME FlowInv, RightsInv, LaneThread
  PROVE  RightsInv'
  <1>1. CASE HandleReport
    <2>1. PICK e \in Event, id \in OrderIds : ReportMove(e, id)
      BY <1>1, HandleReportFlow
    <2>2. /\ TablesKept /\ NoNewRows /\ UNCHANGED <<submit, cancel, queue, worker, sends, reservation>>
          /\ ~Unsent(id) /\ \A j \in OrderIds \ {id} : orders'[j] = orders[j]
      BY <2>1, FindAbout DEF ReportMove, callVars, emsVars, extVars, Unsent
    <2>3. worker.pc = "send" => orders'[worker.item.id] = orders[worker.item.id]
      BY <2>2 DEF RightsInv, HeldByWorker, FlowInv, ItemsInv, Present
    <2> QED BY <2>2, <2>3, OutsideRights
  <1>2. CASE FinishReport
    <2>1. PICK e \in Event, id \in OrderIds : FinishMove(e, id)
      BY <1>2, FinishReportFlow
    <2>2. UNCHANGED <<omsVars, submit, cancel, queue, worker, sends>> /\ ~Unsent(id)
      BY <2>1 DEF FinishMove, callVars, emsVars, Unsent
    <2>3. TablesKept /\ NoNewRows /\ orders' = orders
      BY <2>2, NothingChanges DEF FlowInv, omsVars
    <2>4. \A j \in OrderIds : Relied(j) => reservation'[j] = reservation[j]
      <3>1. ~Relied(id)
        BY <2>2, NotRelied
      <3>2. reservation \in [OrderIds -> {"none", "reserved", "expired", "released"}]
        BY DEF FlowInv, ExtTypeOK
      <3> QED BY <2>1, <3>1, <3>2 DEF FinishMove
    <2> QED BY <2>2, <2>3, <2>4, OutsideRights
  <1> QED BY <1>1, <1>2 DEF LaneThread

LEMMA RightsStep ==
  FlowInv /\ RightsInv /\ [FlowNext]_vars => RightsInv'
  <1> SUFFICES ASSUME FlowInv, RightsInv, [FlowNext]_vars PROVE RightsInv'
    OBVIOUS
  <1>0. OmsInv
    BY DEF FlowInv
  <1>1. CASE \E s \in Submissions : Submit(s)
    BY <1>1, SubmitRights, CreateRights, EnqueueRights
  <1>2. CASE \E k \in Cancellations : Cancel(k)
    BY <1>2, CancelRights
  <1>3. CASE StopEms \/ (\E id \in OrderIds : Venue(id)) \/ UNCHANGED vars
    <2>1. UNCHANGED <<omsVars, submit, cancel, queue, worker, sends, reservation>>
      BY <1>3 DEF StopEms, Venue, VenueFill, VenueCancel, VenueReject, VenueRepeat, vars,
                  callVars, emsVars, extVars
    <2>2. TablesKept /\ NoNewRows /\ orders' = orders
      BY <1>0, <2>1, NothingChanges DEF omsVars
    <2> QED BY <2>1, <2>2, OutsideRights
  <1>4. CASE Worker
    BY <1>4, WorkerRights
  <1>5. CASE LaneThread
    BY <1>5, ReportRights
  <1> QED BY <1>1, <1>2, <1>3, <1>4, <1>5 DEF FlowNext

LEMMA RightsInitially == FlowInit /\ ClientsDistinct => RightsInv
  <1> SUFFICES ASSUME FlowInit, ClientsDistinct PROVE RightsInv
    OBVIOUS
  <1>1. /\ \A s \in Submissions : submit[s].pc = "admit"
        /\ \A k \in Cancellations : cancel[k].pc = "lookup"
        /\ worker.pc = "idle" /\ queue = <<>>
        /\ \A id : ~Present(id)
    BY DEF FlowInit, EmptyTables, Present, Absent
  <1>2. \A i \in 1..Len(queue) : FALSE
    BY <1>1
  <1> QED BY <1>1, <1>2 DEF RightsInv, ReservationsHeld, Relied, SubmitRelies, Queued,
          HeldBySubmit, HeldByQueue, HeldByWorker, AcceptedCancels, Preparing, Holding

\* With distinct clients the right to send an order has one holder at a time and
\* whoever holds it has the reservation.
THEOREM RightsInvariant == FlowSpec /\ ClientsDistinct => []RightsInv
  BY RightsInitially, RightsStep, FlowInvariant, PTL DEF FlowSpec

LEMMA OnlyWorkerSends ==
  ASSUME FlowInv, [FlowNext]_vars, NEW id \in OrderIds, sends'[id] # sends[id]
  PROVE  worker.pc = "send" /\ worker.item.id = id
  <1>1. ~(\E s \in Submissions : Submit(s)) /\ ~(\E k \in Cancellations : Cancel(k)) /\ ~StopEms
    BY SubmitFlow, CancelFlow, StopFlow DEF CallerStep
  <1>2. ~(\E i \in OrderIds : Venue(i)) /\ ~(UNCHANGED vars)
    BY DEF Venue, VenueFill, VenueCancel, VenueReject, VenueRepeat, vars, extVars
  <1>3. ~LaneThread
    BY DEF LaneThread, HandleReport, FinishReport, SetReservation, extVars
  <1>4. WorkerSend
    BY <1>1, <1>2, <1>3, WorkerTakeFlow, WorkerMarkFlow, WorkerRefusedFlow,
       WorkerRecordSendFlow, WorkerReleaseFlow, WorkerCancelFlow, WorkerRecordCancelFlow
    DEF FlowNext, Worker, InnerStep
  <1>5. PICK rc \in Results, taken \in BOOLEAN : SendMove(worker.item.id, rc, taken)
    BY <1>4, WorkerSendFlow
  <1> QED BY <1>5 DEF SendMove, FlowInv, ExtTypeOK

\* With distinct clients SendOrder is called only for an order the OMS holds in
\* SendPending: no cancellation, refusal or report takes it away between the
\* worker's mark and the call.
THEOREM SentWhilePending == FlowSpec /\ ClientsDistinct => SentOnlyWhilePending
  <1>1. FlowInv /\ RightsInv /\ [FlowNext]_vars =>
          [\A id \in OrderIds :
             sends'[id] # sends[id] => orders[id].state = "SendPending"]_vars
    BY OnlyWorkerSends DEF RightsInv, HeldByWorker
  <1> QED BY <1>1, FlowInvariant, RightsInvariant, PTL DEF FlowSpec, SentOnlyWhilePending

\* With distinct clients the account-risk reservation of an order stands when it
\* is sent: nobody gives it back while it waits in the queue.
THEOREM SentUnderReservation == FlowSpec /\ ClientsDistinct => SendIsCovered
  <1>1. FlowInv /\ RightsInv /\ [FlowNext]_vars =>
          [\A id \in OrderIds :
             sends'[id] # sends[id] => reservation[id] = "reserved"]_vars
    <2> SUFFICES ASSUME FlowInv, RightsInv, [FlowNext]_vars, NEW id \in OrderIds,
                        sends'[id] # sends[id]
                 PROVE  reservation[id] = "reserved"
      OBVIOUS
    <2>1. worker.pc = "send" /\ worker.item.id = id
      BY OnlyWorkerSends
    <2>2. Relied(id)
      BY <2>1 DEF Relied
    <2> QED BY <2>2 DEF RightsInv, ReservationsHeld, Covered
  <1> QED BY <1>1, FlowInvariant, RightsInvariant, PTL DEF FlowSpec, SendIsCovered

-----------------------------------------------------------------------------
(* That the OMS never counts more than the venue has traded.               *)

\* An event is about one order: the one that has its client, before and after.
LEMMA AboutUnique ==
  ASSUME FlowInv, FlowInv', RowsKept, NEW e, NEW i \in OrderIds, EventAbout(e, i),
         NEW id \in OrderIds, Present(id)', e.report.client = orders'[id].client
  PROVE  id = i
  <1>1. Present(i) /\ orders[i].client \in ClientIds /\ e.report.client = orders[i].client
    BY FindAbout DEF FlowInv, RowsInv, EventAbout
  <1>2. Present(i)' /\ orders'[i].client = orders[i].client
    BY <1>1, RowsStay DEF FlowInv
  <1>3. orders'[id].client # NoClient /\ orders'[id].client = orders'[i].client
    BY <1>1, <1>2, IdFacts
  <1>4. IndexConsistent'
    BY DEF FlowInv, OmsInv
  <1>5. clientIndex'[orders'[i].client] = i /\ clientIndex'[orders'[id].client] = id
    BY <1>2, <1>3, <1>4 DEF IndexConsistent
  <1> QED BY <1>3, <1>5

\* The lane's entries are events about orders the venue has.
LEMMA LaneAbout ==
  ASSUME FlowInv, NEW i \in 1..Len(lane)
  PROVE  lane[i] \in Event /\ \E id \in OrderIds : EventAbout(lane[i], id)
  BY ElementOfSeq DEF FlowInv, LaneTypeOK, EventsInv

\* A trade in the lane counts one the venue has made.
LEMMA TradeCounted ==
  ASSUME FlowInv, NEW i \in 1..Len(lane), NEW id \in OrderIds, NEW n \in Nat,
         IsTrade(lane[i], id, n)
  PROVE  n <= venue[id].traded /\ EventAbout(lane[i], id)
  <1>1. PICK j \in OrderIds : EventAbout(lane[i], j)
    BY LaneAbout
  <1>2. PICK m \in 1..venue[j].traded : lane[i].report.key = <<j, m>>
    BY <1>1 DEF EventAbout, IsTrade
  <1>3. j = id /\ m = n
    BY <1>2 DEF IsTrade
  <1>4. venue[id].traded \in Nat
    BY DEF FlowInv, ExtTypeOK
  <1> QED BY <1>1, <1>2, <1>3, <1>4

\* The venue's record of an order only grows.
VenueGoesOn ==
  \A id \in OrderIds :
    /\ venue[id].traded <= venue'[id].traded
    /\ venue[id].status = "filled" => venue'[id].status = "filled"

\* No operation of OrderApi and no step of the venue disturbs the counts.
LEMMA CountsFrame ==
  ASSUME FlowInv, FlowInv', FillInv, CallsKept, applied' = applied, VenueGoesOn
  PROVE  CountInv' /\ AppliedInv'
  <1>1. \A id \in OrderIds : venue[id].traded \in Nat /\ venue'[id].traded \in Nat
    BY DEF FlowInv, ExtTypeOK
  <1>2. AppliedInv'
    BY <1>1 DEF FillInv, AppliedInv, Applied, VenueGoesOn
  <1>3. ASSUME NEW id \in OrderIds, Present(id)'
        PROVE  /\ orders'[id].traded <= venue'[id].traded
               /\ orders'[id].traded > 0 /\ ~Dead(id)' =>
                    \E m \in Nat : Applied(id, m)' /\ orders'[id].traded <= m
               /\ orders'[id].state = "Filled" => Applied(id, orders[id].volume)'
               /\ orders'[id].status = "Filled" => venue'[id].status = "filled"
    <2>1. CASE Present(id)
      <3>1. CallKept(orders[id], orders'[id]) /\ orders[id] \in Entry
        BY <2>1, RowTyped DEF CallsKept, FlowInv
      <3>2. /\ orders'[id].traded = orders[id].traded /\ orders'[id].volume = orders[id].volume
            /\ orders'[id].status = "Filled" => orders[id].status = "Filled"
            /\ orders'[id].state = "Filled" => orders[id].state = "Filled"
            /\ Dead(id) => Dead(id)'
        BY <3>1 DEF CallKept, RowKept, RowStep, Dead, Terminal
      <3>3. orders[id].traded \in Nat
        BY <3>1 DEF Entry
      <3> QED BY <1>1, <2>1, <3>2, <3>3 DEF FillInv, CountInv, Applied, VenueGoesOn
    <2>2. CASE ~Present(id)
      <3>1. FreshRow(orders'[id])
        BY <1>3, <2>2 DEF CallsKept, Present
      <3> QED BY <1>1, <3>1 DEF FreshRow
    <2> QED BY <2>1, <2>2
  <1> QED BY <1>2, <1>3 DEF CountInv, Dead

\* An entry of the lane stays in order when others come after it.
LEMMA EntryFrame ==
  ASSUME FlowInv, FlowInv', FillInv, RowsKept, applied' = applied,
         NEW id \in OrderIds, NEW j \in 1..Len(lane), j \in 1..Len(lane'),
         \A i \in 1..j : lane'[i] = lane[i]
  PROVE  TradeInOrder(id, j)' /\ SnapshotInOrder(id, j)'
  <1>0. Len(lane) \in Nat /\ lane'[j] = lane[j]
    BY LenProperties DEF FlowInv, LaneTypeOK
  <1>1. TradeInOrder(id, j) /\ SnapshotInOrder(id, j)
    BY DEF FillInv, InOrderInv
  <1>2. \A i \in 1..(j-1) : lane'[i] = lane[i]
    BY <1>0
  <1>3. TradeInOrder(id, j)'
    BY <1>0, <1>1, <1>2 DEF TradeInOrder, IsTrade, Applied
  <1>4. SnapshotInOrder(id, j)'
    <2> SUFFICES ASSUME Present(id)', IsFillSnapshot(lane[j], id)'
                 PROVE  \/ Dead(id)' \/ Applied(id, lane[j].report.traded)'
                        \/ \E i \in 1..(j-1) : IsTrade(lane[i], id, lane[j].report.traded)'
      BY DEF SnapshotInOrder
    <2>1. PICK e : e = lane[j]
      OBVIOUS
    <2>2. PICK k \in OrderIds : EventAbout(e, k)
      BY <2>1, LaneAbout
    <2>3. /\ e.kind = "order" /\ e.report.client = orders'[id].client
          /\ e.report.status \in {"PartiallyFilled", "Filled"}
      BY <1>0, <2>1 DEF IsFillSnapshot
    <2>4. id = k
      BY <2>2, <2>3, AboutUnique
    <2>5. Present(id) /\ IsFillSnapshot(e, id)
      BY <2>2, <2>3, <2>4, FindAbout DEF IsFillSnapshot, EventAbout
    <2>6. Dead(id) => Dead(id)'
      BY <2>5 DEF RowsKept, RowKept, RowStep, Dead, Terminal
    <2> QED BY <1>0, <1>1, <1>2, <2>1, <2>5, <2>6 DEF SnapshotInOrder, IsTrade, Applied
  <1> QED BY <1>3, <1>4

\* A step that applies no trade and adds to the lane nothing that tells of a fill.
LEMMA FillFrame ==
  ASSUME FlowInv, FlowInv', FillInv, CallsKept, RowsKept, applied' = applied, VenueGoesOn,
         Len(lane) <= Len(lane'), \A i \in 1..Len(lane) : lane'[i] = lane[i],
         \A i \in 1..Len(lane') : i \notin 1..Len(lane) =>
           lane'[i].kind = "order" /\ lane'[i].report.status \notin {"PartiallyFilled", "Filled"}
  PROVE  FillInv'
  <1>1. Len(lane) \in Nat /\ Len(lane') \in Nat
    BY LenProperties DEF FlowInv, LaneTypeOK
  <1>2. ASSUME NEW id \in OrderIds, NEW j \in 1..Len(lane')
        PROVE  TradeInOrder(id, j)' /\ SnapshotInOrder(id, j)'
    <2>1. CASE j \in 1..Len(lane)
      <3>1. \A i \in 1..j : i \in 1..Len(lane)
        BY <1>1, <2>1
      <3> QED BY <2>1, <3>1, EntryFrame
    <2>2. CASE j \notin 1..Len(lane)
      BY <2>2 DEF TradeInOrder, SnapshotInOrder, IsTrade, IsFillSnapshot
    <2> QED BY <2>1, <2>2
  <1>3. CountInv' /\ AppliedInv'
    BY CountsFrame
  <1> QED BY <1>2, <1>3 DEF FillInv, InOrderInv

LEMMA FillFrameSameLane ==
  ASSUME FlowInv, FlowInv', FillInv, CallsKept, RowsKept, applied' = applied, VenueGoesOn,
         lane' = lane
  PROVE  FillInv'
  <1>1. Len(lane) \in Nat
    BY LenProperties DEF FlowInv, LaneTypeOK
  <1> QED BY <1>1, FillFrame

LEMMA InnerFill ==
  ASSUME FlowInv, FlowInv', FillInv, InnerStep
  PROVE  FillInv'
  <1>1. VenueGoesOn
    BY DEF InnerStep, SameAtVenue, VenueGoesOn, FlowInv, ExtTypeOK
  <1> QED BY <1>1, FillFrameSameLane DEF InnerStep, TablesKept

\* What FillEvents makes of a fill when its snapshot does not come first.
FillPublished(id, n) ==
  \A i \in 1..Len(lane') : i \notin 1..Len(lane) =>
    \/ i = Len(lane) + 1 /\ lane'[i] = TradeEvent(id, n)
    \/ /\ i = Len(lane) + 2 /\ lane'[Len(lane) + 1] = TradeEvent(id, n)
       /\ \E status \in Statuses : lane'[i] = OrderEvent(id, status, n)

LEMMA FillEventsFacts ==
  ASSUME VenueStyle # "report_trade", NEW id, NEW n, Len(lane) \in Nat,
         Published(FillEvents(id, n))
  PROVE  FillPublished(id, n)
  <1>1. PICK trade : trade = TradeEvent(id, n)
    OBVIOUS
  <1>2. PICK status \in Statuses :
          status = IF n = orders[id].volume THEN "Filled" ELSE "PartiallyFilled"
    BY DEF Statuses
  <1>3. PICK snap : snap = OrderEvent(id, status, n)
    OBVIOUS
  <1>4. PICK events : events = FillEvents(id, n)
    OBVIOUS
  <1>5. events = <<trade>> \/ events = <<trade, snap>>
    BY <1>1, <1>2, <1>3, <1>4, FlowAssumption DEF FillEvents
  <1>6. /\ Len(events) \in {1, 2} /\ events[1] = trade
        /\ Len(events) = 2 => events[2] = snap
    <2>1. /\ Len(<<trade>>) = 1 /\ <<trade>>[1] = trade
          /\ Len(<<trade, snap>>) = 2 /\ <<trade, snap>>[1] = trade /\ <<trade, snap>>[2] = snap
      OBVIOUS
    <2> QED BY <1>5, <2>1
  <1>7. Published(events)
    BY <1>4
  <1>8. ASSUME NEW i \in 1..Len(lane'), i \notin 1..Len(lane)
        PROVE  \/ i = Len(lane) + 1 /\ lane'[i] = trade
               \/ i = Len(lane) + 2 /\ lane'[Len(lane) + 1] = trade /\ lane'[i] = snap
    <2>1. Len(lane') \in Nat
      BY <1>7 DEF Published
    <2>2. i - Len(lane) \in 1..Len(events) /\ lane'[i] = events[i - Len(lane)]
      BY <1>7, <1>8 DEF Published
    <2>3. CASE i = Len(lane) + 1
      BY <1>6, <2>2, <2>3
    <2>4. CASE i = Len(lane) + 2
      <3>1. PICK k : k = Len(lane) + 1
        OBVIOUS
      <3>2. k \in 1..Len(lane') /\ k \notin 1..Len(lane) /\ k - Len(lane) = 1
        BY <2>1, <2>4, <3>1
      <3>3. lane'[k] = events[1]
        BY <1>7, <3>2 DEF Published
      <3>4. i - Len(lane) = 2 /\ Len(events) = 2
        BY <1>6, <2>2, <2>4
      <3> QED BY <1>6, <2>2, <2>4, <3>1, <3>3, <3>4
    <2>5. i - Len(lane) \in {1, 2}
      BY <1>6, <2>2
    <2> QED BY <2>1, <2>3, <2>4, <2>5
  <1> QED BY <1>1, <1>2, <1>3, <1>8 DEF FillPublished

LEMMA VenueFillCounts ==
  ASSUME FlowInv, FillInv, NEW id \in OrderIds, VenueFill(id)
  PROVE  FillInv'
  <1>0. PICK n : n = venue[id].traded + 1
    OBVIOUS
  <1>1. /\ FlowInv' /\ VenueMove(id, FillEvents(id, n)) /\ venue'[id].traded = n
        /\ venue[id].status = "queued"
    BY <1>0, VenueFillFlow DEF VenueFill, Live
  <1>2. Len(lane) \in Nat /\ Len(lane') \in Nat /\ n \in Nat
    BY <1>0, LenProperties DEF FlowInv, LaneTypeOK, ExtTypeOK
  <1>3. /\ UNCHANGED omsVars /\ Present(id) /\ \A j \in OrderIds \ {id} : venue'[j] = venue[j]
        /\ Published(FillEvents(id, n))
    BY <1>1 DEF VenueMove
  <1>4. FillPublished(id, n) /\ \A i \in 1..Len(lane) : lane'[i] = lane[i]
    BY <1>2, <1>3, FillEventsFacts DEF FillInv, Published
  <1>5. CallsKept /\ RowsKept /\ orders' = orders /\ applied' = applied
    BY <1>3, NothingChanges DEF FlowInv, TablesKept, omsVars
  <1>6. \A j \in OrderIds : venue[j].traded \in Nat
    BY DEF FlowInv, ExtTypeOK
  <1>7. VenueGoesOn
    BY <1>0, <1>1, <1>3, <1>6 DEF VenueGoesOn
  <1>8. CountInv' /\ AppliedInv'
    BY <1>1, <1>5, <1>7, CountsFrame
  <1>9. PICK trade : trade = TradeEvent(id, n)
    OBVIOUS
  <1>10. trade.kind = "trade" /\ trade.report.key = <<id, n>>
    BY <1>9 DEF TradeEvent
  <1>11. ASSUME NEW i \in 1..Len(lane), NEW m \in Nat, IsTrade(lane[i], id, m)
         PROVE  m < n
    <2>1. m <= venue[id].traded
      BY <1>11, TradeCounted
    <2> QED BY <1>0, <1>6, <2>1
  <1>12. ASSUME NEW m \in Nat, Applied(id, m)
         PROVE  m < n
    <2>1. m <= venue[id].traded
      BY <1>12 DEF FillInv, AppliedInv
    <2> QED BY <1>0, <1>6, <2>1
  <1>13. ASSUME NEW k \in OrderIds, NEW j \in 1..Len(lane')
         PROVE  TradeInOrder(k, j)' /\ SnapshotInOrder(k, j)'
    <2>1. CASE j \in 1..Len(lane)
      <3>1. \A i \in 1..j : i \in 1..Len(lane)
        BY <1>2, <2>1
      <3> QED BY <1>1, <1>4, <1>5, <2>1, <3>1, EntryFrame
    <2>2. CASE j = Len(lane) + 1 /\ lane'[j] = trade
      <3>1. SnapshotInOrder(k, j)'
        BY <1>10, <2>2 DEF SnapshotInOrder, IsFillSnapshot
      <3>2. TradeInOrder(k, j)'
        <4> SUFFICES ASSUME NEW p \in Nat, IsTrade(trade, k, p)
                     PROVE  /\ \A m \in Nat : Applied(k, m) => m < p
                            /\ \A i \in 1..(j-1), m \in Nat : IsTrade(lane'[i], k, m) => m < p
          BY <1>5, <2>2 DEF TradeInOrder, Applied, IsTrade
        <4>1. k = id /\ p = n
          BY <1>10 DEF IsTrade
        <4>2. \A i \in 1..(j-1) : i \in 1..Len(lane) /\ lane'[i] = lane[i]
          BY <1>2, <1>4, <2>2
        <4> QED BY <1>11, <1>12, <4>1, <4>2
      <3> QED BY <3>1, <3>2
    <2>3. CASE /\ j = Len(lane) + 2 /\ lane'[Len(lane) + 1] = trade
               /\ \E status \in Statuses : lane'[j] = OrderEvent(id, status, n)
      <3>1. PICK e : e = lane'[j]
        OBVIOUS
      <3>2. e.kind = "order" /\ e.report.client = orders[id].client /\ e.report.traded = n
        BY <2>3, <3>1 DEF OrderEvent
      <3>3. TradeInOrder(k, j)'
        BY <3>1, <3>2 DEF TradeInOrder, IsTrade
      <3>4. SnapshotInOrder(k, j)'
        <4> SUFFICES ASSUME Present(k), orders[k].client = orders[id].client
                     PROVE  \E i \in 1..(j-1) : IsTrade(lane'[i], k, n)
          BY <1>5, <3>1, <3>2 DEF SnapshotInOrder, IsFillSnapshot, IsTrade, Present
        <4>1. k = id
          <5>1. orders[id].client \in ClientIds
            BY <1>3 DEF FlowInv, RowsInv
          <5> QED BY <1>3, <5>1, IdFacts DEF FlowInv, OmsInv, IndexConsistent
        <4>2. Len(lane) + 1 \in 1..(j-1)
          BY <1>2, <2>3
        <4> QED BY <1>10, <2>3, <4>1, <4>2 DEF IsTrade
      <3> QED BY <3>3, <3>4
    <2> QED BY <1>4, <1>9, <2>1, <2>2, <2>3 DEF FillPublished
  <1> QED BY <1>8, <1>13 DEF FillInv, InOrderInv

LEMMA VenueRepeatCounts ==
  ASSUME FlowInv, FillInv, NEW id \in OrderIds, VenueRepeat(id)
  PROVE  FillInv'
  <1>0. PICK n : n = venue[id].traded
    OBVIOUS
  <1>1. /\ FlowInv' /\ VenueMove(id, <<TradeEvent(id, n)>>)
        /\ venue'[id].traded = n /\ venue'[id].status = venue[id].status /\ lane = <<>>
    BY <1>0, VenueRepeatFlow
  <1>2. /\ UNCHANGED omsVars /\ \A j \in OrderIds \ {id} : venue'[j] = venue[j]
        /\ Published(<<TradeEvent(id, n)>>)
    BY <1>1 DEF VenueMove
  <1>3. CallsKept /\ RowsKept /\ orders' = orders /\ applied' = applied
    BY <1>2, NothingChanges DEF FlowInv, TablesKept, omsVars
  <1>4. \A j \in OrderIds : venue[j].traded \in Nat
    BY DEF FlowInv, ExtTypeOK
  <1>5. VenueGoesOn
    BY <1>0, <1>1, <1>2, <1>4 DEF VenueGoesOn
  <1>6. CountInv' /\ AppliedInv'
    BY <1>1, <1>3, <1>5, CountsFrame
  <1>7. PICK trade : trade = TradeEvent(id, n)
    OBVIOUS
  <1>8. trade.kind = "trade" /\ trade.report.key = <<id, n>>
    BY <1>7 DEF TradeEvent
  <1>9. ASSUME NEW j \in 1..Len(lane')
        PROVE  j = 1 /\ lane'[j] = trade
    <2>1. PICK events : events = <<trade>>
      OBVIOUS
    <2>2. Len(events) = 1 /\ events[1] = trade
      BY <2>1
    <2>3. Published(events)
      BY <1>2, <1>7, <2>1
    <2>4. Len(lane) = 0
      BY <1>1
    <2>5. j \notin 1..Len(lane) /\ j \in Nat
      BY <2>3, <2>4 DEF Published
    <2>6. j - Len(lane) \in 1..Len(events) /\ lane'[j] = events[j - Len(lane)]
      BY <2>3, <2>5 DEF Published
    <2> QED BY <2>2, <2>4, <2>5, <2>6
  <1>10. ASSUME NEW m \in Nat, Applied(id, m), ~Applied(id, n)
         PROVE  m < n
    <2>1. m <= n /\ m # n
      BY <1>0, <1>10 DEF FillInv, AppliedInv
    <2> QED BY <1>0, <1>4, <2>1
  <1>11. ASSUME NEW k \in OrderIds, NEW j \in 1..Len(lane')
         PROVE  TradeInOrder(k, j)' /\ SnapshotInOrder(k, j)'
    <2>1. j = 1 /\ lane'[j] = trade
      BY <1>9
    <2>2. SnapshotInOrder(k, j)'
      BY <1>8, <2>1 DEF SnapshotInOrder, IsFillSnapshot
    <2>3. TradeInOrder(k, j)'
      <3> SUFFICES ASSUME NEW p \in Nat, IsTrade(trade, k, p), ~Applied(k, p)
                   PROVE  \A m \in Nat : Applied(k, m) => m < p
        BY <1>3, <2>1 DEF TradeInOrder, Applied, IsTrade
      <3>1. k = id /\ p = n
        BY <1>8 DEF IsTrade
      <3> QED BY <1>10, <3>1
    <2> QED BY <2>2, <2>3
  <1> QED BY <1>6, <1>11 DEF FillInv, InOrderInv

LEMMA SendFill ==
  ASSUME FlowInv, FillInv, WorkerSend
  PROVE  FillInv'
  <1>0. PICK id : id = worker.item.id
    OBVIOUS
  <1>1. PICK rc \in Results, taken \in BOOLEAN : FlowInv' /\ SendMove(id, rc, taken)
    BY <1>0, WorkerSendFlow
  <1>2. CallsKept /\ RowsKept /\ applied' = applied
    BY <1>1, NothingChanges DEF SendMove, FlowInv, TablesKept, omsVars
  <1>3. Len(lane) \in Nat /\ \A j \in OrderIds : venue[j].traded \in Nat
    BY LenProperties DEF FlowInv, LaneTypeOK, ExtTypeOK
  <1>4. VenueGoesOn
    <2>1. venue' = venue \/ venue' = [venue EXCEPT ![id].status = "queued"]
      BY <1>1 DEF SendMove
    <2>2. venue[id].status = "none"
      BY <1>1 DEF SendMove
    <2>3. venue \in [OrderIds -> [status : {"none", "queued", "filled", "canceled", "rejected"},
                                  traded : Nat, asked : BOOLEAN, repeated : BOOLEAN]]
      BY DEF FlowInv, ExtTypeOK
    <2> QED BY <1>3, <2>1, <2>2, <2>3 DEF VenueGoesOn
  <1>5. CASE ~taken
    BY <1>1, <1>2, <1>4, <1>5, FillFrameSameLane DEF SendMove
  <1>6. CASE taken
    <2>1. PICK e : e = OrderEvent(id, "New", 0)
      OBVIOUS
    <2>2. PICK events : events = <<e>>
      OBVIOUS
    <2>3. Len(events) = 1 /\ events[1] = e
      BY <2>2
    <2>4. Published(events)
      BY <1>1, <1>6, <2>1, <2>2 DEF SendMove
    <2>5. e.kind = "order" /\ e.report.status = "New"
      BY <2>1 DEF OrderEvent
    <2>6. ASSUME NEW i \in 1..Len(lane'), i \notin 1..Len(lane)
          PROVE  lane'[i] = e
      <3>1. i - Len(lane) \in 1..1 /\ lane'[i] = events[i - Len(lane)]
        BY <2>3, <2>4, <2>6 DEF Published
      <3>2. i - Len(lane) = 1
        BY <3>1
      <3> QED BY <2>3, <3>1, <3>2
    <2> QED BY <1>1, <1>2, <1>4, <2>4, <2>5, <2>6, FillFrame DEF Published
  <1> QED BY <1>5, <1>6

LEMMA VenueAnswerFill ==
  ASSUME FlowInv, FillInv, NEW id \in OrderIds, VenueCancel(id) \/ VenueReject(id)
  PROVE  FillInv'
  <1>1. PICK status, traded :
          /\ status \in {"Canceled", "Rejected"}
          /\ FlowInv' /\ VenueMove(id, <<OrderEvent(id, status, traded)>>)
          /\ venue'[id].traded = venue[id].traded
    BY VenueCancelFlow, VenueRejectFlow
  <1>2. venue[id].status = "queued"
    BY DEF VenueCancel, VenueReject, Live
  <1>3. CallsKept /\ RowsKept /\ applied' = applied
    BY <1>1, NothingChanges DEF VenueMove, FlowInv, TablesKept, omsVars
  <1>4. \A j \in OrderIds : venue[j].traded \in Nat
    BY DEF FlowInv, ExtTypeOK
  <1>5. VenueGoesOn
    BY <1>1, <1>2, <1>4 DEF VenueGoesOn, VenueMove
  <1>6. PICK e : e = OrderEvent(id, status, traded)
    OBVIOUS
  <1>7. PICK events : events = <<e>>
    OBVIOUS
  <1>8. Len(events) = 1 /\ events[1] = e
    BY <1>7
  <1>9. Published(events)
    BY <1>1, <1>6, <1>7 DEF VenueMove
  <1>10. e.kind = "order" /\ e.report.status \in {"Canceled", "Rejected"}
    BY <1>1, <1>6 DEF OrderEvent
  <1>11. ASSUME NEW i \in 1..Len(lane'), i \notin 1..Len(lane)
         PROVE  lane'[i] = e
    <2>1. i - Len(lane) \in 1..1 /\ lane'[i] = events[i - Len(lane)]
      BY <1>8, <1>9, <1>11 DEF Published
    <2>2. i - Len(lane) = 1
      BY <2>1, LenProperties DEF FlowInv, LaneTypeOK
    <2> QED BY <1>8, <2>1, <2>2
  <1> QED BY <1>1, <1>3, <1>5, <1>9, <1>10, <1>11, FillFrame DEF Published

\* Handling the head of the lane keeps the rest in order: what the head was
\* relied on for, the tables now show.
LEMMA LaneAdvances ==
  ASSUME FlowInv, FlowInv', FillInv, NEW e, NEW id \in OrderIds, ReportMove(e, id),
         \A k \in OrderIds, m \in Nat : Applied(k, m) => <<k, m>> \in applied',
         \A k \in OrderIds, m \in Nat :
           <<k, m>> \in applied' => Applied(k, m) \/ IsTrade(e, k, m),
         \A k \in OrderIds, m \in Nat :
           IsTrade(e, k, m) => Dead(k)' \/ <<k, m>> \in applied'
  PROVE  InOrderInv'
  <1>1. /\ Len(lane) \in Nat \ {0} /\ e = lane[1] /\ e \in Event
        /\ Len(lane') = Len(lane) - 1 /\ \A i \in 1..Len(lane') : lane'[i] = lane[i + 1]
        /\ RowsKept /\ NoNewRows
    BY DEF ReportMove, TablesKept
  <1>2. ASSUME NEW k \in OrderIds, NEW j \in 1..Len(lane')
        PROVE  TradeInOrder(k, j)' /\ SnapshotInOrder(k, j)'
    <2>1. j + 1 \in 1..Len(lane) /\ lane'[j] = lane[j + 1] /\ j \in Nat
      BY <1>1
    <2>2. TradeInOrder(k, j + 1) /\ SnapshotInOrder(k, j + 1)
      BY <2>1 DEF FillInv, InOrderInv
    <2>3. \A i \in 1..(j-1) : i + 1 \in 1..j /\ lane'[i] = lane[i + 1]
      BY <1>1
    <2>4. \A i \in 1..j : i = 1 \/ (i - 1 \in 1..(j-1) /\ lane'[i - 1] = lane[i])
      <3> SUFFICES ASSUME NEW i \in 1..j, i # 1
                   PROVE  i - 1 \in 1..(j-1) /\ lane'[i - 1] = lane[i]
        OBVIOUS
      <3>1. PICK h \in 1..(j-1) : h = i - 1
        BY <2>1
      <3>2. lane'[h] = lane[h + 1] /\ h + 1 = i
        BY <2>3, <3>1
      <3> QED BY <3>1, <3>2
    <2>5. (j + 1) - 1 = j /\ 1 \in 1..j
      BY <2>1
    <2>6. TradeInOrder(k, j)'
      <3> SUFFICES ASSUME NEW n \in Nat, IsTrade(lane[j + 1], k, n), <<k, n>> \notin applied'
                   PROVE  /\ \A m \in Nat : <<k, m>> \in applied' => m < n
                          /\ \A i \in 1..(j-1), m \in Nat : IsTrade(lane'[i], k, m) => m < n
        BY <2>1 DEF TradeInOrder, Applied, IsTrade
      <3>1. ~Applied(k, n)
        OBVIOUS
      <3>2. /\ \A m \in Nat : Applied(k, m) => m < n
            /\ \A i \in 1..j, m \in Nat : IsTrade(lane[i], k, m) => m < n
        BY <2>2, <2>5, <3>1 DEF TradeInOrder
      <3>3. \A m \in Nat : <<k, m>> \in applied' => m < n
        BY <1>1, <2>5, <3>2
      <3> QED BY <2>3, <3>2, <3>3
    <2>7. SnapshotInOrder(k, j)'
      <3> SUFFICES ASSUME Present(k)', IsFillSnapshot(lane[j], k)'
                   PROVE  \/ Dead(k)' \/ Applied(k, lane[j].report.traded)'
                          \/ \E i \in 1..(j-1) : IsTrade(lane[i], k, lane[j].report.traded)'
        BY DEF SnapshotInOrder
      <3>1. PICK f \in Event : f = lane[j + 1]
        BY <2>1, LaneAbout
      <3>2. Present(k) /\ IsFillSnapshot(f, k)
        <4>1. Present(k)
          BY <1>1 DEF NoNewRows
        <4>2. orders'[k].client = orders[k].client
          BY <1>1, <4>1, RowsStay DEF FlowInv
        <4> QED BY <2>1, <3>1, <4>1, <4>2 DEF IsFillSnapshot
      <3>3. PICK t \in Nat : t = f.report.traded
        BY <3>2 DEF IsFillSnapshot, Event, OrderReport
      <3>4. Dead(k) \/ Applied(k, t) \/ \E i \in 1..j : IsTrade(lane[i], k, t)
        BY <2>2, <2>5, <3>1, <3>2, <3>3 DEF SnapshotInOrder
      <3>5. Dead(k) => Dead(k)'
        BY <1>1, <3>2 DEF RowsKept, RowKept, RowStep, Dead, Terminal
      <3>6. \A i \in 1..j : IsTrade(lane[i], k, t) =>
              \/ Dead(k)' \/ <<k, t>> \in applied'
              \/ \E h \in 1..(j-1) : IsTrade(lane'[h], k, t)
        BY <1>1, <2>4
      <3> QED BY <2>1, <3>1, <3>3, <3>4, <3>5, <3>6 DEF Applied, IsTrade
    <2> QED BY <2>6, <2>7
  <1> QED BY <1>2 DEF InOrderInv

\* The head of the lane comes after nothing: its trade is the next one, and what
\* its snapshot counts has been applied.
LEMMA HeadInOrder ==
  ASSUME FlowInv, FillInv, NEW e, NEW id \in OrderIds, ReportMove(e, id)
  PROVE  /\ \A n, m \in Nat : IsTrade(e, id, n) /\ ~Applied(id, n) /\ Applied(id, m) => m < n
         /\ IsFillSnapshot(e, id) => Dead(id) \/ Applied(id, e.report.traded)
  <1>1. Len(lane) \in Nat \ {0} /\ e = lane[1] /\ Present(id)
    BY DEF ReportMove
  <1>2. TradeInOrder(id, 1) /\ SnapshotInOrder(id, 1)
    BY <1>1 DEF FillInv, InOrderInv
  <1>3. \A i \in 1..(1-1) : FALSE
    OBVIOUS
  <1> QED BY <1>1, <1>2, <1>3 DEF TradeInOrder, SnapshotInOrder

LEMMA SnapshotCounts ==
  ASSUME FlowInv, FlowInv', FillInv, NEW e, NEW id \in OrderIds, ReportMove(e, id),
         e.kind = "order"
  PROVE  FillInv'
  <1> DEFINE old == orders[id]
             new == orders'[id]
             r   == e.report
  <1>1. /\ e \in Event /\ EventAbout(e, id) /\ Present(id) /\ applied' = applied
        /\ \A j \in OrderIds \ {id} : orders'[j] = orders[j]
        /\ venue' = venue /\ new = Merged(old, r) /\ RowsKept /\ NoNewRows
    BY DEF ReportMove, extVars, TablesKept
  <1>2. /\ old \in Entry /\ old.state \in Lifecycle /\ r \in OrderReport
        /\ r.volume = old.volume /\ r.status # "Unknown" /\ r.client = old.client
        /\ r.traded <= venue[id].traded /\ (r.status = "New" => r.traded = 0)
        /\ (r.status = "Filled" => r.traded = old.volume)
    BY <1>1, RowTyped DEF FlowInv, EventAbout, Event
  <1>3. /\ RowKept(old, new)
        /\ \/ new = old
           \/ /\ new.traded = r.traded /\ new.status = r.status
              /\ new.state = r.status \/ (new.state = old.state /\ r.status = "New")
    BY <1>1, <1>2, MergedKept
  <1>4. r.status \in {"PartiallyFilled", "Filled"} => Dead(id) \/ Applied(id, r.traded)
    BY <1>1, <1>2, HeadInOrder DEF IsFillSnapshot
  <1>5. r.status \in Statuses /\ r.traded \in Nat
    BY <1>2 DEF OrderReport
  <1>6. /\ new.volume = old.volume /\ (Dead(id) => new.state \in {"Canceled", "Rejected"})
        /\ (Dead(id) => new.state = old.state)
    BY <1>3 DEF RowKept, RowStep, Dead, Terminal
  <1>7. /\ old.traded <= venue[id].traded
        /\ old.traded > 0 /\ ~Dead(id) => \E m \in Nat : Applied(id, m) /\ old.traded <= m
        /\ old.state = "Filled" => Applied(id, old.volume)
        /\ old.status = "Filled" => venue[id].status = "filled"
    BY <1>1 DEF FillInv, CountInv
  <1>8. r.status = "Filled" => venue[id].status = "filled"
    <2>1. venue[id].status # "none" /\ venue[id].traded \in Nat /\ old.volume \in Nat
      BY <1>1, <1>2 DEF EventAbout, FlowInv, ExtTypeOK, Entry
    <2>2. venue[id].traded <= old.volume
      BY <2>1 DEF FlowInv, VenueInv
    <2>3. r.status = "Filled" => venue[id].traded = old.volume
      BY <1>2, <2>1, <2>2
    <2> QED BY <2>1, <2>3 DEF FlowInv, VenueInv
  <1>9. /\ new.traded <= venue[id].traded
        /\ new.traded > 0 /\ new.state \notin {"Canceled", "Rejected"} =>
             \E m \in Nat : Applied(id, m) /\ new.traded <= m
        /\ new.state = "Filled" => Applied(id, new.volume)
        /\ new.status = "Filled" => venue[id].status = "filled"
    <2>1. CASE new = old
      BY <1>7, <2>1 DEF Dead
    <2>2. CASE /\ new.traded = r.traded /\ new.status = r.status
               /\ new.state = r.status \/ (new.state = old.state /\ r.status = "New")
      <3> HIDE DEF new, old, r
      <3>1. r.traded <= r.traded
        BY <1>5
      <3>2. r.status \in {"New", "PartiallyFilled", "Filled", "Canceled", "Rejected"}
        BY <1>2, <1>5 DEF Statuses
      <3>3. new.traded > 0 => r.status # "New"
        BY <1>2, <2>2
      <3>4. new.traded > 0 /\ new.state \notin {"Canceled", "Rejected"} =>
              r.status \in {"PartiallyFilled", "Filled"} /\ Applied(id, r.traded)
        BY <1>4, <1>6, <2>2, <3>2, <3>3
      <3>5. new.state = "Filled" => Applied(id, new.volume)
        BY <1>2, <1>4, <1>6, <1>7, <2>2 DEF Dead
      <3> QED BY <1>2, <1>5, <1>8, <2>2, <3>1, <3>4, <3>5
    <2> QED BY <1>3, <2>1, <2>2
  <1>10. CountInv'
    <2> SUFFICES ASSUME NEW j \in OrderIds, Present(j)'
                 PROVE  /\ orders'[j].traded <= venue[j].traded
                        /\ orders'[j].traded > 0 /\ orders'[j].state \notin {"Canceled", "Rejected"} =>
                             \E m \in Nat : Applied(j, m) /\ orders'[j].traded <= m
                        /\ orders'[j].state = "Filled" => Applied(j, orders'[j].volume)
                        /\ orders'[j].status = "Filled" => venue[j].status = "filled"
      BY <1>1 DEF CountInv, Dead, Applied
    <2>1. Present(j)
      BY <1>1 DEF NoNewRows
    <2>2. CASE j = id
      BY <1>9, <2>2
    <2>3. CASE j # id
      BY <1>1, <2>1, <2>3 DEF FillInv, CountInv, Dead
    <2> QED BY <2>2, <2>3
  <1>11. AppliedInv'
    BY <1>1 DEF FillInv, AppliedInv, Applied
  <1>12. InOrderInv'
    <2>1. \A k \in OrderIds, m \in Nat : ~IsTrade(e, k, m)
      BY DEF IsTrade
    <2> QED BY <1>1, <2>1, LaneAdvances DEF Applied
  <1> QED BY <1>10, <1>11, <1>12 DEF FillInv

LEMMA TradeCounts ==
  ASSUME FlowInv, FlowInv', FillInv, NEW e, NEW id \in OrderIds, ReportMove(e, id),
         e.kind = "trade", TradeAccepted(id, e.report),
         applied' = applied \cup {e.report.key},
         orders'[id] = Traded(orders[id], e.report)
  PROVE  FillInv'
  <1> DEFINE old == orders[id]
             new == orders'[id]
  <1>1. /\ e \in Event /\ EventAbout(e, id) /\ Present(id)
        /\ \A j \in OrderIds \ {id} : orders'[j] = orders[j]
        /\ venue' = venue /\ NoNewRows
    BY DEF ReportMove, extVars
  <1>2. PICK n \in 1..venue[id].traded : e.report.key = <<id, n>> /\ e.report.volume = 1
    BY <1>1 DEF EventAbout
  <1>3. /\ old \in Entry /\ old.state \in Lifecycle
        /\ venue[id].traded \in Nat /\ old.volume \in Nat /\ old.traded \in Nat
    BY <1>1, RowTyped DEF FlowInv, Entry, ExtTypeOK
  <1>4. /\ venue[id].traded <= old.volume
        /\ venue[id].traded = old.volume <=> venue[id].status = "filled"
    BY <1>1 DEF EventAbout, FlowInv, VenueInv
  <1>5. CanTransition(old.state, TradeState(old, e.report)) /\ ~Applied(id, n)
    BY <1>2 DEF TradeAccepted, Applied
  <1>6. ~Dead(id)
    <2>1. TradeState(old, e.report) \in {"Filled", "PartiallyFilled"}
      BY DEF TradeState
    <2> QED BY <1>5, <2>1 DEF Dead, CanTransition, Successors
  <1>7. /\ new.volume = old.volume /\ new.traded = old.traded + 1
        /\ new.status = new.state
        /\ new.state = "Filled" => old.traded + 1 >= old.volume
    <2>1. e.report.volume \in Nat
      BY <1>2
    <2>2. RowKept(old, Traded(old, e.report))
      BY <1>3, <1>5, <2>1, TradedKept
    <2> QED BY <1>2, <1>3, <1>5, <2>1, <2>2, TradedKept DEF RowKept
  <1>8. IsTrade(e, id, n) /\ n \in Nat
    BY <1>2, <1>3 DEF IsTrade
  <1>9. \A m \in Nat : Applied(id, m) => m < n
    BY <1>5, <1>8, HeadInOrder
  <1>10. old.traded + 1 <= n
    <2>1. CASE old.traded = 0
      BY <2>1
    <2>2. CASE old.traded > 0
      <3>1. PICK m \in Nat : Applied(id, m) /\ old.traded <= m
        BY <1>1, <1>6, <2>2 DEF FillInv, CountInv
      <3> QED BY <1>3, <1>9, <3>1
    <2> QED BY <1>3, <2>1, <2>2
  <1>11. /\ new.traded <= venue[id].traded /\ new.traded <= n
         /\ new.state = "Filled" => n = old.volume /\ venue[id].status = "filled"
    <2> HIDE DEF old, new
    <2> QED BY <1>3, <1>4, <1>7, <1>8, <1>10
  <1>12. \A k \in OrderIds, m \in Nat :
           <<k, m>> \in applied' <=> Applied(k, m) \/ (k = id /\ m = n)
    BY <1>2 DEF Applied
  <1>13. CountInv'
    <2> SUFFICES ASSUME NEW j \in OrderIds, Present(j)'
                 PROVE  /\ orders'[j].traded <= venue[j].traded
                        /\ orders'[j].traded > 0 /\ orders'[j].state \notin {"Canceled", "Rejected"} =>
                             \E m \in Nat : <<j, m>> \in applied' /\ orders'[j].traded <= m
                        /\ orders'[j].state = "Filled" => <<j, orders'[j].volume>> \in applied'
                        /\ orders'[j].status = "Filled" => venue[j].status = "filled"
      BY <1>1 DEF CountInv, Dead, Applied
    <2>1. Present(j)
      BY <1>1 DEF NoNewRows
    <2>2. CASE j = id
      BY <1>3, <1>7, <1>8, <1>11, <1>12, <2>2
    <2>3. CASE j # id
      <3>1. orders'[j] = orders[j] /\ orders[j].volume \in Nat
        BY <1>1, <2>1, <2>3, RowTyped DEF FlowInv, Entry
      <3> QED BY <1>12, <2>1, <3>1 DEF FillInv, CountInv, Dead
    <2> QED BY <2>2, <2>3
  <1>14. AppliedInv'
    <2>1. \A j \in OrderIds, m \in Nat : Applied(j, m) => m <= venue[j].traded
      BY DEF FillInv, AppliedInv
    <2>2. \A j \in OrderIds, m \in Nat : <<j, m>> \in applied' => m <= venue[j].traded
      BY <1>3, <1>12, <2>1
    <2> QED BY <1>1, <2>2 DEF AppliedInv, Applied
  <1>15. InOrderInv'
    <2>1. \A k \in OrderIds, m \in Nat : IsTrade(e, k, m) <=> k = id /\ m = n
      BY <1>2, <1>8 DEF IsTrade
    <2> QED BY <1>12, <2>1, LaneAdvances
  <1> QED BY <1>13, <1>14, <1>15 DEF FillInv

\* A trade that is not taken was applied before, or its order is dead.
LEMMA TradeRefused ==
  ASSUME FlowInv, FlowInv', FillInv, NEW e, NEW id \in OrderIds, ReportMove(e, id),
         e.kind = "trade", ~TradeAccepted(id, e.report), UNCHANGED omsVars
  PROVE  FillInv'
  <1>1. /\ e \in Event /\ EventAbout(e, id) /\ Present(id) /\ Unsendable(id) /\ id # NoId
        /\ venue' = venue /\ NoNewRows
    BY FindAbout, IdFacts DEF ReportMove, extVars
  <1>2. PICK n \in 1..venue[id].traded : e.report.key = <<id, n>> /\ e.report.volume = 1
    BY <1>1 DEF EventAbout
  <1>3. /\ orders[id] \in Entry /\ orders[id].state \in Lifecycle
        /\ venue[id].traded \in Nat /\ orders[id].volume \in Nat
    BY <1>1, RowTyped DEF FlowInv, Entry, ExtTypeOK
  <1>4. venue[id].traded <= orders[id].volume
    BY <1>1 DEF EventAbout, FlowInv, VenueInv
  <1>5. IsTrade(e, id, n) /\ n \in Nat
    BY <1>2, <1>3 DEF IsTrade
  <1>6. Dead(id) \/ Applied(id, n)
    <2> SUFFICES ASSUME ~Applied(id, n), ~Dead(id) PROVE FALSE
      OBVIOUS
    <2>1. ~CanTransition(orders[id].state, TradeState(orders[id], e.report))
      BY <1>1, <1>2 DEF TradeAccepted, Applied
    <2>2. TradeState(orders[id], e.report) \in {"Filled", "PartiallyFilled"}
      BY DEF TradeState
    <2>3. orders[id].state = "Filled"
      BY <1>1, <1>3, <2>1, <2>2
      DEF Dead, CanTransition, Successors, Lifecycle, PreSend, Terminal, Unsendable
    <2>4. Applied(id, orders[id].volume)
      BY <1>1, <2>3 DEF FillInv, CountInv
    <2>5. orders[id].volume < n
      BY <1>3, <1>5, <2>4, HeadInOrder
    <2> QED BY <1>3, <1>4, <2>5
  <1>7. orders' = orders /\ applied' = applied
    BY DEF omsVars
  <1>8. CountInv' /\ AppliedInv'
    BY <1>1, <1>7 DEF FillInv, CountInv, AppliedInv, Applied, Dead, Present
  <1>9. InOrderInv'
    <2>1. \A k \in OrderIds, m \in Nat : IsTrade(e, k, m) <=> k = id /\ m = n
      BY <1>2, <1>5 DEF IsTrade
    <2> QED BY <1>6, <1>7, <2>1, LaneAdvances DEF Applied, Dead
  <1> QED BY <1>8, <1>9 DEF FillInv

LEMMA FillStep ==
  FlowInv /\ FillInv /\ [FlowNext]_vars => FillInv'
  <1> SUFFICES ASSUME FlowInv, FillInv, [FlowNext]_vars PROVE FillInv'
    OBVIOUS
  <1>0. FlowInv' /\ TablesKept
    BY FlowStep
  <1>1. CASE (\E s \in Submissions : Submit(s)) \/ (\E k \in Cancellations : Cancel(k)) \/ StopEms
    BY <1>0, <1>1, SubmitFlow, CancelFlow, StopFlow, CallerIsInner, InnerFill
  <1>2. CASE Worker
    <2>1. CASE WorkerSend
      BY <2>1, SendFill
    <2>2. CASE ~WorkerSend
      BY <1>0, <1>2, <2>2, WorkerTakeFlow, WorkerMarkFlow, WorkerRefusedFlow,
         WorkerRecordSendFlow, WorkerReleaseFlow, WorkerCancelFlow, WorkerRecordCancelFlow,
         InnerFill DEF Worker
    <2> QED BY <2>1, <2>2
  <1>3. CASE \E id \in OrderIds : Venue(id)
    BY <1>3, VenueFillCounts, VenueAnswerFill, VenueRepeatCounts DEF Venue
  <1>4. CASE HandleReport
    <2>1. PICK e \in Event, id \in OrderIds : ReportMove(e, id)
      BY <1>4, HandleReportFlow
    <2>2. CASE e.kind = "order"
      BY <1>0, <2>1, <2>2, SnapshotCounts
    <2>3. CASE e.kind = "trade"
      BY <1>0, <2>1, <2>3, TradeCounts, TradeRefused DEF ReportMove
    <2> QED BY <2>2, <2>3 DEF Event
  <1>5. CASE FinishReport \/ UNCHANGED vars
    <2>1. UNCHANGED <<omsVars, venue, lane>>
      BY <1>5, FinishReportFlow DEF FinishMove, vars, extVars, laneVars
    <2>2. CallsKept /\ RowsKept /\ applied' = applied
      BY <2>1, NothingChanges DEF FlowInv, TablesKept, omsVars
    <2>3. VenueGoesOn
      BY <2>1 DEF VenueGoesOn, FlowInv, ExtTypeOK
    <2> QED BY <1>0, <2>1, <2>2, <2>3, FillFrameSameLane
  <1> QED BY <1>1, <1>2, <1>3, <1>4, <1>5 DEF FlowNext, LaneThread

LEMMA FillInitially == FlowInit /\ VenueStyle # "report_trade" => FillInv
  <1> SUFFICES ASSUME FlowInit, VenueStyle # "report_trade" PROVE FillInv
    OBVIOUS
  <1>1. (\A id : ~Present(id)) /\ applied = {} /\ lane = <<>>
    BY DEF FlowInit, EmptyTables, Present, Absent
  <1>2. \A i \in 1..Len(lane) : FALSE
    BY <1>1
  <1> QED BY <1>1, <1>2 DEF FillInv, CountInv, AppliedInv, InOrderInv, Applied

\* With a venue that reports each trade no later than the snapshot counting it,
\* what the OMS counts, it has seen trade by trade and in order.
THEOREM FillInvariant == FlowSpec /\ VenueStyle # "report_trade" => []FillInv
  BY FillInitially, FillStep, FlowInvariant, PTL DEF FlowSpec

\* With such a venue the OMS never counts more volume as traded than the venue
\* has traded: not when trades and snapshots of one fill both come, not when one
\* comes twice, and not when Lane-T has dropped some.
THEOREM CountsNoMoreThanVenue ==
  FlowSpec /\ VenueStyle # "report_trade" => []NeverAheadOfVenue
  <1>1. FillInv => NeverAheadOfVenue
    BY DEF FillInv, CountInv, NeverAheadOfVenue
  <1> QED BY <1>1, FillInvariant, PTL

-----------------------------------------------------------------------------
(* That what can still trade is covered and not called rejected.           *)

\* A step makes no live order rejected, and takes from none its reservation.
RejectKept ==
  \A id \in OrderIds : Live(id)' /\ orders'[id].state = "Rejected" =>
    Live(id) /\ orders[id].state = "Rejected"

CoverKept ==
  \A id \in OrderIds : Live(id)' /\ ~TimedOut(id)' =>
    \/ reservation'[id] = "reserved"
    \/ Live(id) /\ ~TimedOut(id) /\ reservation'[id] = reservation[id]

LEMMA RejectFrame ==
  ASSUME \A id \in OrderIds : Live(id)' =>
           /\ Live(id)
           /\ orders'[id].state = "Rejected" => orders[id].state = "Rejected"
  PROVE  RejectKept
  BY DEF RejectKept

LEMMA CoverFrame ==
  ASSUME sends' = sends,
         \A id \in OrderIds : Live(id)' =>
           /\ Live(id)
           /\ reservation'[id] = reservation[id] \/ TimedOut(id)
           /\ orders'[id].state = "Rejected" => orders[id].state = "Rejected"
  PROVE  RejectKept /\ CoverKept
  BY DEF RejectKept, CoverKept, TimedOut

LEMMA LiveFacts ==
  ASSUME FlowInv, NEW id \in OrderIds, Live(id)
  PROVE  /\ Present(id) /\ ~Unsent(id) /\ Unsendable(id)
         /\ sends[id] \in {<<"Success">>, <<"Timeout">>}
         /\ orders[id] \in Entry /\ orders[id].state \in Lifecycle
  <1>1. venue[id].status # "none"
    BY DEF Live
  <1> QED BY <1>1, VenueFacts, RowTyped DEF FlowInv, VenueInv, Unsent

\* Who turns a row to Rejected.
LEMMA RequestRejectsNone ==
  ASSUME FlowInv, NEW id, Present(id), NEW to, to \notin {"Rejected", "Filled"},
         RequestTransition(id, to), NEW j \in OrderIds, orders'[j].state = "Rejected"
  PROVE  orders[j].state = "Rejected"
  <1>1. OneRowChanges(id, ApplyTransition(orders[id], to))
    BY RequestTables DEF FlowInv
  <1>2. orders[id] \in Entry
    BY RowTyped DEF FlowInv, Present
  <1> QED BY <1>1, <1>2 DEF OneRowChanges, ApplyTransition, Entry

LEMMA SendResultRejects ==
  ASSUME FlowInv, NEW id, Present(id), NEW rc, RecordSendResult(id, rc),
         NEW j \in OrderIds, orders'[j].state = "Rejected"
  PROVE  orders[j].state = "Rejected" \/ (j = id /\ rc \notin {"Success", "Timeout"})
  <1>1. OneRowChanges(id, SendResult(orders[id], rc))
    BY SendResultTables DEF FlowInv
  <1>2. orders[id] \in Entry /\ orders[id].state \in Lifecycle
    BY RowTyped DEF FlowInv, Present
  <1> QED BY <1>1, <1>2, SendResultKept DEF OneRowChanges

LEMMA CancelResultRejectsNone ==
  ASSUME FlowInv, NEW id, Present(id), NEW rc, RecordCancelResult(id, rc),
         NEW j \in OrderIds, orders'[j].state = "Rejected"
  PROVE  orders[j].state = "Rejected"
  <1>1. orders' = [orders EXCEPT ![id] = ApplyTransition(@, CancelTarget(@, rc))]
    BY DEF RecordCancelResult
  <1>2. orders[id] \in Entry /\ orders \in [OrderIds -> Entry]
    BY RowTyped DEF FlowInv, OmsInv, TypeOK, Present
  <1>3. CancelTarget(orders[id], rc) # "Rejected"
    BY DEF CancelTarget
  <1>4. ApplyTransition(orders[id], CancelTarget(orders[id], rc)).state = "Rejected" =>
          orders[id].state = "Rejected"
    BY <1>2, <1>3 DEF ApplyTransition, Entry
  <1> QED BY <1>1, <1>2, <1>4

LEMMA SubmitCover ==
  ASSUME FlowInv, RightsInv, NEW s \in Submissions, Submit(s)
  PROVE  RejectKept /\ CoverKept
  <1>1. UNCHANGED <<sends, venue>>
    BY SubmitFlow DEF CallerStep
  <1>2. \A id : Live(id)' <=> Live(id)
    BY <1>1 DEF Live
  <1>3. CASE Admit(s) \/ Allocate(s) \/ QueryReservation(s) \/ CheckPrepared(s) \/ Enqueue(s)
    <2>1. UNCHANGED <<orders, reservation>>
      BY <1>3 DEF Admit, Allocate, AllocateOrderId, QueryReservation, CheckPrepared, Enqueue,
                  omsVars, extVars
    <2> QED BY <1>1, <1>2, <2>1, CoverFrame
  <1>4. CASE Reserve(s)
    <2>1. PICK id : id = submit[s].oid
      OBVIOUS
    <2>2. /\ orders' = orders /\ submit[s].pc = "reserve"
          /\ reservation' = reservation
             \/ \E value : reservation' = [reservation EXCEPT ![id] = value]
      BY <1>4, <2>1 DEF Reserve, SetReservation, SubmitStep, SubmitReturns, omsVars, extVars
    <2>3. id \in OrderIds /\ ~Present(id)
      BY <2>1, <2>2, IdFacts DEF FlowInv, SubmitsInv, Preparing, Present
    <2>4. \A j \in OrderIds : Live(j) => reservation'[j] = reservation[j]
      BY <2>2, <2>3, LiveFacts DEF FlowInv, ExtTypeOK
    <2> QED BY <1>1, <1>2, <2>2, <2>4, CoverFrame
  <1>5. CASE Create(s)
    <2>1. PICK v \in Volumes : CreateOrder(Req(s, v), submit[s].oid)
      BY <1>5 DEF Create
    <2>2. PICK id, new : id = submit[s].oid /\ new = NewEntry(Req(s, v))
      OBVIOUS
    <2>3. ~Present(id)
      BY <1>5, <2>2 DEF FlowInv, SubmitsInv, Preparing, Present, Create
    <2>4. orders' = orders \/ orders' = [orders EXCEPT ![id] = new]
      BY <2>1, <2>2 DEF CreateOrder
    <2>5. \A j \in OrderIds : Live(j) => orders'[j] = orders[j]
      BY <2>3, <2>4, LiveFacts DEF FlowInv, OmsInv, TypeOK
    <2>6. reservation' = reservation
      BY <1>5 DEF Create, extVars
    <2> QED BY <1>1, <1>2, <2>5, <2>6, CoverFrame
  <1>6. CASE Mark(s)
    <2>1. /\ Present(submit[s].cid) /\ RequestTransition(submit[s].cid, "EmsQueued")
          /\ reservation' = reservation
      BY <1>6 DEF Mark, MarkEmsQueued, FlowInv, SubmitsInv, Holding, extVars
    <2>2. \A j \in OrderIds : orders'[j].state = "Rejected" => orders[j].state = "Rejected"
      BY <2>1, RequestRejectsNone
    <2> QED BY <1>1, <1>2, <2>1, <2>2, CoverFrame
  <1>7. CASE UndoSubmit(s) \/ ReleaseSubmit(s)
    <2>1. PICK id : id = submit[s].cid
      OBVIOUS
    <2>2. Present(id) /\ Unsent(id)
      BY <1>7, <2>1 DEF UndoSubmit, ReleaseSubmit, SubmitStep, FlowInv, SubmitsInv, Holding,
                        RightsInv, HeldBySubmit
    <2>3. ~Live(id)
      BY <2>2, LiveFacts DEF Present
    <2>4. CASE UndoSubmit(s)
      <3>1. RecordSendResult(id, submit[s].rc) /\ reservation' = reservation
        BY <2>1, <2>4 DEF UndoSubmit, extVars
      <3>2. \A j \in OrderIds : orders'[j].state = "Rejected" =>
              orders[j].state = "Rejected" \/ j = id
        BY <2>2, <3>1, SendResultRejects
      <3> QED BY <1>1, <1>2, <2>3, <3>1, <3>2, CoverFrame
    <2>5. CASE ReleaseSubmit(s)
      <3>1. reservation' = [reservation EXCEPT ![id] = "released"] /\ orders' = orders
        BY <2>1, <2>5 DEF ReleaseSubmit, SetReservation, omsVars
      <3>2. \A j \in OrderIds : Live(j) => reservation'[j] = reservation[j]
        BY <2>3, <3>1 DEF FlowInv, ExtTypeOK
      <3> QED BY <1>1, <1>2, <3>1, <3>2, CoverFrame
    <2> QED BY <1>7, <2>4, <2>5
  <1> QED BY <1>3, <1>4, <1>5, <1>6, <1>7 DEF Submit

LEMMA CancelCover ==
  ASSUME FlowInv, NEW k \in Cancellations, Cancel(k)
  PROVE  RejectKept /\ CoverKept
  <1>1. UNCHANGED <<sends, venue, reservation>>
    BY DEF Cancel, LookupCancel, AcceptCancel, EnqueueCancel, UndoCancel, extVars
  <1>2. \A id : Live(id)' <=> Live(id)
    BY <1>1 DEF Live
  <1>3. CASE LookupCancel(k) \/ EnqueueCancel(k)
    <2>1. orders' = orders
      BY <1>3 DEF LookupCancel, EnqueueCancel, omsVars
    <2> QED BY <1>1, <1>2, <2>1, CoverFrame
  <1>4. CASE AcceptCancel(k)
    <2>1. Present(cancel[k].id) /\ RequestTransition(cancel[k].id, "CancelPending")
      BY <1>4 DEF AcceptCancel, CancelOrder, FlowInv, ItemsInv
    <2>2. \A j \in OrderIds : orders'[j].state = "Rejected" => orders[j].state = "Rejected"
      BY <2>1, RequestRejectsNone
    <2> QED BY <1>1, <1>2, <2>2, CoverFrame
  <1>5. CASE UndoCancel(k)
    <2>1. Present(cancel[k].id) /\ RecordCancelResult(cancel[k].id, cancel[k].rc)
      BY <1>5 DEF UndoCancel, FlowInv, ItemsInv
    <2>2. \A j \in OrderIds : orders'[j].state = "Rejected" => orders[j].state = "Rejected"
      BY <2>1, CancelResultRejectsNone
    <2> QED BY <1>1, <1>2, <2>2, CoverFrame
  <1> QED BY <1>3, <1>4, <1>5 DEF Cancel

\* The send makes an order live: the worker that has marked it SendPending still
\* has the reservation made for it.
LEMMA SendCover ==
  ASSUME FlowInv, RightsInv, WorkerSend
  PROVE  RejectKept /\ CoverKept
  <1>0. PICK id : id = worker.item.id
    OBVIOUS
  <1>1. PICK rc \in Results, taken \in BOOLEAN : SendMove(id, rc, taken)
    BY <1>0, WorkerSendFlow
  <1>2. /\ UNCHANGED <<orders, reservation>> /\ worker.pc = "send" /\ Present(id) /\ id \in OrderIds
        /\ sends' = [sends EXCEPT ![id] = <<rc>>]
        /\ venue' = venue \/ venue' = [venue EXCEPT ![id].status = "queued"]
    BY <1>1 DEF SendMove, omsVars, Present
  <1>3. Covered(id) /\ orders[id].state # "Rejected"
    BY <1>0, <1>2 DEF RightsInv, ReservationsHeld, Relied, HeldByWorker
  <1>4. ASSUME NEW j \in OrderIds, j # id
        PROVE  (Live(j)' <=> Live(j)) /\ (TimedOut(j)' <=> TimedOut(j))
    <2>1. venue'[j] = venue[j] /\ sends'[j] = sends[j]
      BY <1>2, <1>4 DEF FlowInv, ExtTypeOK
    <2> QED BY <2>1 DEF Live, TimedOut
  <1> QED BY <1>2, <1>3, <1>4 DEF RejectKept, CoverKept, Covered

LEMMA WorkerCover ==
  ASSUME FlowInv, RightsInv, Worker
  PROVE  RejectKept /\ CoverKept
  <1>0. PICK id : id = worker.item.id
    OBVIOUS
  <1>1. worker.pc # "idle" => Present(id) /\ id \in OrderIds
    BY <1>0 DEF FlowInv, ItemsInv, Present
  <1>2. CASE WorkerSend
    BY <1>2, SendCover
  <1>3. CASE WorkerTake
    <2>1. UNCHANGED <<orders, sends, venue, reservation>>
      BY <1>3 DEF WorkerTake, omsVars, extVars
    <2> QED BY <2>1, CoverFrame DEF Live
  <1>4. CASE WorkerMark
    <2>1. UNCHANGED <<sends, venue, reservation>> /\ RequestTransition(id, "SendPending")
      BY <1>0, <1>4 DEF WorkerMark, MarkSendPending, extVars
    <2>2. \A j \in OrderIds : orders'[j].state = "Rejected" => orders[j].state = "Rejected"
      BY <1>1, <1>4, <2>1, RequestRejectsNone DEF WorkerMark, WorkerAt
    <2> QED BY <2>1, <2>2, CoverFrame DEF Live
  <1>5. CASE WorkerRefused \/ WorkerRecordSend
    <2>1. /\ UNCHANGED <<sends, venue, reservation>> /\ RecordSendResult(id, worker.rc)
          /\ worker.pc \in {"refused", "sent"}
      BY <1>0, <1>5 DEF WorkerRefused, WorkerRecordSend, WorkerAt, extVars
    <2>2. Live(id) => worker.rc \in {"Success", "Timeout"}
      <3>1. SUFFICES ASSUME Live(id) PROVE worker.rc \in {"Success", "Timeout"}
        OBVIOUS
      <3>2. ~Unsent(id) /\ sends[id] \in {<<"Success">>, <<"Timeout">>}
        BY <1>1, <2>1, <3>1, LiveFacts
      <3>3. worker.pc = "sent"
        BY <1>0, <2>1, <3>2 DEF RightsInv, HeldByWorker
      <3>4. sends[id] = <<worker.rc>>
        BY <1>0, <3>3 DEF FlowInv, SendsInv
      <3> QED BY <3>2, <3>4
    <2>3. \A j \in OrderIds : orders'[j].state = "Rejected" =>
            orders[j].state = "Rejected" \/ (j = id /\ worker.rc \notin {"Success", "Timeout"})
      BY <1>1, <2>1, SendResultRejects
    <2> QED BY <2>1, <2>2, <2>3, CoverFrame DEF Live
  <1>6. CASE WorkerRelease
    <2>1. /\ UNCHANGED <<orders, sends, venue>> /\ worker.pc = "release"
          /\ reservation' = [reservation EXCEPT ![id] = "released"]
      BY <1>0, <1>6 DEF WorkerRelease, SetReservation, WorkerAt, omsVars
    <2>2. Live(id) => TimedOut(id)
      <3> SUFFICES ASSUME Live(id) PROVE TimedOut(id)
        OBVIOUS
      <3>1. ~Unsent(id) /\ sends[id] \in {<<"Success">>, <<"Timeout">>}
        BY <1>1, <2>1, LiveFacts
      <3>2. worker.rc # "Success" /\ sends[id] = <<worker.rc>>
        BY <1>0, <2>1, <3>1 DEF RightsInv, HeldByWorker
      <3>3. sends[id] = <<"Timeout">>
        BY <3>1, <3>2
      <3>4. 1 \in DOMAIN <<"Timeout">> /\ <<"Timeout">>[1] = "Timeout"
        OBVIOUS
      <3> QED BY <3>3, <3>4 DEF TimedOut
    <2>3. \A j \in OrderIds : j # id => reservation'[j] = reservation[j]
      BY <2>1 DEF FlowInv, ExtTypeOK
    <2> QED BY <2>1, <2>2, <2>3, CoverFrame DEF Live
  <1>7. CASE WorkerCancel
    <2>1. UNCHANGED <<orders, sends, reservation>>
      BY <1>7 DEF WorkerCancel, omsVars
    <2>2. \A j \in OrderIds : Live(j)' => Live(j)
      BY <1>7, WorkerCancelFlow DEF InnerStep, SameAtVenue, Live
    <2> QED BY <2>1, <2>2, CoverFrame
  <1>8. CASE WorkerRecordCancel
    <2>1. /\ UNCHANGED <<sends, venue, reservation>> /\ RecordCancelResult(id, worker.rc)
          /\ worker.pc = "canceled"
      BY <1>0, <1>8 DEF WorkerRecordCancel, WorkerAt, extVars
    <2>2. \A j \in OrderIds : orders'[j].state = "Rejected" => orders[j].state = "Rejected"
      BY <1>1, <2>1, CancelResultRejectsNone
    <2> QED BY <2>1, <2>2, CoverFrame DEF Live
  <1> QED BY <1>2, <1>3, <1>4, <1>5, <1>6, <1>7, <1>8 DEF Worker

LEMMA VenueCover ==
  ASSUME FlowInv, NEW id \in OrderIds, Venue(id)
  PROVE  RejectKept /\ CoverKept
  <1>1. UNCHANGED <<orders, sends, reservation>>
    BY DEF Venue, VenueFill, VenueCancel, VenueReject, VenueRepeat, omsVars
  <1>2. PICK events : VenueMove(id, events)
    BY VenueFillFlow, VenueCancelFlow, VenueRejectFlow, VenueRepeatFlow DEF Venue
  <1>3. Live(id)' => Live(id)
    BY VenueRepeatFlow DEF Venue, VenueFill, VenueCancel, VenueReject, Live
  <1>4. \A j \in OrderIds : Live(j)' => Live(j)
    BY <1>2, <1>3 DEF VenueMove, Live
  <1> QED BY <1>1, <1>4, CoverFrame

LEMMA ReportCover ==
  ASSUME FlowInv, LaneThread
  PROVE  RejectKept /\ (FillInv => CoverKept)
  <1>1. CASE HandleReport
    <2>1. PICK e \in Event, id \in OrderIds : ReportMove(e, id)
      BY <1>1, HandleReportFlow
    <2>2. /\ UNCHANGED <<sends, venue, reservation>> /\ EventAbout(e, id) /\ Present(id)
          /\ \A j \in OrderIds \ {id} : orders'[j] = orders[j]
      BY <2>1 DEF ReportMove, extVars
    <2>3. orders[id] \in Entry /\ orders[id].state \in Lifecycle
      BY <2>2, RowTyped DEF FlowInv
    <2>4. Live(id) /\ orders'[id].state = "Rejected" => orders[id].state = "Rejected"
      <3>1. CASE e.kind = "order"
        <4>1. /\ e.report \in OrderReport /\ e.report.volume = orders[id].volume
              /\ e.report.status # "Unknown"
              /\ e.report.status = "Rejected" => venue[id].status = "rejected"
          BY <2>2, <3>1 DEF EventAbout, Event
        <4>2. orders'[id] = Merged(orders[id], e.report)
          BY <2>1, <3>1 DEF ReportMove
        <4>3. orders'[id].state = orders[id].state \/ orders'[id].state = e.report.status
          BY <2>3, <4>1, <4>2, MergedKept
        <4> QED BY <4>1, <4>3 DEF Live
      <3>2. CASE e.kind = "trade"
        <4>1. \/ orders' = orders
              \/ /\ orders'[id] = Traded(orders[id], e.report)
                 /\ CanTransition(orders[id].state, TradeState(orders[id], e.report))
          BY <2>1, <3>2 DEF ReportMove, TradeAccepted, omsVars
        <4>2. e.report.volume \in Nat
          BY <2>2, <3>2 DEF EventAbout
        <4>3. orders' = orders \/ orders'[id].state \in {"Filled", "PartiallyFilled"}
          BY <2>3, <4>1, <4>2, TradedKept
        <4> QED BY <4>3
      <3> QED BY <3>1, <3>2 DEF Event
    <2> QED BY <2>2, <2>4, CoverFrame DEF Live
  <1>2. CASE FinishReport
    <2>1. PICK e \in Event, id \in OrderIds : FinishMove(e, id)
      BY <1>2, FinishReportFlow
    <2>2. UNCHANGED <<orders, sends, venue>> /\ EventAbout(e, id) /\ Present(id)
      BY <2>1 DEF FinishMove, omsVars
    <2>3. FillInv /\ reservation' # reservation => ~Live(id)
      <3>1. CASE e.kind = "order"
        BY <2>1, <2>2, <3>1 DEF FinishMove, EventAbout, Live
      <3>2. CASE e.kind = "trade"
        BY <2>1, <2>2, <3>2 DEF FinishMove, FillInv, CountInv, Live
      <3> QED BY <3>1, <3>2 DEF Event
    <2>4. \A j \in OrderIds : j # id => reservation'[j] = reservation[j]
      BY <2>1 DEF FinishMove, FlowInv, ExtTypeOK
    <2>5. FillInv => CoverKept
      BY <2>2, <2>3, <2>4, CoverFrame DEF Live
    <2> QED BY <2>2, <2>5, RejectFrame DEF Live
  <1> QED BY <1>1, <1>2 DEF LaneThread

LEMMA CoverStep ==
  FlowInv /\ RightsInv /\ [FlowNext]_vars => RejectKept /\ (FillInv => CoverKept)
  <1> SUFFICES ASSUME FlowInv, RightsInv, [FlowNext]_vars
               PROVE  RejectKept /\ (FillInv => CoverKept)
    OBVIOUS
  <1>1. CASE StopEms \/ UNCHANGED vars
    <2>1. UNCHANGED <<orders, sends, venue, reservation>>
      BY <1>1 DEF StopEms, vars, extVars, omsVars
    <2> QED BY <2>1, CoverFrame DEF Live
  <1> QED BY <1>1, SubmitCover, CancelCover, WorkerCover, VenueCover, ReportCover DEF FlowNext

LEMMA CoverInitially == FlowInit => LiveIsCovered /\ RejectedIsNotLive
  BY DEF FlowInit, EmptyTables, Absent, LiveIsCovered, RejectedIsNotLive, Live

\* With distinct clients an order the OMS calls Rejected cannot trade any more:
\* of the results of a send only a refusal makes it Rejected, and a refusal
\* recorded for a queue entry is never that of an order already at the venue.
THEOREM RejectedCannotTrade == FlowSpec /\ ClientsDistinct => []RejectedIsNotLive
  <1>1. RejectedIsNotLive /\ RejectKept => RejectedIsNotLive'
    BY DEF RejectedIsNotLive, RejectKept
  <1> QED BY <1>1, CoverInitially, CoverStep, FlowInvariant, RightsInvariant, PTL DEF FlowSpec

\* With distinct clients and a venue that reports trades first, an order keeps its
\* reservation as long as it can trade, unless the result of its send is unknown:
\* none of the places that release one does so too early.
THEOREM LiveStaysCovered ==
  FlowSpec /\ ClientsDistinct /\ VenueStyle # "report_trade" => []LiveIsCovered
  <1>1. LiveIsCovered /\ CoverKept => LiveIsCovered'
    BY DEF LiveIsCovered, CoverKept
  <1> QED BY <1>1, CoverInitially, CoverStep, FlowInvariant, RightsInvariant, FillInvariant, PTL
          DEF FlowSpec

-----------------------------------------------------------------------------
(* How an order ends in the OMS when Lane-T drops no event.                *)

\* The lane has room for all that one step of the venue publishes.
LaneHasRoom == Len(lane) + 2 <= LaneCapacity

AtVenue(id) == venue[id].status # "none"

IsSnapshot(e, id) == e.kind = "order" /\ e.report.client = orders[id].client

\* A trade is applied or among the first j events of the lane.
Told(id, n, j) == Applied(id, n) \/ \E i \in 1..j : IsTrade(lane[i], id, n)

CountsTo(id, j, t) == \A n \in Nat : Told(id, n, j) <=> n \in 1..t

\* A snapshot counts the trades before it, and a last one all there are.
SnapshotCounted(id, j) ==
  Present(id) /\ IsSnapshot(lane[j], id) =>
    /\ CountsTo(id, j - 1, lane[j].report.traded)
    /\ lane[j].report.status \in {"Canceled", "Rejected"} =>
         lane[j].report.traded = venue[id].traded

\* The OMS counts the trades it has applied, the venue those and the ones under
\* way, and each snapshot those before it.
PaceInv ==
  /\ \A id \in OrderIds : Present(id) => CountsTo(id, 0, orders[id].traded)
  /\ \A id \in OrderIds : CountsTo(id, Len(lane), venue[id].traded)
  /\ \A id \in OrderIds, j \in 1..Len(lane) : SnapshotCounted(id, j)

\* The row has the outcome, or a report of it is under way.
Reaches(id, outcome) ==
  \/ orders[id].state = outcome
  \/ \E j \in 1..Len(lane) : IsSnapshot(lane[j], id) /\ lane[j].report.status = outcome

\* What the row of an order the venue has says of its trades and its end.
RowFits(id) ==
  /\ orders[id].state = "Filled" <=> orders[id].traded = orders[id].volume
  /\ orders[id].state = "PartiallyFilled" => orders[id].traded # 0
  /\ orders[id].state = "Canceled" => venue[id].status = "canceled"
  /\ orders[id].state = "Rejected" => venue[id].status = "rejected"
  /\ Dead(id) => orders[id].traded = venue[id].traded
  /\ venue[id].asked => orders[id].state # "SendPending"

\* An end at the venue reaches the row.  A cancellation does so only if it was
\* asked for: an order that expires may do so while its row is SendPending.
EndFits(id) ==
  /\ venue[id].status = "rejected" => venue[id].traded = 0 /\ Reaches(id, "Rejected")
  /\ venue[id].status = "canceled" /\ ~VenueMayCancel =>
       venue[id].asked /\ Reaches(id, "Canceled")

OutcomesInv ==
  \A id \in OrderIds : IF AtVenue(id) THEN RowFits(id) /\ EndFits(id) ELSE ~venue[id].asked

\* Who will give back the reservation of a finished order.
ReleasedBySubmit(id) ==
  \E s \in Submissions : submit[s].pc = "release" /\ submit[s].cid = id

ReleasedByWorker(id) == worker.pc = "release" /\ worker.item.id = id

ReleasedByLane(id) ==
  /\ handler # <<>> /\ handler[1].report.client = orders[id].client
  /\ IF handler[1].kind = "order" THEN handler[1].report.status \in {"Rejected", "Canceled"}
                                  ELSE orders[id].status = "Filled"

ReleaseInv ==
  \A id \in OrderIds : orders[id].state \in Terminal /\ Covered(id) =>
    ReleasedBySubmit(id) \/ ReleasedByWorker(id) \/ ReleasedByLane(id)

\* One more event of the lane tells of one more trade at most.
LEMMA ToldNext ==
  ASSUME NEW id, NEW n, NEW j \in Nat
  PROVE  /\ Told(id, n, j + 1) <=> Told(id, n, j) \/ IsTrade(lane[j + 1], id, n)
         /\ Told(id, n, j + 1)' <=> Told(id, n, j)' \/ IsTrade(lane[j + 1], id, n)'
         /\ Told(id, n, 0) <=> Applied(id, n)
         /\ Told(id, n, 0)' <=> Applied(id, n)'
  <1>1. 1..(j + 1) = 1..j \cup {j + 1} /\ 1..0 = {}
    OBVIOUS
  <1> QED BY <1>1 DEF Told

LEMMA ToldSame ==
  ASSUME NEW j, applied' = applied, \A i \in 1..j : lane'[i] = lane[i], NEW id
  PROVE  /\ \A n : Told(id, n, j)' <=> Told(id, n, j)
         /\ \A t : CountsTo(id, j, t)' <=> CountsTo(id, j, t)
  <1>1. \A n : Told(id, n, j)' <=> Told(id, n, j)
    BY DEF Told, Applied, IsTrade
  <1> QED BY <1>1 DEF CountsTo

\* There is one count of the same trades.
LEMMA CountsAgree ==
  ASSUME NEW id, NEW j, NEW a \in Nat, NEW b \in Nat, CountsTo(id, j, a), CountsTo(id, j, b)
  PROVE  a = b
  <1>1. \A n \in Nat : n \in 1..a <=> n \in 1..b
    BY DEF CountsTo
  <1>2. (a = 0 \/ a \in 1..b) /\ (b = 0 \/ b \in 1..a)
    BY <1>1
  <1> QED BY <1>2

\* A client has one row.
LEMMA ClientUnique ==
  ASSUME FlowInv, NEW i, NEW j, Present(i), Present(j), orders[i].client = orders[j].client
  PROVE  i = j
  <1>1. orders[i].client \in ClientIds /\ NoClient \notin ClientIds /\ i \in OrderIds /\ j \in OrderIds
    BY IdFacts DEF FlowInv, RowsInv, Present
  <1> QED BY <1>1 DEF FlowInv, OmsInv, IndexConsistent

\* A snapshot that is about a row after a step was about it before.
LEMMA SnapshotOld ==
  ASSUME FlowInv, FlowInv', RowsKept, NEW j \in 1..Len(lane), NEW id \in OrderIds,
         Present(id)', NEW e, e = lane[j], e.kind = "order",
         e.report.client = orders'[id].client
  PROVE  /\ Present(id) /\ EventAbout(e, id) /\ IsSnapshot(e, id) /\ AtVenue(id)
         /\ e \in Event /\ e.report \in OrderReport
  <1>1. PICK k \in OrderIds : EventAbout(e, k) /\ e \in Event
    BY LaneAbout
  <1>2. id = k
    BY <1>1, AboutUnique
  <1> QED BY <1>1, <1>2, FindAbout DEF IsSnapshot, EventAbout, AtVenue, Event

\* A step that applies no trade and leaves what is in the lane.
LEMMA PaceFrame ==
  ASSUME FlowInv, FlowInv', PaceInv, CallsKept, RowsKept, applied' = applied,
         Len(lane) <= Len(lane'), \A i \in 1..Len(lane) : lane'[i] = lane[i],
         \A id \in OrderIds : \E l, t :
           l = Len(lane') /\ t = venue'[id].traded /\ CountsTo(id, l, t)',
         \A id \in OrderIds, j \in 1..Len(lane') :
           j \notin 1..Len(lane) => SnapshotCounted(id, j)',
         \A id \in OrderIds : venue[id].status \in {"canceled", "rejected"} =>
           venue'[id].traded = venue[id].traded
  PROVE  PaceInv'
  <1>0. Len(lane) \in Nat
    BY LenProperties DEF FlowInv, LaneTypeOK
  <1>1. ASSUME NEW id \in OrderIds, Present(id)', NEW t, t = orders'[id].traded
        PROVE  CountsTo(id, 0, t)'
    <2>0. \A i \in 1..0 : lane'[i] = lane[i]
      OBVIOUS
    <2>1. CountsTo(id, 0, t)' <=> CountsTo(id, 0, t)
      BY <2>0, ToldSame
    <2>2. CASE Present(id)
      <3>1. t = orders[id].traded
        BY <1>1, <2>2 DEF CallsKept, CallKept
      <3> QED BY <2>1, <2>2, <3>1 DEF PaceInv
    <2>3. CASE ~Present(id)
      <3>1. t = 0
        BY <1>1, <2>3 DEF CallsKept, Present, FreshRow
      <3>2. venue[id].traded = 0
        BY <2>3, VenueFacts DEF FlowInv, VenueInv
      <3>3. CountsTo(id, Len(lane), 0)
        BY <3>2 DEF PaceInv
      <3>4. \A n : Told(id, n, 0) => Told(id, n, Len(lane))
        BY DEF Told
      <3>5. CountsTo(id, 0, 0)
        BY <3>3, <3>4 DEF CountsTo
      <3> QED BY <2>1, <3>1, <3>5
    <2> QED BY <2>2, <2>3
  <1>2. ASSUME NEW id \in OrderIds, NEW j \in 1..Len(lane)
        PROVE  SnapshotCounted(id, j)'
    <2>1. PICK e : e = lane[j]
      OBVIOUS
    <2>2. SUFFICES ASSUME Present(id)', e.kind = "order", e.report.client = orders'[id].client
                   PROVE  /\ CountsTo(id, j - 1, e.report.traded)'
                          /\ e.report.status \in {"Canceled", "Rejected"} =>
                               e.report.traded = venue'[id].traded
      BY <2>1 DEF SnapshotCounted, IsSnapshot
    <2>3. Present(id) /\ EventAbout(e, id) /\ IsSnapshot(e, id)
      BY <2>1, <2>2, SnapshotOld
    <2>4. /\ CountsTo(id, j - 1, e.report.traded)
          /\ e.report.status \in {"Canceled", "Rejected"} => e.report.traded = venue[id].traded
      BY <2>1, <2>3 DEF PaceInv, SnapshotCounted
    <2>5. \A i \in 1..(j - 1) : lane'[i] = lane[i]
      BY <1>0
    <2>6. CountsTo(id, j - 1, e.report.traded)'
      BY <2>4, <2>5, ToldSame
    <2>7. e.report.status \in {"Canceled", "Rejected"} => venue'[id].traded = venue[id].traded
      BY <2>2, <2>3 DEF EventAbout
    <2> QED BY <2>4, <2>6, <2>7
  <1>3. ASSUME NEW id \in OrderIds, NEW j \in 1..Len(lane')
        PROVE  SnapshotCounted(id, j)'
    BY <1>2
  <1> QED BY <1>1, <1>3 DEF PaceInv, CountsTo, Told

LEMMA SameLanePace ==
  ASSUME FlowInv, FlowInv', PaceInv, CallsKept, RowsKept, applied' = applied, lane' = lane,
         \A id \in OrderIds : venue'[id].traded = venue[id].traded
  PROVE  PaceInv'
  <1>1. Len(lane) \in Nat
    BY LenProperties DEF FlowInv, LaneTypeOK
  <1>2. ASSUME NEW id \in OrderIds
        PROVE  \E l, t : l = Len(lane') /\ t = venue'[id].traded /\ CountsTo(id, l, t)'
    <2>1. PICK l, t : l = Len(lane) /\ t = venue[id].traded
      OBVIOUS
    <2>2. CountsTo(id, l, t)
      BY <2>1 DEF PaceInv
    <2> QED BY <2>1, <2>2, ToldSame
  <1> QED BY <1>1, <1>2, PaceFrame

\* With room in the lane the whole of what is published arrives.
LEMMA PublishAll ==
  ASSUME NEW S, lane \in Seq(S), NEW events \in Seq(S), Len(events) <= 2, LaneHasRoom,
         Publish(events)
  PROVE  /\ Len(lane) \in Nat /\ Len(lane') = Len(lane) + Len(events)
         /\ \A i \in 1..Len(lane) : lane'[i] = lane[i]
         /\ \A i \in 1..Len(events) : lane'[Len(lane) + i] = events[i]
  <1> DEFINE all == lane \o events
  <1>1. Len(lane) \in Nat /\ Len(events) \in Nat
    BY LenProperties
  <1>2. /\ all \in Seq(S) /\ Len(all) = Len(lane) + Len(events)
        /\ \A i \in 1..Len(all) :
             all[i] = IF i <= Len(lane) THEN lane[i] ELSE events[i - Len(lane)]
    BY ConcatProperties
  <1>3. Len(all) <= LaneCapacity /\ Len(all) \in Nat
    BY <1>1, <1>2, FlowAssumption DEF LaneHasRoom
  <1>4. lane' = SubSeq(all, 1, Len(all))
    BY <1>3 DEF Publish
  <1> HIDE DEF all
  <1>5. \A i \in 1..Len(all) : all[i] \in S
    BY <1>2, ElementOfSeq
  <1>6. Len(lane') = Len(all) /\ \A i \in 1..Len(all) : lane'[i] = all[i]
    BY <1>3, <1>4, <1>5, SubSeqProperties
  <1>7. \A i \in 1..Len(lane) : lane'[i] = lane[i]
    BY <1>1, <1>2, <1>6
  <1>8. ASSUME NEW i \in 1..Len(events)
        PROVE  lane'[Len(lane) + i] = events[i]
    <2>1. PICK k : k = Len(lane) + i
      OBVIOUS
    <2>2. k \in 1..Len(all) /\ ~(k <= Len(lane)) /\ k - Len(lane) = i
      BY <1>1, <1>2, <2>1
    <2> QED BY <1>2, <1>6, <2>1, <2>2
  <1> QED BY <1>1, <1>2, <1>6, <1>7, <1>8

LEMMA PublishOne ==
  ASSUME FlowInv, LaneHasRoom, NEW e, Publish(<<e>>)
  PROVE  /\ Len(lane) \in Nat /\ Len(lane') = Len(lane) + 1
         /\ \A i \in 1..Len(lane) : lane'[i] = lane[i]
         /\ lane'[Len(lane) + 1] = e
  <1>1. lane \in Seq(Event \cup {e}) /\ <<e>> \in Seq(Event \cup {e})
    BY DEF FlowInv, LaneTypeOK
  <1>2. Len(<<e>>) = 1 /\ <<e>>[1] = e
    OBVIOUS
  <1>3. PICK events : events = <<e>>
    OBVIOUS
  <1>4. /\ events \in Seq(Event \cup {e}) /\ Len(events) = 1 /\ events[1] = e
        /\ Publish(events)
    BY <1>1, <1>2, <1>3
  <1>5. Len(events) <= 2 /\ 1 \in 1..Len(events)
    BY <1>4
  <1>6. /\ Len(lane) \in Nat /\ Len(lane') = Len(lane) + Len(events)
        /\ \A i \in 1..Len(lane) : lane'[i] = lane[i]
        /\ \A i \in 1..Len(events) : lane'[Len(lane) + i] = events[i]
    BY <1>1, <1>4, <1>5, PublishAll
  <1> QED BY <1>4, <1>5, <1>6

LEMMA PublishTwo ==
  ASSUME FlowInv, LaneHasRoom, NEW e, NEW f, Publish(<<e, f>>)
  PROVE  /\ Len(lane) \in Nat /\ Len(lane') = Len(lane) + 2
         /\ \A i \in 1..Len(lane) : lane'[i] = lane[i]
         /\ lane'[Len(lane) + 1] = e /\ lane'[Len(lane) + 2] = f
  <1>1. lane \in Seq(Event \cup {e, f}) /\ <<e, f>> \in Seq(Event \cup {e, f})
    BY DEF FlowInv, LaneTypeOK
  <1>2. Len(<<e, f>>) = 2 /\ <<e, f>>[1] = e /\ <<e, f>>[2] = f
    OBVIOUS
  <1>3. PICK events : events = <<e, f>>
    OBVIOUS
  <1>4. /\ events \in Seq(Event \cup {e, f}) /\ Len(events) = 2 /\ events[1] = e
        /\ events[2] = f /\ Publish(events)
    BY <1>1, <1>2, <1>3
  <1>5. Len(events) <= 2 /\ 1 \in 1..Len(events) /\ 2 \in 1..Len(events)
    BY <1>4
  <1>6. /\ Len(lane) \in Nat /\ Len(lane') = Len(lane) + Len(events)
        /\ \A i \in 1..Len(lane) : lane'[i] = lane[i]
        /\ \A i \in 1..Len(events) : lane'[Len(lane) + i] = events[i]
    BY <1>1, <1>4, <1>5, PublishAll
  <1> QED BY <1>4, <1>5, <1>6

\* The venue answers with a snapshot that counts what it has traded.
LEMMA AnswerPace ==
  ASSUME FlowInv, FlowInv', PaceInv, LaneHasRoom, UNCHANGED omsVars,
         NEW id \in OrderIds, Present(id), NEW status,
         Publish(<<OrderEvent(id, status, venue[id].traded)>>),
         \A k \in OrderIds : venue'[k].traded = venue[k].traded
  PROVE  PaceInv'
  <1>1. PICK e : e = OrderEvent(id, status, venue[id].traded)
    OBVIOUS
  <1>2. /\ e.kind = "order" /\ e.report.client = orders[id].client
        /\ e.report.traded = venue[id].traded
    BY <1>1 DEF OrderEvent
  <1>3. /\ Len(lane) \in Nat /\ Len(lane') = Len(lane) + 1
        /\ \A i \in 1..Len(lane) : lane'[i] = lane[i]
        /\ lane'[Len(lane) + 1] = e
    BY <1>1, PublishOne
  <1>4. /\ CallsKept /\ RowsKept /\ orders' = orders /\ applied' = applied
        /\ \A k : Present(k)' <=> Present(k)
    BY NothingChanges DEF FlowInv, TablesKept, omsVars, Present
  <1>5. PICK l \in Nat : l = Len(lane)
    BY <1>3
  <1>6. \A k \in OrderIds : CountsTo(k, l, venue[k].traded)
    BY <1>5 DEF PaceInv
  <1>7. \A k, t : CountsTo(k, l, t)' <=> CountsTo(k, l, t)
    BY <1>3, <1>4, <1>5, ToldSame
  <1>8. ASSUME NEW k \in OrderIds
        PROVE  \E j, t : j = Len(lane') /\ t = venue'[k].traded /\ CountsTo(k, j, t)'
    <2>1. PICK t : t = venue[k].traded
      OBVIOUS
    <2>2. \A n : ~IsTrade(lane[l + 1], k, n)'
      BY <1>2, <1>3, <1>5 DEF IsTrade
    <2>3. \A n : Told(k, n, l + 1)' <=> Told(k, n, l)'
      BY <2>2, ToldNext
    <2>4. CountsTo(k, l, t)'
      BY <1>6, <1>7, <2>1
    <2>5. CountsTo(k, l + 1, t)'
      BY <2>3, <2>4 DEF CountsTo
    <2> QED BY <1>3, <1>5, <2>1, <2>5
  <1>9. ASSUME NEW k \in OrderIds, NEW j \in 1..Len(lane'), j \notin 1..Len(lane)
        PROVE  SnapshotCounted(k, j)'
    <2>1. j = l + 1 /\ j - 1 = l /\ lane'[j] = e
      BY <1>3, <1>5, <1>9
    <2>2. SUFFICES ASSUME Present(k), orders[k].client = orders[id].client
                   PROVE  CountsTo(k, l, e.report.traded)' /\ e.report.traded = venue'[k].traded
      BY <1>2, <1>4, <2>1 DEF SnapshotCounted, IsSnapshot
    <2>3. k = id
      BY <2>2, ClientUnique
    <2>4. CountsTo(id, l, e.report.traded)'
      BY <1>2, <1>6, <1>7
    <2> QED BY <1>2, <2>3, <2>4
  <1> QED BY <1>3, <1>4, <1>8, <1>9, PaceFrame

\* A trade of the venue joins the lane, one more or the last one again, and with
\* it perhaps a snapshot that counts it.
LEMMA TradePace ==
  ASSUME FlowInv, FlowInv', PaceInv, UNCHANGED omsVars,
         NEW id \in OrderIds, Present(id), NEW n \in Nat, n # 0,
         venue'[id].traded = n, n \in {venue[id].traded, venue[id].traded + 1},
         \A k \in OrderIds \ {id} : venue'[k] = venue[k],
         n # venue[id].traded => venue[id].status = "queued",
         Len(lane) \in Nat, \A i \in 1..Len(lane) : lane'[i] = lane[i],
         NEW trade, trade = TradeEvent(id, n), lane'[Len(lane) + 1] = trade,
         \/ Len(lane') = Len(lane) + 1
         \/ /\ Len(lane') = Len(lane) + 2
            /\ \E status \in {"PartiallyFilled", "Filled"} :
                 lane'[Len(lane) + 2] = OrderEvent(id, status, n)
  PROVE  PaceInv'
  <1>1. /\ CallsKept /\ RowsKept /\ orders' = orders /\ applied' = applied
        /\ \A k : Present(k)' <=> Present(k)
    BY NothingChanges DEF FlowInv, TablesKept, omsVars, Present
  <1>2. PICK l \in Nat : l = Len(lane)
    OBVIOUS
  <1>3. /\ \A k \in OrderIds : CountsTo(k, l, venue[k].traded)
        /\ \A k, t : CountsTo(k, l, t)' <=> CountsTo(k, l, t)
        /\ \A k \in OrderIds : venue[k].traded \in Nat
    BY <1>1, <1>2, ToldSame DEF PaceInv, FlowInv, ExtTypeOK
  <1>4. \A k, m : IsTrade(trade, k, m) <=> k = id /\ m = n
    BY DEF IsTrade, TradeEvent
  <1>5. \A k \in OrderIds : \A t : t = venue'[k].traded => CountsTo(k, l + 1, t)'
    <2> SUFFICES ASSUME NEW k \in OrderIds, NEW t, t = venue'[k].traded
                 PROVE  CountsTo(k, l + 1, t)'
      OBVIOUS
    <2>0. \A m : IsTrade(lane[l + 1], k, m)' <=> k = id /\ m = n
      <3>1. lane'[l + 1] = trade
        BY <1>2
      <3>2. \A m : IsTrade(lane[l + 1], k, m)' <=> IsTrade(trade, k, m)
        BY <3>1 DEF IsTrade
      <3> QED BY <1>4, <3>2
    <2>1. \A m : Told(k, m, l + 1)' <=> Told(k, m, l)' \/ (k = id /\ m = n)
      BY <2>0, ToldNext
    <2>2. \A m \in Nat : Told(k, m, l)' <=> m \in 1..venue[k].traded
      BY <1>3 DEF CountsTo
    <2>3. CASE k = id
      <3>1. \A m \in Nat : m \in 1..venue[id].traded \/ m = n <=> m \in 1..n
        BY <1>3
      <3> QED BY <2>1, <2>2, <2>3, <3>1 DEF CountsTo
    <2>4. CASE k # id
      BY <2>1, <2>2, <2>4 DEF CountsTo
    <2> QED BY <2>3, <2>4
  <1>6. Len(lane') \in {l + 1, l + 2}
    BY <1>2
  <1>7. Len(lane') = l + 2 =>
          \E status \in {"PartiallyFilled", "Filled"} : lane'[l + 2] = OrderEvent(id, status, n)
    BY <1>2
  <1>8. ASSUME NEW k \in OrderIds
        PROVE  \E j, t : j = Len(lane') /\ t = venue'[k].traded /\ CountsTo(k, j, t)'
    <2>1. PICK t : t = venue'[k].traded
      OBVIOUS
    <2>2. CASE Len(lane') = l + 1
      BY <1>5, <2>1, <2>2
    <2>3. CASE Len(lane') = l + 2
      <3>1. \A m : ~IsTrade(lane[(l + 1) + 1], k, m)'
        BY <1>7, <2>3 DEF IsTrade, OrderEvent
      <3>2. \A m : Told(k, m, (l + 1) + 1)' <=> Told(k, m, l + 1)'
        <4>1. l + 1 \in Nat
          OBVIOUS
        <4> QED BY <3>1, <4>1, ToldNext
      <3>3. CountsTo(k, l + 1, t)'
        BY <1>5, <2>1
      <3>4. CountsTo(k, (l + 1) + 1, t)'
        BY <3>2, <3>3 DEF CountsTo
      <3> QED BY <2>1, <2>3, <3>4
    <2> QED BY <1>6, <2>2, <2>3
  <1>9. ASSUME NEW k \in OrderIds, NEW j \in 1..Len(lane'), j \notin 1..Len(lane)
        PROVE  SnapshotCounted(k, j)'
    <2>1. CASE j = l + 1
      BY <1>2, <2>1 DEF SnapshotCounted, IsSnapshot, TradeEvent
    <2>2. CASE j # l + 1
      <3>1. j = l + 2 /\ j - 1 = l + 1 /\ Len(lane') = l + 2
        BY <1>2, <1>6, <1>9, <2>2
      <3>2. PICK e : e = lane'[j]
        OBVIOUS
      <3>3. /\ e.kind = "order" /\ e.report.client = orders[id].client
            /\ e.report.traded = n /\ e.report.status \in {"PartiallyFilled", "Filled"}
        BY <1>7, <3>1, <3>2 DEF OrderEvent
      <3>4. SUFFICES ASSUME Present(k), orders[k].client = orders[id].client
                     PROVE  CountsTo(k, l + 1, n)'
        BY <1>1, <3>1, <3>2, <3>3 DEF SnapshotCounted, IsSnapshot
      <3>5. k = id
        BY <3>4, ClientUnique
      <3> QED BY <1>5, <3>5
    <2> QED BY <2>1, <2>2
  <1>10. \A k \in OrderIds : venue[k].status \in {"canceled", "rejected"} =>
           venue'[k].traded = venue[k].traded
    OBVIOUS
  <1>11. Len(lane) <= Len(lane')
    BY <1>2, <1>6
  <1> QED BY <1>1, <1>8, <1>9, <1>10, <1>11, PaceFrame

LEMMA VenuePace ==
  ASSUME FlowInv, FlowInv', PaceInv, LaneHasRoom, VenueStyle # "report_trade",
         NEW id \in OrderIds, Venue(id)
  PROVE  PaceInv'
  <1>1. /\ UNCHANGED omsVars /\ Present(id) /\ \A k \in OrderIds \ {id} : venue'[k] = venue[k]
    BY VenueFillFlow, VenueCancelFlow, VenueRejectFlow, VenueRepeatFlow DEF Venue, VenueMove
  <1>2. venue[id].traded \in Nat
    BY DEF FlowInv, ExtTypeOK
  <1>3. CASE VenueFill(id)
    <2>1. PICK n \in Nat : n = venue[id].traded + 1
      BY <1>2
    <2>2. venue'[id].traded = n /\ venue[id].status = "queued" /\ Publish(FillEvents(id, n))
      BY <1>3, <2>1, VenueFillFlow DEF VenueFill, Live
    <2>0. PICK status \in {"PartiallyFilled", "Filled"} :
            status = IF n = orders[id].volume THEN "Filled" ELSE "PartiallyFilled"
      OBVIOUS
    <2>3. PICK trade, snap : trade = TradeEvent(id, n) /\ snap = OrderEvent(id, status, n)
      OBVIOUS
    <2>4. Publish(<<trade>>) \/ Publish(<<trade, snap>>)
      BY <2>0, <2>2, <2>3, FlowAssumption DEF FillEvents
    <2>5. CASE Publish(<<trade>>)
      BY <1>1, <1>2, <2>1, <2>2, <2>3, <2>5, PublishOne, TradePace
    <2>6. CASE Publish(<<trade, snap>>)
      BY <1>1, <1>2, <2>1, <2>2, <2>3, <2>6, PublishTwo, TradePace
    <2> QED BY <2>4, <2>5, <2>6
  <1>4. CASE VenueCancel(id) \/ VenueReject(id)
    <2>1. PICK status : /\ Publish(<<OrderEvent(id, status, venue[id].traded)>>)
                        /\ venue'[id].traded = venue[id].traded
      BY <1>4, VenueCancelFlow, VenueRejectFlow DEF VenueCancel, VenueReject
    <2> QED BY <1>1, <2>1, AnswerPace
  <1>5. CASE VenueRepeat(id)
    <2>1. PICK n \in Nat : n = venue[id].traded
      BY <1>2
    <2>2. venue'[id].traded = n /\ n # 0 /\ Publish(<<TradeEvent(id, n)>>)
      BY <1>5, <2>1, VenueRepeatFlow DEF VenueRepeat
    <2>3. PICK trade : trade = TradeEvent(id, n)
      OBVIOUS
    <2> QED BY <1>1, <2>1, <2>2, <2>3, PublishOne, TradePace
  <1> QED BY <1>3, <1>4, <1>5 DEF Venue

LEMMA SendPace ==
  ASSUME FlowInv, FlowInv', PaceInv, LaneHasRoom, WorkerSend
  PROVE  PaceInv'
  <1>0. PICK id : id = worker.item.id
    OBVIOUS
  <1>1. PICK rc \in Results, taken \in BOOLEAN : SendMove(id, rc, taken)
    BY <1>0, WorkerSendFlow
  <1>2. /\ UNCHANGED omsVars /\ Present(id) /\ id \in OrderIds /\ venue[id].traded = 0
        /\ taken \in BOOLEAN
    BY <1>1 DEF SendMove, Present
  <1>3. \A k \in OrderIds : venue'[k].traded = venue[k].traded
    BY <1>1 DEF SendMove, FlowInv, ExtTypeOK
  <1>4. lane' = lane \/ Publish(<<OrderEvent(id, "New", 0)>>)
    BY <1>0 DEF WorkerSend
  <1>5. CASE lane' = lane
    <2>1. CallsKept /\ RowsKept /\ applied' = applied
      BY <1>2, NothingChanges DEF FlowInv, TablesKept, omsVars
    <2> QED BY <1>3, <1>5, <2>1, SameLanePace
  <1>6. CASE Publish(<<OrderEvent(id, "New", 0)>>)
    BY <1>2, <1>3, <1>6, AnswerPace
  <1> QED BY <1>4, <1>5, <1>6

\* A snapshot at the head of the lane counts what the row does.
LEMMA HeadSnapshot ==
  ASSUME FlowInv, PaceInv, NEW e, NEW id \in OrderIds, ReportMove(e, id), e.kind = "order"
  PROVE  /\ e.report.traded = orders[id].traded /\ orders'[id].traded = orders[id].traded
         /\ e.report.status \in {"Canceled", "Rejected"} =>
              e.report.traded = venue[id].traded
  <1>1. /\ Len(lane) \in Nat \ {0} /\ e = lane[1] /\ EventAbout(e, id) /\ Present(id)
        /\ e \in Event /\ orders'[id] = Merged(orders[id], e.report)
    BY DEF ReportMove
  <1>2. /\ e.report \in OrderReport /\ e.report.traded \in Nat
        /\ e.report.client = orders[id].client
        /\ e.report.volume = orders[id].volume /\ e.report.status # "Unknown"
    BY <1>1 DEF Event, OrderReport, EventAbout
  <1>3. /\ orders[id] \in Entry /\ orders[id].state \in Lifecycle /\ orders[id].traded \in Nat
    BY <1>1, RowTyped DEF FlowInv, Entry
  <1>4. 1 \in 1..Len(lane) /\ 1 - 1 = 0
    BY <1>1
  <1>5. /\ CountsTo(id, 0, e.report.traded)
        /\ e.report.status \in {"Canceled", "Rejected"} => e.report.traded = venue[id].traded
    BY <1>1, <1>2, <1>4 DEF PaceInv, SnapshotCounted, IsSnapshot
  <1>6. e.report.traded = orders[id].traded
    <2>1. CountsTo(id, 0, orders[id].traded)
      BY <1>1 DEF PaceInv
    <2> QED BY <1>2, <1>3, <1>5, <2>1, CountsAgree
  <1> QED BY <1>2, <1>3, <1>1, <1>5, <1>6, MergedKept

\* A trade at the head is either one already applied, or the next one and is
\* accepted.
TradeMove(e, id, n) ==
  /\ n \in 1..venue[id].traded /\ e.report.key = <<id, n>>
  /\ \/ Applied(id, n) /\ UNCHANGED omsVars
     \/ /\ ~Applied(id, n) /\ orders[id].state \notin Terminal
        /\ applied' = applied \cup {<<id, n>>}
        /\ n = orders[id].traded + 1 /\ orders'[id].traded = n
        /\ orders'[id].volume = orders[id].volume
        /\ orders'[id].status = orders'[id].state
        /\ orders'[id].state = IF n = orders[id].volume THEN "Filled" ELSE "PartiallyFilled"

LEMMA HeadTrade ==
  ASSUME FlowInv, FillInv, PaceInv, OutcomesInv,
         NEW e, NEW id \in OrderIds, ReportMove(e, id), e.kind = "trade"
  PROVE  \E n \in Nat : TradeMove(e, id, n)
  <1>1. /\ Len(lane) \in Nat \ {0} /\ e = lane[1] /\ EventAbout(e, id)
        /\ Present(id) /\ Unsendable(id) /\ id # NoId
    BY FindAbout, IdFacts DEF ReportMove
  <1>2. PICK n \in 1..venue[id].traded : e.report.key = <<id, n>> /\ e.report.volume = 1
    BY <1>1 DEF EventAbout
  <1>3. /\ orders[id] \in Entry /\ orders[id].state \in Lifecycle
        /\ orders[id].traded \in Nat /\ orders[id].volume \in Nat
        /\ venue[id].traded \in Nat /\ venue[id].traded <= orders[id].volume
        /\ AtVenue(id) /\ n \in Nat
    BY <1>1, RowTyped DEF FlowInv, Entry, ExtTypeOK, EventAbout, VenueInv, AtVenue
  <1>4. RowFits(id)
    BY <1>3 DEF OutcomesInv
  <1>5. \A m \in Nat : Applied(id, m) <=> m \in 1..orders[id].traded
    <2>1. \A m : Told(id, m, 0) <=> Applied(id, m)
      BY ToldNext
    <2> QED BY <1>1, <2>1 DEF PaceInv, CountsTo
  <1>6. CASE Applied(id, n)
    <2>1. ~TradeAccepted(id, e.report)
      BY <1>2, <1>6 DEF TradeAccepted, Applied
    <2>2. UNCHANGED omsVars
      BY <2>1 DEF ReportMove
    <2> QED BY <1>2, <1>3, <1>6, <2>2 DEF TradeMove
  <1>7. CASE ~Applied(id, n)
    <2>1. orders[id].traded < n
      BY <1>3, <1>5, <1>7
    <2>2. n = orders[id].traded + 1
      <3> SUFFICES ASSUME n # orders[id].traded + 1 PROVE FALSE
        OBVIOUS
      <3>1. PICK m \in Nat : m = orders[id].traded + 1
        BY <1>3
      <3>2. m < n /\ m \in 1..venue[id].traded /\ ~Applied(id, m)
        BY <1>3, <1>5, <2>1, <3>1
      <3>3. PICK i \in 1..Len(lane) : IsTrade(lane[i], id, m)
        <4>1. Told(id, m, Len(lane))
          BY <3>2 DEF PaceInv, CountsTo
        <4> QED BY <3>2, <4>1 DEF Told
      <3>4. IsTrade(lane[1], id, n)
        BY <1>1, <1>2 DEF IsTrade
      <3>5. i # 1
        BY <3>2, <3>3, <3>4 DEF IsTrade
      <3>6. 1 \in 1..(i - 1)
        BY <1>1, <3>5
      <3>7. n < m
        BY <1>3, <3>2, <3>3, <3>4, <3>6 DEF FillInv, InOrderInv, TradeInOrder
      <3> QED BY <1>3, <3>2, <3>7
    <2>3. orders[id].state \notin Terminal
      <3>1. orders[id].traded # orders[id].volume /\ orders[id].traded # venue[id].traded
        BY <1>2, <1>3, <2>2
      <3> QED BY <1>4, <3>1 DEF RowFits, Dead, Terminal
    <2>4. CanTransition(orders[id].state, TradeState(orders[id], e.report))
      <3>1. TradeState(orders[id], e.report) \in {"Filled", "PartiallyFilled"}
        BY DEF TradeState
      <3>2. orders[id].state \in
              {"SendPending", "SendUnknown", "Working", "PartiallyFilled", "CancelPending"}
        BY <1>1, <1>3, <2>3 DEF Unsendable, Lifecycle, PreSend, Terminal
      <3> QED BY <3>1, <3>2 DEF CanTransition, Successors
    <2>5. TradeAccepted(id, e.report)
      BY <1>1, <1>2, <1>7, <2>4 DEF TradeAccepted, Applied
    <2>6. applied' = applied \cup {<<id, n>>} /\ orders'[id] = Traded(orders[id], e.report)
      BY <1>2, <2>5 DEF ReportMove
    <2>7. e.report.volume \in Nat
      BY <1>2
    <2>8. /\ RowKept(orders[id], orders'[id])
          /\ orders'[id].traded = orders[id].traded + e.report.volume
          /\ orders'[id].status = orders'[id].state
          /\ orders'[id].state =
               (IF orders[id].traded + e.report.volume >= orders[id].volume
                THEN "Filled" ELSE "PartiallyFilled")
      BY <1>3, <2>4, <2>6, <2>7, TradedKept
    <2>9. orders[id].traded + e.report.volume = n /\ (n >= orders[id].volume <=> n = orders[id].volume)
      BY <1>2, <1>3, <2>2
    <2> QED BY <1>2, <1>7, <2>2, <2>3, <2>6, <2>8, <2>9 DEF TradeMove, RowKept
  <1> QED BY <1>6, <1>7

\* Handling an event counts the trade it brings, once.
LEMMA ReportPace ==
  ASSUME FlowInv, FlowInv', FillInv, PaceInv, OutcomesInv,
         NEW e, NEW id \in OrderIds, ReportMove(e, id)
  PROVE  PaceInv'
  <1>1. /\ Len(lane) \in Nat \ {0} /\ e = lane[1] /\ e \in Event /\ EventAbout(e, id)
        /\ Present(id) /\ venue' = venue /\ NoNewRows /\ RowsKept
        /\ Len(lane') = Len(lane) - 1 /\ \A i \in 1..Len(lane') : lane'[i] = lane[i + 1]
        /\ \A k \in OrderIds \ {id} : orders'[k] = orders[k]
    BY DEF ReportMove, TablesKept, extVars
  <1>2. /\ \A k \in OrderIds, m \in Nat : Applied(k, m)' <=> Applied(k, m) \/ IsTrade(e, k, m)
        /\ \A t : t = orders'[id].traded => CountsTo(id, 1, t)
    <2>1. CountsTo(id, 0, orders[id].traded)
      BY <1>1 DEF PaceInv
    <2>2. \A m : Told(id, m, 0 + 1) <=> Told(id, m, 0) \/ IsTrade(e, id, m)
      <3>1. 0 \in Nat /\ lane[0 + 1] = e
        BY <1>1
      <3>2. \A m : Told(id, m, 0 + 1) <=> Told(id, m, 0) \/ IsTrade(lane[0 + 1], id, m)
        BY <3>1, ToldNext
      <3> QED BY <3>1, <3>2
    <2>3. CASE e.kind = "order"
      <3>1. \A k, m : ~IsTrade(e, k, m)
        BY <2>3 DEF IsTrade
      <3>2. applied' = applied /\ orders'[id].traded = orders[id].traded
        BY <2>3, HeadSnapshot DEF ReportMove
      <3> QED BY <2>1, <2>2, <3>1, <3>2 DEF CountsTo, Applied
    <2>4. CASE e.kind = "trade"
      <3>1. PICK n \in Nat : TradeMove(e, id, n)
        BY <2>4, HeadTrade
      <3>2. \A k, m : IsTrade(e, k, m) <=> k = id /\ m = n
        BY <2>4, <3>1 DEF IsTrade, TradeMove
      <3>3. \A m \in Nat : Told(id, m, 0) <=> Applied(id, m)
        BY ToldNext
      <3>4. CASE Applied(id, n) /\ UNCHANGED omsVars
        <4>1. orders' = orders /\ applied' = applied
          BY <3>4 DEF omsVars
        <4>2. \A m \in Nat : Told(id, m, 1) <=> Told(id, m, 0)
          BY <2>2, <3>2, <3>3, <3>4
        <4> QED BY <2>1, <3>2, <3>4, <4>1, <4>2 DEF CountsTo, Applied
      <3>5. CASE ~Applied(id, n)
        <4>1. /\ applied' = applied \cup {<<id, n>>} /\ n = orders[id].traded + 1
              /\ orders'[id].traded = n
          BY <3>1, <3>5 DEF TradeMove
        <4>2. orders[id].traded \in Nat
          BY <1>1, RowTyped DEF FlowInv, Entry
        <4>3. \A m \in Nat : m \in 1..orders[id].traded \/ m = n <=> m \in 1..n
          BY <4>1, <4>2
        <4>4. CountsTo(id, 1, n)
          BY <2>1, <2>2, <3>2, <4>3 DEF CountsTo
        <4> QED BY <3>2, <4>1, <4>4 DEF Applied
      <3> QED BY <3>1, <3>4, <3>5 DEF TradeMove
    <2> QED BY <2>3, <2>4, <1>1 DEF Event
  <1>3. ASSUME NEW k \in OrderIds, NEW j \in 0..Len(lane'), NEW t
        PROVE  CountsTo(k, j, t)' <=> CountsTo(k, j + 1, t)
    <2>1. ASSUME NEW m \in Nat
          PROVE  Told(k, m, j)' <=> Told(k, m, j + 1)
      <3>1. \A i \in 1..j : i \in 1..Len(lane') /\ i + 1 \in 1..(j + 1)
        BY <1>1
      <3>2. \A i \in 1..(j + 1) : i # 1 => i - 1 \in 1..j /\ (i - 1) + 1 = i
        BY <1>1
      <3>3. (\E i \in 1..j : IsTrade(lane[i], k, m))' <=> \E i \in 1..j : IsTrade(lane[i + 1], k, m)
        BY <1>1, <3>1 DEF IsTrade
      <3>4. (\E i \in 1..(j + 1) : IsTrade(lane[i], k, m)) <=>
              IsTrade(e, k, m) \/ \E i \in 1..j : IsTrade(lane[i + 1], k, m)
        <4>1. 1 \in 1..(j + 1)
          BY <1>1
        <4> QED BY <1>1, <3>1, <3>2, <4>1
      <3> QED BY <1>2, <3>3, <3>4 DEF Told
    <2> QED BY <2>1 DEF CountsTo
  <1>4. ASSUME NEW k \in OrderIds, Present(k)', NEW t, t = orders'[k].traded
        PROVE  CountsTo(k, 0, t)'
    <2>1. 0 \in 0..Len(lane') /\ 0 + 1 = 1
      BY <1>1
    <2>2. CountsTo(k, 1, t)
      <3>1. CASE k = id
        BY <1>2, <1>4, <3>1
      <3>2. CASE k # id
        <4>1. Present(k) /\ t = orders[k].traded
          BY <1>1, <1>4, <3>2 DEF NoNewRows
        <4>2. CountsTo(k, 0, t)
          BY <4>1 DEF PaceInv
        <4>3. \A m \in Nat : ~IsTrade(e, k, m)
          BY <1>1, <3>2 DEF EventAbout, IsTrade
        <4>4. 0 \in Nat /\ lane[0 + 1] = e /\ 0 + 1 = 1
          BY <1>1
        <4>5. \A m : Told(k, m, 0 + 1) <=> Told(k, m, 0) \/ IsTrade(lane[0 + 1], k, m)
          BY <4>4, ToldNext
        <4> QED BY <4>2, <4>3, <4>4, <4>5 DEF CountsTo
      <3> QED BY <3>1, <3>2
    <2> QED BY <1>3, <2>1, <2>2
  <1>5. ASSUME NEW k \in OrderIds, NEW l, NEW t, l = Len(lane'), t = venue'[k].traded
        PROVE  CountsTo(k, l, t)'
    <2>1. l \in 0..Len(lane') /\ l + 1 = Len(lane) /\ t = venue[k].traded
      BY <1>1, <1>5
    <2>2. CountsTo(k, Len(lane), t)
      BY <2>1 DEF PaceInv
    <2> QED BY <1>3, <2>1, <2>2
  <1>6. ASSUME NEW k \in OrderIds, NEW j \in 1..Len(lane')
        PROVE  SnapshotCounted(k, j)'
    <2>1. PICK f : f = lane[j + 1]
      OBVIOUS
    <2>2. lane'[j] = f /\ j + 1 \in 1..Len(lane) /\ j - 1 \in 0..Len(lane') /\ (j - 1) + 1 = (j + 1) - 1
      BY <1>1, <2>1
    <2>3. SUFFICES ASSUME Present(k)', f.kind = "order", f.report.client = orders'[k].client
                   PROVE  /\ CountsTo(k, j - 1, f.report.traded)'
                          /\ f.report.status \in {"Canceled", "Rejected"} =>
                               f.report.traded = venue[k].traded
      BY <1>1, <2>2 DEF SnapshotCounted, IsSnapshot
    <2>4. Present(k) /\ IsSnapshot(f, k)
      BY <1>1, <2>1, <2>2, <2>3, SnapshotOld
    <2>5. /\ CountsTo(k, (j + 1) - 1, f.report.traded)
          /\ f.report.status \in {"Canceled", "Rejected"} => f.report.traded = venue[k].traded
      BY <2>1, <2>2, <2>4 DEF PaceInv, SnapshotCounted
    <2> QED BY <1>3, <2>2, <2>5
  <1> QED BY <1>4, <1>5, <1>6 DEF PaceInv, CountsTo, Told

-----------------------------------------------------------------------------
(* What the callers' and the worker's steps do to a row that is at its end. *)

\* A call leaves a finished row alone, cancels none and partly fills none.
CallEnds(old, new) ==
  /\ old.state \in Terminal => new = old
  /\ new.state = "Canceled" => old.state = "Canceled"
  /\ new.state = "PartiallyFilled" => old.state = "PartiallyFilled" \/ new.traded # 0

\* Nobody forgets to give back a reservation, and an order that a call rejects
\* is not at the venue and has somebody to give back its own.
EndsKept ==
  \A id \in OrderIds :
    /\ Present(id) => CallEnds(orders[id], orders'[id])
    /\ Present(id) /\ orders'[id].state = "Rejected" =>
         \/ orders[id].state = "Rejected"
         \/ ~AtVenue(id) /\ (ReleasedBySubmit(id)' \/ ReleasedByWorker(id)')
    /\ venue'[id].asked =>
         venue[id].asked \/ (AtVenue(id) /\ orders[id].state # "SendPending")
    /\ venue[id].asked => venue'[id].asked
    /\ Present(id) /\ Covered(id)' => Covered(id)
    /\ Covered(id)' /\ ReleasedBySubmit(id) => ReleasedBySubmit(id)'
    /\ Covered(id)' /\ ReleasedByWorker(id) => ReleasedByWorker(id)'

LEMMA ApplyEnds ==
  ASSUME NEW old \in Entry, NEW to,
         to \notin {"Filled", "Canceled"},
         to = "PartiallyFilled" => old.traded # 0
  PROVE  CallEnds(old, ApplyTransition(old, to))
  <1>1. CASE CanTransition(old.state, to)
    <2>1. /\ ApplyTransition(old, to) = [old EXCEPT !.state = to]
          /\ [old EXCEPT !.state = to].state = to
          /\ [old EXCEPT !.state = to].traded = old.traded
          /\ [old EXCEPT !.state = old.state] = old
      BY <1>1 DEF ApplyTransition, Entry
    <2>2. old.state \in Terminal => to = old.state
      BY <1>1 DEF CanTransition, Successors, Terminal
    <2> QED BY <2>1, <2>2 DEF CallEnds
  <1>2. CASE ~CanTransition(old.state, to)
    BY <1>2 DEF ApplyTransition, CallEnds
  <1> QED BY <1>1, <1>2

LEMMA SendResultEnds ==
  ASSUME NEW old \in Entry, NEW rc
  PROVE  CallEnds(old, SendResult(old, rc))
  <1> DEFINE unknown  == [old EXCEPT !.status = "Unknown"]
             rejected == [old EXCEPT !.status = "Rejected"]
  <1>1. /\ unknown \in Entry /\ rejected \in Entry
        /\ unknown.state = old.state /\ rejected.state = old.state
        /\ unknown.traded = old.traded /\ rejected.traded = old.traded
    BY DEF Entry, Statuses
  <1>2. /\ CallEnds(old, ApplyTransition(old, "Working"))
        /\ CallEnds(unknown, ApplyTransition(unknown, "SendUnknown"))
        /\ CallEnds(rejected, ApplyTransition(rejected, "Rejected"))
    BY <1>1, ApplyEnds
  <1>3. \/ SendResult(old, rc) = old
        \/ /\ old.state \in {"SendPending", "EmsQueued"}
           /\ \/ SendResult(old, rc) = ApplyTransition(old, "Working")
              \/ SendResult(old, rc) = ApplyTransition(unknown, "SendUnknown")
              \/ SendResult(old, rc) = ApplyTransition(rejected, "Rejected")
    BY Zenon DEF SendResult
  <1> HIDE DEF unknown, rejected
  <1> QED BY <1>1, <1>2, <1>3 DEF CallEnds, Terminal

\* One row takes a step, the others stay.
LEMMA OneRowEnds ==
  ASSUME FlowInv, NEW id, Present(id), NEW new, OneRowChanges(id, new),
         CallEnds(orders[id], new), NEW j \in OrderIds
  PROVE  CallEnds(orders[j], orders'[j])
  BY DEF OneRowChanges, CallEnds

LEMMA RequestEnds ==
  ASSUME FlowInv, NEW id, Present(id), NEW to \in {"EmsQueued", "SendPending", "CancelPending"},
         RequestTransition(id, to), NEW j \in OrderIds
  PROVE  /\ CallEnds(orders[j], orders'[j])
         /\ orders'[j].state = "Rejected" => orders[j].state = "Rejected"
  <1>1. OneRowChanges(id, ApplyTransition(orders[id], to)) /\ orders[id] \in Entry
    BY RequestTables, RowTyped DEF FlowInv, Present
  <1>2. CallEnds(orders[id], ApplyTransition(orders[id], to))
    BY <1>1, ApplyEnds
  <1> QED BY <1>1, <1>2, OneRowEnds, RequestRejectsNone

LEMMA SendRecordEnds ==
  ASSUME FlowInv, NEW id, Present(id), NEW rc, RecordSendResult(id, rc), NEW j \in OrderIds
  PROVE  /\ CallEnds(orders[j], orders'[j])
         /\ orders'[j].state = "Rejected" =>
              orders[j].state = "Rejected" \/ (j = id /\ rc \notin {"Success", "Timeout"})
  <1>1. OneRowChanges(id, SendResult(orders[id], rc)) /\ orders[id] \in Entry
    BY SendResultTables, RowTyped DEF FlowInv, Present
  <1>2. CallEnds(orders[id], SendResult(orders[id], rc))
    BY <1>1, SendResultEnds
  <1> QED BY <1>1, <1>2, OneRowEnds, SendResultRejects

LEMMA CancelRecordEnds ==
  ASSUME FlowInv, NEW id, Present(id), NEW rc, RecordCancelResult(id, rc), NEW j \in OrderIds
  PROVE  /\ CallEnds(orders[j], orders'[j])
         /\ orders'[j].state = "Rejected" => orders[j].state = "Rejected"
  <1>0. PICK to : to = CancelTarget(orders[id], rc)
    OBVIOUS
  <1>1. OneRowChanges(id, ApplyTransition(orders[id], to)) /\ orders[id] \in Entry
    BY <1>0, CancelResultTables, RowTyped DEF FlowInv, Present
  <1>2. to \notin {"Filled", "Canceled"} /\ (to = "PartiallyFilled" => orders[id].traded # 0)
    BY <1>0, <1>1 DEF CancelTarget, Entry
  <1>3. CallEnds(orders[id], ApplyTransition(orders[id], to))
    BY <1>1, <1>2, ApplyEnds
  <1> QED BY <1>1, <1>3, OneRowEnds, CancelResultRejectsNone

\* What is left to show when neither the venue nor a releaser is touched.
RowEnds(id) ==
  /\ CallEnds(orders[id], orders'[id])
  /\ orders'[id].state = "Rejected" =>
       \/ orders[id].state = "Rejected"
       \/ ~AtVenue(id) /\ (ReleasedBySubmit(id)' \/ ReleasedByWorker(id)')
  /\ Covered(id)' => Covered(id)

LEMMA RowUntouched ==
  ASSUME FlowInv, orders' = orders, \A id \in OrderIds : Present(id) /\ Covered(id)' => Covered(id)
  PROVE  \A id \in OrderIds : Present(id) => RowEnds(id)
  BY DEF RowEnds, CallEnds

\* A failed enqueue rejects an order that its Submit then releases.
LEMMA SubmitEnds ==
  ASSUME FlowInv, RightsInv, NEW s \in Submissions, Submit(s)
  PROVE  EndsKept
  <1>1. UNCHANGED <<venue, worker>>
    BY SubmitFlow DEF CallerStep
  <1>2. \A t \in Submissions \ {s} : submit'[t] = submit[t]
    BY DEF Submit, Admit, Allocate, Reserve, QueryReservation, Create, CheckPrepared, Mark,
           Enqueue, UndoSubmit, ReleaseSubmit, SubmitStep, SubmitReturns, FlowInv, CallsTypeOK
  <1>3. ASSUME NEW id \in OrderIds, Covered(id)', ReleasedBySubmit(id)
        PROVE  ReleasedBySubmit(id)'
    <2>1. PICK t \in Submissions : submit[t].pc = "release" /\ submit[t].cid = id
      BY <1>3 DEF ReleasedBySubmit
    <2>2. CASE t # s
      BY <1>2, <2>1, <2>2 DEF ReleasedBySubmit
    <2>3. CASE t = s
      <3>1. SetReservation(id, "released")
        BY <2>1, <2>3 DEF Submit, Admit, Allocate, Reserve, QueryReservation, Create,
             CheckPrepared, Mark, Enqueue, UndoSubmit, ReleaseSubmit, SubmitStep, SubmitReturns
      <3> QED BY <1>3, <3>1 DEF SetReservation, Covered, FlowInv, ExtTypeOK
    <2> QED BY <2>2, <2>3
  <1>4. SUFFICES \A id \in OrderIds : Present(id) => RowEnds(id)
    BY <1>1, <1>3 DEF EndsKept, RowEnds, ReleasedByWorker
  <1>5. CASE Admit(s) \/ Allocate(s) \/ QueryReservation(s) \/ CheckPrepared(s) \/ Enqueue(s)
    <2>1. UNCHANGED <<orders, reservation>>
      BY <1>5 DEF Admit, Allocate, AllocateOrderId, QueryReservation, CheckPrepared, Enqueue,
                  omsVars, extVars
    <2> QED BY <2>1, RowUntouched DEF Covered
  <1>6. CASE Reserve(s)
    <2>1. PICK id : id = submit[s].oid
      OBVIOUS
    <2>2. /\ orders' = orders /\ submit[s].pc = "reserve"
          /\ reservation' = reservation
             \/ \E value : reservation' = [reservation EXCEPT ![id] = value]
      BY <1>6, <2>1 DEF Reserve, SetReservation, SubmitStep, SubmitReturns, omsVars, extVars
    <2>3. ~Present(id)
      BY <2>1, <2>2 DEF FlowInv, SubmitsInv, Preparing, Present
    <2>4. \A j \in OrderIds : Present(j) => reservation'[j] = reservation[j]
      BY <2>2, <2>3 DEF FlowInv, ExtTypeOK
    <2> QED BY <2>2, <2>4, RowUntouched DEF Covered
  <1>7. CASE Create(s)
    <2>1. PICK v \in Volumes : CreateOrder(Req(s, v), submit[s].oid)
      BY <1>7 DEF Create
    <2>2. PICK id, new : id = submit[s].oid /\ new = NewEntry(Req(s, v))
      OBVIOUS
    <2>3. ~Present(id)
      BY <1>7, <2>2 DEF FlowInv, SubmitsInv, Preparing, Present, Create
    <2>4. orders' = orders \/ orders' = [orders EXCEPT ![id] = new]
      BY <2>1, <2>2 DEF CreateOrder
    <2>5. \A j \in OrderIds : Present(j) => orders'[j] = orders[j]
      BY <2>3, <2>4 DEF FlowInv, OmsInv, TypeOK
    <2>6. reservation' = reservation
      BY <1>7 DEF Create, extVars
    <2> QED BY <2>5, <2>6 DEF RowEnds, CallEnds, Covered
  <1>8. CASE Mark(s)
    <2>1. /\ Present(submit[s].cid) /\ RequestTransition(submit[s].cid, "EmsQueued")
          /\ reservation' = reservation
      BY <1>8 DEF Mark, MarkEmsQueued, FlowInv, SubmitsInv, Holding, extVars
    <2> QED BY <2>1, RequestEnds DEF RowEnds, Covered
  <1>9. CASE UndoSubmit(s)
    <2>1. PICK id : id = submit[s].cid
      OBVIOUS
    <2>2. /\ Present(id) /\ Unsent(id) /\ reservation' = reservation
          /\ RecordSendResult(id, submit[s].rc)
          /\ submit' = [submit EXCEPT ![s].pc = "release"]
      BY <1>9, <2>1 DEF UndoSubmit, SubmitStep, FlowInv, SubmitsInv, Holding, RightsInv,
                        HeldBySubmit, extVars
    <2>3. ~AtVenue(id)
      BY <2>2, VenueFacts DEF AtVenue, Unsent, Present
    <2>4. ReleasedBySubmit(id)'
      BY <2>1, <2>2 DEF ReleasedBySubmit, FlowInv, CallsTypeOK
    <2> QED BY <2>2, <2>3, <2>4, SendRecordEnds DEF RowEnds, Covered
  <1>10. CASE ReleaseSubmit(s)
    <2>1. /\ reservation' = [reservation EXCEPT ![submit[s].cid] = "released"]
          /\ orders' = orders
      BY <1>10 DEF ReleaseSubmit, SetReservation, omsVars
    <2>2. \A j \in OrderIds : Covered(j)' => Covered(j)
      BY <2>1 DEF FlowInv, ExtTypeOK, Covered
    <2> QED BY <2>1, <2>2, RowUntouched
  <1> QED BY <1>5, <1>6, <1>7, <1>8, <1>9, <1>10 DEF Submit

LEMMA CancelEnds ==
  ASSUME FlowInv, NEW k \in Cancellations, Cancel(k)
  PROVE  EndsKept
  <1>1. UNCHANGED <<venue, reservation, submit, worker>>
    BY DEF Cancel, LookupCancel, AcceptCancel, EnqueueCancel, UndoCancel, extVars, emsVars
  <1>2. SUFFICES \A id \in OrderIds : Present(id) => RowEnds(id)
    BY <1>1 DEF EndsKept, RowEnds, ReleasedBySubmit, ReleasedByWorker
  <1>3. CASE LookupCancel(k) \/ EnqueueCancel(k)
    <2>1. orders' = orders
      BY <1>3 DEF LookupCancel, EnqueueCancel, omsVars
    <2> QED BY <1>1, <2>1, RowUntouched DEF Covered
  <1>4. CASE AcceptCancel(k)
    <2>1. Present(cancel[k].id) /\ RequestTransition(cancel[k].id, "CancelPending")
      BY <1>4 DEF AcceptCancel, CancelOrder, FlowInv, ItemsInv
    <2> QED BY <1>1, <2>1, RequestEnds DEF RowEnds, Covered
  <1>5. CASE UndoCancel(k)
    <2>1. Present(cancel[k].id) /\ RecordCancelResult(cancel[k].id, cancel[k].rc)
      BY <1>5 DEF UndoCancel, FlowInv, ItemsInv
    <2> QED BY <1>1, <2>1, CancelRecordEnds DEF RowEnds, Covered
  <1> QED BY <1>3, <1>4, <1>5 DEF Cancel

LEMMA StopEnds ==
  ASSUME FlowInv, StopEms
  PROVE  EndsKept
  <1>1. UNCHANGED <<orders, venue, reservation, submit, worker>>
    BY DEF StopEms, omsVars, callVars, extVars
  <1> QED BY <1>1 DEF EndsKept, CallEnds, ReleasedBySubmit, ReleasedByWorker, Covered

\* So does a failed send with the worker, and it asks only for what is at the venue.
LEMMA WorkerEnds ==
  ASSUME FlowInv, RightsInv, Worker, ~WorkerSend
  PROVE  EndsKept
  <1>0. PICK id : id = worker.item.id
    OBVIOUS
  <1>1. /\ worker.pc # "idle" => Present(id) /\ id \in OrderIds
        /\ \A pc, rc : WorkerTo(pc, rc) => worker'.item = worker.item /\ worker'.pc = pc
    BY <1>0 DEF FlowInv, ItemsInv, Present, WorkerTo, EmsTypeOK
  <1>2. submit' = submit
    BY DEF Worker, WorkerTake, WorkerMark, WorkerRefused, WorkerRecordSend, WorkerRelease,
           WorkerCancel, WorkerRecordCancel, callVars
  <1>3. CASE ~WorkerCancel
    <2>1. venue' = venue
      BY <1>3 DEF Worker, WorkerTake, WorkerMark, WorkerRefused, WorkerRecordSend,
                  WorkerRelease, WorkerRecordCancel, SetReservation, extVars
    <2>2. ASSUME NEW j \in OrderIds, Covered(j)', ReleasedByWorker(j)
          PROVE  ReleasedByWorker(j)'
      <3>1. SetReservation(j, "released")
        BY <1>3, <2>2 DEF ReleasedByWorker, Worker, WorkerTake, WorkerMark, WorkerRefused,
             WorkerRecordSend, WorkerRelease, WorkerRecordCancel, WorkerAt
      <3> QED BY <2>2, <3>1 DEF SetReservation, Covered, FlowInv, ExtTypeOK
    <2>3. SUFFICES \A j \in OrderIds : Present(j) => RowEnds(j)
      BY <1>2, <2>1, <2>2 DEF EndsKept, RowEnds, ReleasedBySubmit
    <2>4. CASE WorkerTake
      <3>1. UNCHANGED <<orders, reservation>>
        BY <2>4 DEF WorkerTake, omsVars, extVars
      <3> QED BY <3>1, RowUntouched DEF Covered
    <2>5. CASE WorkerMark
      <3>1. /\ reservation' = reservation /\ RequestTransition(id, "SendPending")
            /\ worker.pc # "idle"
        BY <1>0, <2>5 DEF WorkerMark, MarkSendPending, WorkerAt, extVars
      <3> QED BY <1>1, <3>1, RequestEnds DEF RowEnds, Covered
    <2>6. CASE WorkerRefused \/ WorkerRecordSend
      <3>1. /\ reservation' = reservation /\ RecordSendResult(id, worker.rc)
            /\ worker.pc \in {"refused", "sent"}
        BY <1>0, <2>6 DEF WorkerRefused, WorkerRecordSend, WorkerAt, extVars
      <3>2. worker.pc = "refused" => ~AtVenue(id) /\ worker'.pc = "release" /\ worker'.item.id = id
        <4>1. SUFFICES ASSUME worker.pc = "refused"
                       PROVE  ~AtVenue(id) /\ worker'.pc = "release" /\ worker'.item.id = id
          OBVIOUS
        <4>2. WorkerTo("release", worker.rc)
          BY <2>6, <4>1 DEF WorkerRefused, WorkerRecordSend, WorkerAt
        <4>3. ~AtVenue(id)
          BY <1>0, <1>1, <3>1, <4>1, VenueFacts DEF AtVenue, RightsInv, HeldByWorker, Unsent
        <4> QED BY <1>0, <1>1, <4>2, <4>3
      <3>3. worker.pc = "sent" /\ worker.rc \notin {"Success", "Timeout"} =>
              ~AtVenue(id) /\ worker'.pc = "release" /\ worker'.item.id = id
        <4>1. SUFFICES ASSUME worker.pc = "sent", worker.rc \notin {"Success", "Timeout"}
                       PROVE  ~AtVenue(id) /\ worker'.pc = "release" /\ worker'.item.id = id
          OBVIOUS
        <4>2. WorkerTo("release", worker.rc)
          BY <2>6, <4>1 DEF WorkerRefused, WorkerRecordSend, WorkerAt
        <4>3. sends[id] = <<worker.rc>>
          BY <1>0, <4>1 DEF FlowInv, SendsInv
        <4>4. ~AtVenue(id)
          BY <1>1, <3>1, <4>1, <4>3 DEF AtVenue, FlowInv, VenueInv
        <4> QED BY <1>0, <1>1, <4>2, <4>4
      <3>4. worker.rc \notin {"Success", "Timeout"} \/ worker.pc = "refused" =>
              ~AtVenue(id) /\ ReleasedByWorker(id)'
        BY <3>1, <3>2, <3>3 DEF ReleasedByWorker
      <3> QED BY <1>1, <3>1, <3>4, SendRecordEnds DEF RowEnds, Covered
    <2>7. CASE WorkerRelease
      <3>1. reservation' = [reservation EXCEPT ![id] = "released"] /\ orders' = orders
        BY <1>0, <2>7 DEF WorkerRelease, SetReservation, omsVars
      <3>2. \A j \in OrderIds : Covered(j)' => Covered(j)
        BY <3>1 DEF FlowInv, ExtTypeOK, Covered
      <3> QED BY <3>1, <3>2, RowUntouched
    <2>8. CASE WorkerRecordCancel
      <3>1. /\ reservation' = reservation /\ RecordCancelResult(id, worker.rc)
            /\ worker.pc # "idle"
        BY <1>0, <2>8 DEF WorkerRecordCancel, WorkerAt, extVars
      <3> QED BY <1>1, <3>1, CancelRecordEnds DEF RowEnds, Covered
    <2> QED BY <1>3, <2>4, <2>5, <2>6, <2>7, <2>8 DEF Worker
  <1>4. CASE WorkerCancel
    <2>1. /\ UNCHANGED <<orders, reservation>> /\ worker.pc = "cancel"
          /\ \E rc : WorkerTo("canceled", rc)
          /\ \E asks \in BOOLEAN :
               /\ asks => Live(id)
               /\ venue' = [venue EXCEPT ![id].asked = @ \/ asks]
      BY <1>0, <1>4 DEF WorkerCancel, WorkerAt, omsVars
    <2>5. worker'.pc # "release"
      BY <1>1, <2>1
    <2>2. \A j \in OrderIds : venue[j].asked \in BOOLEAN
      BY DEF FlowInv, ExtTypeOK
    <2>3. Live(id) => AtVenue(id) /\ orders[id].state # "SendPending"
      BY <1>1, <2>1, LiveFacts DEF AtVenue, Live, Unsent, FlowInv, SendsInv
    <2>4. \A j \in OrderIds : (venue[j].asked => venue'[j].asked)
            /\ (venue'[j].asked => venue[j].asked \/ (j = id /\ Live(id)))
      BY <2>1, <2>2 DEF FlowInv, ExtTypeOK
    <2> QED BY <1>2, <2>1, <2>3, <2>4, <2>5
            DEF EndsKept, CallEnds, ReleasedBySubmit, ReleasedByWorker, Covered
  <1> QED BY <1>3, <1>4

-----------------------------------------------------------------------------
(* The outcomes, step by step.                                             *)

LEMMA ReachesKept ==
  ASSUME NEW id, NEW outcome, Reaches(id, outcome),
         orders[id].state = outcome => orders'[id].state = outcome,
         orders'[id].client = orders[id].client,
         Len(lane) \in Nat, Len(lane') \in Nat, Len(lane) <= Len(lane'),
         \A i \in 1..Len(lane) : lane'[i] = lane[i]
  PROVE  Reaches(id, outcome)'
  <1>1. CASE orders[id].state = outcome
    BY <1>1 DEF Reaches
  <1>2. CASE orders[id].state # outcome
    <2>1. PICK j \in 1..Len(lane) : IsSnapshot(lane[j], id) /\ lane[j].report.status = outcome
      BY <1>2 DEF Reaches
    <2>2. j \in 1..Len(lane') /\ lane'[j] = lane[j]
      BY <2>1
    <2> QED BY <2>1, <2>2 DEF Reaches, IsSnapshot
  <1> QED BY <1>1, <1>2

LEMMA LaneLength ==
  ASSUME FlowInv
  PROVE  Len(lane) \in Nat
  BY LenProperties DEF FlowInv, LaneTypeOK

\* Callers and worker leave the outcomes as they are.
LEMMA InnerOutcomes ==
  ASSUME FlowInv, FlowInv', OutcomesInv, InnerStep, EndsKept
  PROVE  OutcomesInv'
  <1>1. SUFFICES ASSUME NEW id \in OrderIds
                 PROVE  IF AtVenue(id)' THEN RowFits(id)' /\ EndFits(id)' ELSE ~venue'[id].asked
    BY DEF OutcomesInv
  <1>2. /\ venue'[id].status = venue[id].status /\ venue'[id].traded = venue[id].traded
        /\ lane' = lane
    BY DEF InnerStep, SameAtVenue
  <1>3. CASE ~AtVenue(id)
    BY <1>2, <1>3 DEF OutcomesInv, EndsKept, AtVenue
  <1>4. CASE AtVenue(id)
    <2>1. Present(id) /\ Unsendable(id) /\ RowFits(id) /\ EndFits(id)
      BY <1>4, VenueFacts DEF AtVenue, OutcomesInv
    <2>2. CallKept(orders[id], orders'[id]) /\ CallEnds(orders[id], orders'[id])
      BY <2>1 DEF InnerStep, CallsKept, EndsKept
    <2>3. /\ orders'[id].traded = orders[id].traded /\ orders'[id].volume = orders[id].volume
          /\ orders'[id].client = orders[id].client
          /\ orders'[id].state = "Filled" <=> orders[id].state = "Filled"
          /\ orders'[id].state = "Canceled" <=> orders[id].state = "Canceled"
          /\ orders'[id].state = "Rejected" <=> orders[id].state = "Rejected"
          /\ orders'[id].state = "PartiallyFilled" =>
               orders[id].state = "PartiallyFilled" \/ orders'[id].traded # 0
      BY <1>4, <2>1, <2>2 DEF CallKept, RowKept, RowStep, CallEnds, EndsKept, Terminal
    <2>4. venue'[id].asked => orders'[id].state # "SendPending"
      BY <2>1, <2>2 DEF EndsKept, CallKept, RowKept, RowFits, Unsendable, PreSend
    <2>5. RowFits(id)'
      BY <1>2, <2>1, <2>3, <2>4 DEF RowFits, Dead
    <2>6. /\ Reaches(id, "Rejected") => Reaches(id, "Rejected")'
          /\ Reaches(id, "Canceled") => Reaches(id, "Canceled")'
      BY <1>2, <2>3, LaneLength, ReachesKept
    <2>7. EndFits(id)'
      BY <1>2, <2>1, <2>6 DEF EndFits, EndsKept
    <2> QED BY <1>2, <1>4, <2>5, <2>7 DEF AtVenue
  <1> QED BY <1>3, <1>4

\* An order of which neither the row nor what the venue has of it changes.
LEMMA OutcomeStays ==
  ASSUME FlowInv, OutcomesInv, NEW id \in OrderIds,
         orders'[id] = orders[id], venue'[id] = venue[id],
         Len(lane') \in Nat, Len(lane) <= Len(lane'),
         \A i \in 1..Len(lane) : lane'[i] = lane[i]
  PROVE  IF AtVenue(id)' THEN RowFits(id)' /\ EndFits(id)' ELSE ~venue'[id].asked
  <1>1. /\ Reaches(id, "Rejected") => Reaches(id, "Rejected")'
        /\ Reaches(id, "Canceled") => Reaches(id, "Canceled")'
    BY LaneLength, ReachesKept
  <1> QED BY <1>1 DEF OutcomesInv, AtVenue, RowFits, EndFits, Dead

LEMMA SendOutcomes ==
  ASSUME FlowInv, RightsInv, FillInv, OutcomesInv, WorkerSend
  PROVE  OutcomesInv'
  <1>0. PICK id : id = worker.item.id
    OBVIOUS
  <1>1. PICK rc \in Results, taken \in BOOLEAN : SendMove(id, rc, taken)
    BY <1>0, WorkerSendFlow
  <1>2. /\ orders' = orders /\ Present(id) /\ id \in OrderIds /\ worker.pc = "send"
        /\ venue[id].status = "none" /\ venue[id].traded = 0
        /\ venue' = IF taken THEN [venue EXCEPT ![id].status = "queued"] ELSE venue
    BY <1>1 DEF SendMove, Present, omsVars
  <1>3. /\ Len(lane') \in Nat /\ Len(lane) <= Len(lane')
        /\ \A i \in 1..Len(lane) : lane'[i] = lane[i]
    <2>1. CASE taken
      BY <1>1, <2>1 DEF SendMove, Published
    <2>2. CASE ~taken
      BY <1>1, <2>2, LaneLength DEF SendMove
    <2> QED BY <2>1, <2>2
  <1>4. ASSUME NEW j \in OrderIds, j # id \/ ~taken
        PROVE  IF AtVenue(j)' THEN RowFits(j)' /\ EndFits(j)' ELSE ~venue'[j].asked
    <2>1. venue'[j] = venue[j]
      BY <1>2, <1>4 DEF FlowInv, ExtTypeOK
    <2> QED BY <1>2, <1>3, <2>1, OutcomeStays
  <1>5. ASSUME taken
        PROVE  AtVenue(id)' /\ RowFits(id)' /\ EndFits(id)'
    <2>1. venue'[id].status = "queued" /\ venue'[id].asked = venue[id].asked
      BY <1>2, <1>5 DEF FlowInv, ExtTypeOK
    <2>2. ~venue[id].asked
      BY <1>2 DEF OutcomesInv, AtVenue
    <2>3. orders[id].state = "SendPending"
      BY <1>0, <1>2 DEF RightsInv, HeldByWorker
    <2>4. orders[id].traded \in Nat /\ orders[id].traded <= 0
      BY <1>2, RowTyped DEF FlowInv, Entry, FillInv, CountInv
    <2>5. orders[id].traded # orders[id].volume
      BY <1>2, <2>4, VolumesPositive
    <2> QED BY <1>2, <2>1, <2>2, <2>3, <2>5 DEF AtVenue, RowFits, EndFits, Dead
  <1> QED BY <1>2, <1>4, <1>5 DEF OutcomesInv

\* The end of an order at the venue joins the lane.
LEMMA EndPublished ==
  ASSUME FlowInv, LaneHasRoom, orders' = orders, NEW id, NEW status, NEW traded,
         Publish(<<OrderEvent(id, status, traded)>>)
  PROVE  Reaches(id, status)'
  <1>1. PICK e : e = OrderEvent(id, status, traded)
    OBVIOUS
  <1>2. e.kind = "order" /\ e.report.client = orders[id].client /\ e.report.status = status
    BY <1>1 DEF OrderEvent
  <1>3. Len(lane) \in Nat /\ Len(lane') = Len(lane) + 1 /\ lane'[Len(lane) + 1] = e
    BY <1>1, PublishOne
  <1>4. PICK j : j = Len(lane) + 1
    OBVIOUS
  <1>5. j \in 1..Len(lane') /\ lane'[j] = e
    BY <1>3, <1>4
  <1> QED BY <1>2, <1>5 DEF Reaches, IsSnapshot

\* An end at the venue is on its way from the moment it comes about.
LEMMA VenueOutcomes ==
  ASSUME FlowInv, OutcomesInv, LaneHasRoom, NEW id \in OrderIds, Venue(id)
  PROVE  OutcomesInv'
  <1>1. PICK events : VenueMove(id, events)
    BY VenueFillFlow, VenueCancelFlow, VenueRejectFlow, VenueRepeatFlow DEF Venue
  <1>2. /\ orders' = orders /\ AtVenue(id) /\ AtVenue(id)' /\ RowFits(id) /\ EndFits(id)
        /\ Len(lane') \in Nat /\ Len(lane) <= Len(lane')
        /\ \A i \in 1..Len(lane) : lane'[i] = lane[i]
        /\ \A j \in OrderIds \ {id} : venue'[j] = venue[j]
    BY <1>1 DEF VenueMove, VenueGrows, Published, AtVenue, OutcomesInv, omsVars
  <1>3. \A j \in OrderIds \ {id} :
          IF AtVenue(j)' THEN RowFits(j)' /\ EndFits(j)' ELSE ~venue'[j].asked
    BY <1>2, OutcomeStays
  <1>4. SUFFICES RowFits(id)' /\ EndFits(id)'
    BY <1>2, <1>3 DEF OutcomesInv
  <1>5. venue'[id].asked = venue[id].asked
    BY DEF Venue, VenueFill, VenueCancel, VenueReject, VenueRepeat, FlowInv, ExtTypeOK
  <1>6. CASE Live(id)
    <2>1. orders[id].state \notin {"Canceled", "Rejected"}
      BY <1>2, <1>6 DEF RowFits, Live
    <2>2. RowFits(id)'
      BY <1>2, <1>5, <2>1 DEF RowFits, Dead
    <2>3. CASE VenueFill(id)
      BY <2>2, <2>3, VenueFillFlow DEF EndFits
    <2>4. CASE VenueCancel(id)
      <3>1. Reaches(id, "Canceled")'
        BY <1>2, <2>4, EndPublished DEF VenueCancel
      <3> QED BY <1>5, <2>2, <2>4, <3>1, VenueCancelFlow DEF EndFits, VenueCancel
    <2>5. CASE VenueReject(id)
      <3>1. Reaches(id, "Rejected")'
        BY <1>2, <2>5, EndPublished DEF VenueReject
      <3> QED BY <2>2, <2>5, <3>1, VenueRejectFlow DEF EndFits, VenueReject
    <2>6. CASE VenueRepeat(id)
      BY <1>6, <2>2, <2>6, VenueRepeatFlow DEF EndFits, Live
    <2> QED BY <2>3, <2>4, <2>5, <2>6 DEF Venue
  <1>7. CASE ~Live(id)
    <2>1. VenueRepeat(id)
      BY <1>7 DEF Venue, VenueFill, VenueCancel, VenueReject
    <2>2. venue'[id].status = venue[id].status /\ venue'[id].traded = venue[id].traded
      BY <2>1, VenueRepeatFlow
    <2>3. /\ Reaches(id, "Rejected") => Reaches(id, "Rejected")'
          /\ Reaches(id, "Canceled") => Reaches(id, "Canceled")'
      BY <1>2, LaneLength, ReachesKept
    <2> QED BY <1>2, <1>5, <2>2, <2>3 DEF RowFits, EndFits, Dead
  <1> QED BY <1>6, <1>7

\* What is under way stays so when the head of the lane is not it.
LEMMA ReachesShifted ==
  ASSUME FlowInv, NEW e, NEW id \in OrderIds, ReportMove(e, id), NEW k \in OrderIds,
         NEW outcome, \E j \in 1..Len(lane) :
           IsSnapshot(lane[j], k) /\ lane[j].report.status = outcome,
         ~(IsSnapshot(e, k) /\ e.report.status = outcome),
         orders'[k].client = orders[k].client
  PROVE  Reaches(k, outcome)'
  <1>1. PICK j \in 1..Len(lane) : IsSnapshot(lane[j], k) /\ lane[j].report.status = outcome
    OBVIOUS
  <1>2. /\ Len(lane) \in Nat \ {0} /\ e = lane[1] /\ Len(lane') = Len(lane) - 1
        /\ \A i \in 1..Len(lane') : lane'[i] = lane[i + 1]
    BY DEF ReportMove
  <1>3. PICK i : i = j - 1
    OBVIOUS
  <1>4. i \in 1..Len(lane') /\ i + 1 = j
    BY <1>1, <1>2, <1>3
  <1>5. lane'[i] = lane[j]
    BY <1>2, <1>4
  <1> QED BY <1>1, <1>4, <1>5 DEF Reaches, IsSnapshot

\* An end the venue reported is one the row can still take.
LEMMA EndTaken ==
  ASSUME FlowInv, FillInv, NEW e, NEW id \in OrderIds, ReportMove(e, id), e.kind = "order",
         RowFits(id), EndFits(id), NEW outcome \in {"Canceled", "Rejected"},
         e.report.status = outcome, outcome = "Canceled" => ~VenueMayCancel
  PROVE  orders'[id].state = outcome
  <1>1. /\ Present(id) /\ Unsendable(id) /\ EventAbout(e, id)
        /\ orders'[id] = Merged(orders[id], e.report)
    BY FindAbout DEF ReportMove
  <1>2. /\ outcome = "Canceled" => venue[id].status = "canceled"
        /\ outcome = "Rejected" => venue[id].status = "rejected"
    BY <1>1 DEF EventAbout
  <1>3. /\ orders[id] \in Entry /\ orders[id].state \in Lifecycle /\ orders[id].traded \in Nat
        /\ orders[id].volume \in Nat /\ orders[id].volume > 0 /\ venue[id].traded \in Nat
        /\ venue[id].traded <= orders[id].volume /\ venue[id].traded # orders[id].volume
        /\ orders[id].traded <= venue[id].traded
    BY <1>1, <1>2, RowTyped, VolumesPositive
       DEF FlowInv, Entry, ExtTypeOK, VenueInv, FillInv, CountInv
  <1>4. orders[id].state # "Filled"
    BY <1>3 DEF RowFits
  <1>5. CanTransition(orders[id].state, outcome)
    <2>1. CASE outcome = "Canceled"
      <3>1. orders[id].state \notin {"Rejected", "SendPending"}
        BY <1>2, <2>1 DEF RowFits, EndFits
      <3> QED BY <1>1, <1>3, <1>4, <2>1, <3>1
              DEF CanTransition, Successors, Lifecycle, Unsendable, PreSend, Terminal
    <2>2. CASE outcome = "Rejected"
      <3>1. orders[id].state \notin {"Canceled", "PartiallyFilled"}
        BY <1>2, <1>3, <2>2 DEF RowFits, EndFits
      <3> QED BY <1>1, <1>3, <1>4, <2>2, <3>1
              DEF CanTransition, Successors, Lifecycle, Unsendable, PreSend, Terminal
    <2> QED BY <2>1, <2>2
  <1>6. MergeTarget(orders[id], e.report) = outcome
    BY DEF MergeTarget, LifecycleFromStatus, Terminal
  <1> QED BY <1>1, <1>3, <1>5, <1>6 DEF Merged, MergeLegal, MergeSnapshot, Entry

\* A snapshot sets the row to what it reports, or the row is already at an end.
LEMMA SnapshotOutcome ==
  ASSUME FlowInv, FillInv, PaceInv, OutcomesInv, NEW e, NEW id \in OrderIds,
         ReportMove(e, id), e.kind = "order"
  PROVE  RowFits(id)' /\ EndFits(id)'
  <1>1. /\ Present(id) /\ Unsendable(id) /\ EventAbout(e, id) /\ e \in Event
        /\ orders'[id] = Merged(orders[id], e.report) /\ venue' = venue
    BY FindAbout DEF ReportMove, extVars
  <1>2. /\ AtVenue(id) /\ RowFits(id) /\ EndFits(id)
    BY <1>1 DEF EventAbout, AtVenue, OutcomesInv
  <1>3. /\ e.report \in OrderReport /\ e.report.status \in Statuses \ {"Unknown"}
        /\ e.report.volume = orders[id].volume
        /\ orders[id] \in Entry /\ orders[id].state \in Lifecycle
    BY <1>1, RowTyped DEF Event, OrderReport, EventAbout, FlowInv
  <1>4. /\ e.report.traded = orders[id].traded /\ orders'[id].traded = orders[id].traded
        /\ e.report.status \in {"Canceled", "Rejected"} => e.report.traded = venue[id].traded
    BY HeadSnapshot
  <1>5. /\ RowKept(orders[id], orders'[id])
        /\ orders'[id].state = orders[id].state \/ orders'[id].state = e.report.status
    BY <1>1, <1>3, MergedKept
  <1>6. /\ orders'[id].volume = orders[id].volume /\ orders'[id].client = orders[id].client
        /\ orders[id].state \in Terminal => orders'[id].state = orders[id].state
    BY <1>5 DEF RowKept, RowStep
  <1>7. RowFits(id)'
    <2>1. orders'[id].state = "Filled" <=> orders'[id].traded = orders'[id].volume
      BY <1>1, <1>2, <1>4, <1>5, <1>6 DEF EventAbout, RowFits, Terminal
    <2>2. orders'[id].state = "PartiallyFilled" => orders'[id].traded # 0
      BY <1>1, <1>2, <1>4, <1>5 DEF EventAbout, RowFits
    <2>3. /\ orders'[id].state = "Canceled" => venue[id].status = "canceled"
          /\ orders'[id].state = "Rejected" => venue[id].status = "rejected"
          /\ orders'[id].state \in {"Canceled", "Rejected"} =>
               orders'[id].traded = venue[id].traded
      BY <1>1, <1>2, <1>4, <1>5 DEF EventAbout, RowFits, Dead
    <2>4. venue[id].asked => orders'[id].state # "SendPending"
      BY <1>1, <1>2, <1>5 DEF RowKept, RowFits, Unsendable, PreSend
    <2> QED BY <1>1, <2>1, <2>2, <2>3, <2>4 DEF RowFits, Dead
  <1>8. ASSUME NEW outcome \in {"Canceled", "Rejected"}, Reaches(id, outcome),
               outcome = "Canceled" => ~VenueMayCancel
        PROVE  Reaches(id, outcome)'
    <2>1. CASE orders[id].state = outcome
      BY <1>6, <2>1 DEF Reaches, Terminal
    <2>2. CASE e.report.status = outcome
      BY <1>2, <1>8, <2>2, EndTaken DEF Reaches
    <2>3. CASE orders[id].state # outcome /\ e.report.status # outcome
      <3>1. \E j \in 1..Len(lane) : IsSnapshot(lane[j], id) /\ lane[j].report.status = outcome
        BY <1>8, <2>3 DEF Reaches
      <3> QED BY <1>6, <2>3, <3>1, ReachesShifted
    <2> QED BY <2>1, <2>2, <2>3
  <1>9. EndFits(id)'
    BY <1>1, <1>2, <1>8 DEF EndFits
  <1> QED BY <1>7, <1>9

\* A trade fills the row when it is the last one, and keeps any end under way.
LEMMA TradeOutcome ==
  ASSUME FlowInv, FillInv, PaceInv, OutcomesInv, NEW e, NEW id \in OrderIds,
         ReportMove(e, id), e.kind = "trade"
  PROVE  RowFits(id)' /\ EndFits(id)'
  <1>1. /\ AtVenue(id) /\ RowFits(id) /\ EndFits(id) /\ venue' = venue
        /\ venue[id].traded \in Nat
    BY DEF ReportMove, EventAbout, AtVenue, OutcomesInv, extVars, FlowInv, ExtTypeOK
  <1>2. PICK n \in Nat : TradeMove(e, id, n)
    BY HeadTrade
  <1>3. ~IsSnapshot(e, id) /\ orders'[id].client = orders[id].client
    BY RowsStay DEF IsSnapshot, ReportMove, FlowInv, TablesKept
  <1>4. ASSUME NEW outcome, orders[id].state # outcome, Reaches(id, outcome)
        PROVE  Reaches(id, outcome)'
    <2>1. \E j \in 1..Len(lane) : IsSnapshot(lane[j], id) /\ lane[j].report.status = outcome
      BY <1>4 DEF Reaches
    <2> QED BY <1>3, <2>1, ReachesShifted
  <1>5. CASE UNCHANGED omsVars
    <2>1. orders' = orders
      BY <1>5 DEF omsVars
    <2>2. \A outcome : Reaches(id, outcome) => Reaches(id, outcome)'
      BY <1>4, <2>1 DEF Reaches
    <2> QED BY <1>1, <2>1, <2>2 DEF RowFits, EndFits, Dead
  <1>6. CASE ~UNCHANGED omsVars
    <2>1. /\ orders[id].state \notin Terminal /\ n # 0 /\ n <= venue[id].traded
          /\ orders'[id].traded = n /\ orders'[id].volume = orders[id].volume
          /\ orders'[id].state = IF n = orders[id].volume THEN "Filled" ELSE "PartiallyFilled"
      BY <1>1, <1>2, <1>6 DEF TradeMove
    <2>2. RowFits(id)'
      BY <1>1, <2>1 DEF RowFits, Dead
    <2>3. EndFits(id)'
      BY <1>1, <1>4, <2>1 DEF EndFits, Terminal
    <2> QED BY <2>2, <2>3
  <1> QED BY <1>5, <1>6

LEMMA ReportOutcomes ==
  ASSUME FlowInv, FillInv, PaceInv, OutcomesInv, NEW e, NEW id \in OrderIds, ReportMove(e, id)
  PROVE  OutcomesInv'
  <1>1. /\ Present(id) /\ EventAbout(e, id) /\ e \in Event /\ venue' = venue
        /\ AtVenue(id) /\ \A j \in OrderIds \ {id} : orders'[j] = orders[j]
    BY DEF ReportMove, extVars, EventAbout, AtVenue
  <1>2. RowFits(id)' /\ EndFits(id)'
    BY <1>1, SnapshotOutcome, TradeOutcome DEF Event
  <1>3. ASSUME NEW j \in OrderIds, j # id, AtVenue(j)
        PROVE  RowFits(j)' /\ EndFits(j)'
    <2>1. orders'[j] = orders[j] /\ RowFits(j) /\ EndFits(j) /\ Present(j)
      BY <1>1, <1>3, VenueFacts DEF OutcomesInv, AtVenue
    <2>2. ~IsSnapshot(e, j)
      BY <1>1, <1>3, <2>1, ClientUnique DEF IsSnapshot, EventAbout
    <2>3. ASSUME NEW outcome, Reaches(j, outcome)
          PROVE  Reaches(j, outcome)'
      <3>1. CASE orders[j].state = outcome
        BY <2>1, <3>1 DEF Reaches
      <3>2. CASE orders[j].state # outcome
        <4>1. \E i \in 1..Len(lane) : IsSnapshot(lane[i], j) /\ lane[i].report.status = outcome
          BY <2>3, <3>2 DEF Reaches
        <4> QED BY <2>1, <2>2, <4>1, ReachesShifted
      <3> QED BY <3>1, <3>2
    <2> QED BY <1>1, <2>1, <2>3 DEF RowFits, EndFits, Dead
  <1> QED BY <1>1, <1>2, <1>3 DEF OutcomesInv, AtVenue

-----------------------------------------------------------------------------
(* The reservation of a finished order, step by step.                      *)

LEMMA InnerRelease ==
  ASSUME FlowInv, ReleaseInv, InnerStep, EndsKept
  PROVE  ReleaseInv'
  <1>1. SUFFICES ASSUME NEW id \in OrderIds, orders'[id].state \in Terminal, Covered(id)'
                 PROVE  \/ ReleasedBySubmit(id)' \/ ReleasedByWorker(id)'
                        \/ ReleasedByLane(id)'
    BY DEF ReleaseInv
  <1>2. Present(id)
    <2>1. SUFFICES ASSUME ~Present(id) PROVE FALSE
      OBVIOUS
    <2>2. orders'[id] = orders[id] \/ FreshRow(orders'[id])
      BY <2>1 DEF InnerStep, CallsKept
    <2> QED BY <1>1, <2>1, <2>2 DEF FreshRow, Terminal, Present
  <1>3. /\ CallKept(orders[id], orders'[id]) /\ CallEnds(orders[id], orders'[id])
        /\ handler' = handler /\ Covered(id)
    BY <1>1, <1>2 DEF InnerStep, CallsKept, EndsKept
  <1>4. CASE orders[id].state \in Terminal
    <2>1. orders'[id] = orders[id]
      BY <1>3, <1>4 DEF CallEnds
    <2>2. ReleasedByLane(id) => ReleasedByLane(id)'
      BY <1>3, <2>1 DEF ReleasedByLane
    <2> QED BY <1>1, <1>3, <1>4, <2>2 DEF ReleaseInv, EndsKept
  <1>5. CASE orders[id].state \notin Terminal
    <2>1. orders'[id].state = "Rejected" /\ orders[id].state # "Rejected"
      BY <1>1, <1>3, <1>5 DEF CallKept, CallEnds, Terminal
    <2> QED BY <1>2, <2>1 DEF EndsKept
  <1> QED BY <1>4, <1>5

LEMMA OutsideRelease ==
  ASSUME ReleaseInv, UNCHANGED <<orders, reservation, submit, handler>>,
         worker.pc = "release" => worker' = worker
  PROVE  ReleaseInv'
  BY DEF ReleaseInv, Covered, ReleasedBySubmit, ReleasedByWorker, ReleasedByLane

\* The Lane-T thread gives back what it had to.
LEMMA FinishRelease ==
  ASSUME FlowInv, ReleaseInv, FinishReport
  PROVE  ReleaseInv'
  <1>1. /\ UNCHANGED <<orders, submit, worker>> /\ handler # <<>>
    BY DEF FinishReport, omsVars, callVars, emsVars
  <1>2. SUFFICES ASSUME NEW id \in OrderIds, orders[id].state \in Terminal, Covered(id)'
                 PROVE  ReleasedBySubmit(id) \/ ReleasedByWorker(id)
    BY <1>1 DEF ReleaseInv, ReleasedBySubmit, ReleasedByWorker
  <1>3. Covered(id)
    BY <1>2 DEF FinishReport, SetReservation, Covered, extVars, FlowInv, ExtTypeOK
  <1>4. SUFFICES ASSUME ReleasedByLane(id) PROVE FALSE
    BY <1>2, <1>3 DEF ReleaseInv
  <1>5. PICK e : e = handler[1]
    OBVIOUS
  <1>6. PICK k \in OrderIds : EventAbout(e, k)
    BY <1>1, <1>5 DEF FlowInv, EventsInv
  <1>7. Present(id) /\ Present(k) /\ orders[k].client = orders[id].client
    BY <1>2, <1>4, <1>5, <1>6, FindAbout DEF Present, Terminal, ReleasedByLane, EventAbout
  <1>8. k = id
    BY <1>7, ClientUnique
  <1>9. LocalOrder(e.report) = id /\ id # NoId
    BY <1>6, <1>8, FindAbout, IdFacts
  <1>10. ReleasesReservation(e)
    BY <1>4, <1>5, <1>9 DEF ReleasesReservation, ReleasedByLane
  <1>11. reservation' = [reservation EXCEPT ![id] = "released"]
    BY <1>5, <1>9, <1>10 DEF FinishReport, SetReservation
  <1> QED BY <1>2, <1>11 DEF Covered, FlowInv, ExtTypeOK

\* An event that finishes a row is one its handler then releases for.
LEMMA ReportRelease ==
  ASSUME FlowInv, FlowInv', FillInv, PaceInv, OutcomesInv, ReleaseInv, handler = <<>>,
         NEW e, NEW id \in OrderIds, ReportMove(e, id)
  PROVE  ReleaseInv'
  <1>1. /\ UNCHANGED <<submit, worker, reservation>> /\ handler' = <<e>> /\ e \in Event
        /\ EventAbout(e, id) /\ Present(id)
        /\ \A j \in OrderIds \ {id} : orders'[j] = orders[j]
    BY DEF ReportMove, callVars, emsVars, extVars
  <1>2. \A j \in OrderIds : orders[j].state \in Terminal /\ Covered(j)' =>
          ReleasedBySubmit(j)' \/ ReleasedByWorker(j)'
    BY <1>1 DEF ReleaseInv, Covered, ReleasedBySubmit, ReleasedByWorker, ReleasedByLane
  <1>3. SUFFICES ASSUME orders'[id].state \in Terminal, orders[id].state \notin Terminal
                 PROVE  ReleasedByLane(id)'
    BY <1>1, <1>2 DEF ReleaseInv
  <1>4. /\ orders'[id].client = orders[id].client
        /\ e.report.client = orders[id].client
    BY <1>1, RowsStay DEF EventAbout, FlowInv, ReportMove, TablesKept
  <1>5. handler'[1] = e /\ handler' # <<>>
    BY <1>1
  <1>6. CASE e.kind = "order"
    <2>1. /\ e.report \in OrderReport /\ e.report.status # "Unknown"
          /\ e.report.volume = orders[id].volume
          /\ orders[id] \in Entry /\ orders[id].state \in Lifecycle
          /\ orders'[id] = Merged(orders[id], e.report)
      BY <1>1, <1>6, RowTyped DEF Event, EventAbout, FlowInv, ReportMove
    <2>2. /\ RowKept(orders[id], orders'[id])
          /\ orders'[id].state = orders[id].state \/ orders'[id].state = e.report.status
      BY <2>1, MergedKept
    <2>3. /\ orders'[id].traded = orders[id].traded /\ orders'[id].volume = orders[id].volume
      BY <1>6, <2>2, HeadSnapshot DEF RowKept
    <2>4. RowFits(id) /\ RowFits(id)'
      BY <1>1, <1>6, SnapshotOutcome DEF OutcomesInv, AtVenue, EventAbout
    <2>5. orders'[id].state # "Filled"
      BY <1>3, <2>3, <2>4 DEF RowFits, Terminal
    <2>6. e.report.status \in {"Rejected", "Canceled"}
      BY <1>3, <2>2, <2>5 DEF Terminal
    <2> QED BY <1>4, <1>5, <1>6, <2>6 DEF ReleasedByLane
  <1>7. CASE e.kind = "trade"
    <2>1. PICK n \in Nat : TradeMove(e, id, n)
      BY <1>7, HeadTrade
    <2>2. orders' # orders
      BY <1>3
    <2>3. orders'[id].status = "Filled"
      BY <1>3, <2>1, <2>2 DEF TradeMove, omsVars, Terminal
    <2> QED BY <1>4, <1>5, <1>7, <2>3 DEF ReleasedByLane
  <1> QED BY <1>1, <1>6, <1>7 DEF Event

-----------------------------------------------------------------------------
(* The three invariants together.                                          *)

EndsInv == PaceInv /\ OutcomesInv /\ ReleaseInv

LEMMA InnerPace ==
  ASSUME FlowInv, FlowInv', PaceInv, InnerStep
  PROVE  PaceInv'
  BY SameLanePace DEF InnerStep, SameAtVenue, TablesKept

LEMMA EndsStep ==
  FlowInv /\ RightsInv /\ FillInv /\ EndsInv /\ LaneHasRoom /\ [FlowNext]_vars => EndsInv'
  <1> SUFFICES ASSUME FlowInv, RightsInv, FillInv, PaceInv, OutcomesInv, ReleaseInv,
                      LaneHasRoom, [FlowNext]_vars
               PROVE  PaceInv' /\ OutcomesInv' /\ ReleaseInv'
    BY DEF EndsInv
  <1>0. FlowInv' /\ VenueStyle # "report_trade"
    BY FlowStep DEF FillInv
  <1>1. InnerStep /\ EndsKept => PaceInv' /\ OutcomesInv' /\ ReleaseInv'
    BY <1>0, InnerPace, InnerOutcomes, InnerRelease
  <1>2. CASE (\E s \in Submissions : Submit(s)) \/ (\E k \in Cancellations : Cancel(k)) \/ StopEms
    BY <1>1, <1>2, SubmitFlow, CancelFlow, StopFlow, CallerIsInner, SubmitEnds, CancelEnds,
       StopEnds
  <1>3. CASE Worker /\ ~WorkerSend
    <2>1. InnerStep
      BY <1>3, WorkerTakeFlow, WorkerMarkFlow, WorkerRefusedFlow, WorkerRecordSendFlow,
         WorkerReleaseFlow, WorkerCancelFlow, WorkerRecordCancelFlow DEF Worker
    <2> QED BY <1>1, <1>3, <2>1, WorkerEnds
  <1>4. CASE WorkerSend
    <2>1. UNCHANGED <<orders, reservation, submit, handler>> /\ worker.pc = "send"
      BY <1>4 DEF WorkerSend, WorkerAt, omsVars, callVars
    <2> QED BY <1>0, <1>4, <2>1, SendPace, SendOutcomes, OutsideRelease
  <1>5. CASE \E id \in OrderIds : Venue(id)
    <2>1. PICK id \in OrderIds : Venue(id)
      BY <1>5
    <2>2. UNCHANGED <<orders, reservation, submit, handler, worker>>
      BY <2>1 DEF Venue, VenueFill, VenueCancel, VenueReject, VenueRepeat, omsVars, callVars,
                  emsVars
    <2> QED BY <1>0, <2>1, <2>2, VenuePace, VenueOutcomes, OutsideRelease
  <1>6. CASE HandleReport
    <2>1. PICK e \in Event, id \in OrderIds : ReportMove(e, id)
      BY <1>6, HandleReportFlow
    <2>2. handler = <<>>
      BY <1>6 DEF HandleReport
    <2> QED BY <1>0, <2>1, <2>2, ReportPace, ReportOutcomes, ReportRelease
  <1>7. CASE FinishReport
    <2>1. UNCHANGED <<omsVars, venue, lane>>
      BY <1>7, FinishReportFlow DEF FinishMove
    <2>2. CallsKept /\ RowsKept /\ applied' = applied /\ orders' = orders
      BY <2>1, NothingChanges DEF FlowInv, TablesKept, omsVars
    <2>3. PaceInv'
      BY <1>0, <2>1, <2>2, SameLanePace
    <2>4. OutcomesInv'
      BY <2>1, <2>2, LaneLength, OutcomeStays DEF OutcomesInv
    <2> QED BY <1>7, <2>3, <2>4, FinishRelease
  <1>8. CASE UNCHANGED vars
    <2>1. UNCHANGED <<omsVars, venue, lane, handler, submit, worker, reservation>>
      BY <1>8 DEF vars, callVars, emsVars, extVars, laneVars
    <2>2. CallsKept /\ RowsKept /\ applied' = applied /\ orders' = orders
      BY <2>1, NothingChanges DEF FlowInv, TablesKept, omsVars
    <2>3. PaceInv'
      BY <1>0, <2>1, <2>2, SameLanePace
    <2>4. OutcomesInv'
      BY <2>1, <2>2, LaneLength, OutcomeStays DEF OutcomesInv
    <2> QED BY <2>1, <2>2, <2>3, <2>4, OutsideRelease
  <1> QED BY <1>2, <1>3, <1>4, <1>5, <1>6, <1>7, <1>8 DEF FlowNext, LaneThread

LEMMA EndsInitially == FlowInit => EndsInv
  <1> SUFFICES ASSUME FlowInit PROVE PaceInv /\ OutcomesInv /\ ReleaseInv
    BY DEF EndsInv
  <1>1. /\ \A id \in OrderIds : /\ orders[id] = Absent /\ venue[id].status = "none"
                                /\ venue[id].traded = 0 /\ ~venue[id].asked
        /\ lane = <<>> /\ Len(lane) = 0 /\ applied = {}
    BY DEF FlowInit, EmptyTables
  <1>2. \A id \in OrderIds : ~Present(id) /\ orders[id].state \notin Terminal
    BY <1>1 DEF Present, Absent, Terminal
  <1>3. ASSUME NEW id \in OrderIds
        PROVE  CountsTo(id, Len(lane), venue[id].traded)
    BY <1>1 DEF CountsTo, Told, Applied
  <1> QED BY <1>1, <1>2, <1>3 DEF PaceInv, OutcomesInv, ReleaseInv, AtVenue

\* While Lane-T drops no event and snapshots do not run ahead of their trades,
\* the three hold.
THEOREM EndsInvariant ==
  FlowSpec /\ ClientsDistinct /\ VenueStyle # "report_trade" /\ []LaneHasRoom => []EndsInv
  BY EndsInitially, EndsStep, FlowInvariant, RightsInvariant, FillInvariant, PTL DEF FlowSpec

\* Once all is quiet OMS and venue agree on how each order ended and on what it
\* has traded, if no event was dropped and no order expired unasked.
THEOREM EndsAgree ==
  FlowSpec /\ ClientsDistinct /\ VenueStyle # "report_trade" /\ ~VenueMayCancel
    /\ []LaneHasRoom => []AgreesWhenQuiet
  <1>0. SUFFICES ASSUME ~VenueMayCancel
                 PROVE  FlowSpec /\ ClientsDistinct /\ VenueStyle # "report_trade"
                          /\ []LaneHasRoom => []AgreesWhenQuiet
    OBVIOUS
  <1>1. ASSUME FlowInv, EndsInv
        PROVE  AgreesWhenQuiet
    <2>1. SUFFICES ASSUME lane = <<>>, NEW id \in OrderIds, AtVenue(id)
                   PROVE  /\ venue[id].status = "filled"   => orders[id].state = "Filled"
                          /\ venue[id].status = "canceled" => orders[id].state = "Canceled"
                          /\ venue[id].status = "rejected" => orders[id].state = "Rejected"
                          /\ orders[id].traded = venue[id].traded
      BY DEF AgreesWhenQuiet, Quiet, AtVenue
    <2>2. /\ RowFits(id) /\ EndFits(id) /\ Present(id) /\ Len(lane) = 0
          /\ orders[id].traded \in Nat /\ venue[id].traded \in Nat
      BY <1>1, <2>1, VenueFacts, RowTyped
         DEF EndsInv, OutcomesInv, AtVenue, FlowInv, Entry, ExtTypeOK
    <2>3. CountsTo(id, 0, orders[id].traded) /\ CountsTo(id, 0, venue[id].traded)
      BY <1>1, <2>2 DEF EndsInv, PaceInv
    <2>4. orders[id].traded = venue[id].traded
      BY <2>2, <2>3, CountsAgree
    <2>5. venue[id].status = "filled" => orders[id].state = "Filled"
      BY <1>1, <2>1, <2>2, <2>4 DEF FlowInv, VenueInv, RowFits, AtVenue
    <2> QED BY <1>0, <1>1, <2>2, <2>4, <2>5 DEF EndFits, Reaches
  <1>2. FlowInv /\ EndsInv => AgreesWhenQuiet
    BY <1>1
  <1> QED BY <1>2, FlowInvariant, EndsInvariant, PTL

\* Once all is quiet no finished order holds a reservation, if no event was
\* dropped.
THEOREM FinishedIsReleased ==
  FlowSpec /\ ClientsDistinct /\ VenueStyle # "report_trade" /\ []LaneHasRoom
    => []TerminalIsReleased
  <1>1. EndsInv => TerminalIsReleased
    BY DEF EndsInv, ReleaseInv, TerminalIsReleased, Quiet, Covered, ReleasedBySubmit,
           ReleasedByWorker, ReleasedByLane
  <1> QED BY <1>1, EndsInvariant, PTL

-----------------------------------------------------------------------------
(* When Lane-T has room: every report of an order has a slot of its own, so *)
(* that the lane holds no more than all slots of all clients.               *)

IsFill(e) == e.kind = "order" /\ e.report.status \in {"PartiallyFilled", "Filled"}

\* The slots of an order that asks for no more than v: its acknowledgement, its
\* trades, the snapshots of its fills; an end takes the place of a last trade.
Slot(e, v) ==
  CASE e.kind = "trade"                             -> e.report.key[2]
    [] e.kind = "order" /\ e.report.status = "New"  -> 0
    [] IsFill(e)                                    -> v + e.report.traded
    [] OTHER                                        -> v

SlotsInv(v) ==
  /\ \A i, j \in 1..Len(lane) :
       lane[i].report.client = lane[j].report.client /\ Slot(lane[i], v) = Slot(lane[j], v)
         => i = j
  /\ VenueStyle = "trade" => \A i \in 1..Len(lane) : ~IsFill(lane[i])

\* Lane-T holds all that can be on its way when no order asks for more than v.
LaneHoldsAll(v) ==
  /\ v \in Nat /\ Volumes \subseteq 1..v /\ IsFiniteSet(ClientIds)
  /\ LaneCapacity >=
       Cardinality(ClientIds) * (IF VenueStyle = "trade" THEN v + 1 ELSE v + v + 1) + 2

\* An event with the client of a row is about that row.
LEMMA AboutClient ==
  ASSUME FlowInv, NEW i \in 1..Len(lane), NEW id \in OrderIds, Present(id),
         lane[i].report.client = orders[id].client
  PROVE  lane[i] \in Event /\ EventAbout(lane[i], id)
  <1>1. PICK k \in OrderIds : lane[i] \in Event /\ EventAbout(lane[i], k)
    BY LaneAbout
  <1>2. Present(k) /\ orders[k].client = orders[id].client
    BY <1>1, FindAbout DEF EventAbout
  <1> QED BY <1>1, <1>2, ClientUnique

\* Which slot an event takes.
LEMMA SlotFacts ==
  ASSUME FlowInv, NEW v \in Nat, Volumes \subseteq 1..v, NEW e \in Event,
         NEW id \in OrderIds, EventAbout(e, id)
  PROVE  /\ Slot(e, v) \in 0..(v + v)
         /\ ~IsFill(e) => Slot(e, v) \in 0..v
         /\ e.kind = "trade" => Slot(e, v) \in 1..venue[id].traded
         /\ IsFill(e) => Slot(e, v) \in (v + 1)..(v + venue[id].traded)
         /\ ~IsFill(e) /\ e.kind = "order" =>
              \/ e.report.status = "New" /\ Slot(e, v) = 0
              \/ venue[id].status \in {"canceled", "rejected"} /\ Slot(e, v) = v
  <1>1. /\ venue[id].traded \in Nat /\ orders[id].volume \in 1..v
        /\ venue[id].traded <= orders[id].volume
    BY VenueFacts DEF EventAbout, FlowInv, VenueInv, ExtTypeOK, RowsInv
  <1>2. CASE e.kind = "trade"
    <2>1. PICK n \in 1..venue[id].traded : e.report.key = <<id, n>>
      BY <1>2 DEF EventAbout
    <2>2. Slot(e, v) = e.report.key[2]
      BY <1>2 DEF Slot, IsFill
    <2>3. Slot(e, v) = n
      BY <2>1, <2>2
    <2> QED BY <1>1, <1>2, <2>3 DEF IsFill
  <1>3. CASE e.kind = "order"
    <2>1. e.report.traded \in Nat /\ e.report.status \in Statuses \ {"Unknown"}
      BY <1>3 DEF Event, OrderReport, EventAbout
    <2>2. CASE e.report.status = "New"
      BY <1>1, <1>3, <2>2 DEF Slot, IsFill
    <2>3. CASE e.report.status \in {"PartiallyFilled", "Filled"}
      <3>1. Slot(e, v) = v + e.report.traded /\ IsFill(e)
        BY <1>3, <2>3 DEF Slot, IsFill
      <3>2. e.report.traded # 0 /\ e.report.traded <= venue[id].traded
        BY <1>3, <2>3 DEF EventAbout
      <3> QED BY <1>1, <1>3, <2>1, <3>1, <3>2
    <2>4. CASE e.report.status \in {"Canceled", "Rejected"}
      <3>1. Slot(e, v) = v /\ ~IsFill(e)
        BY <1>3, <2>4 DEF Slot, IsFill
      <3>2. venue[id].status \in {"canceled", "rejected"}
        BY <1>3, <2>4 DEF EventAbout
      <3> QED BY <1>1, <1>3, <3>1, <3>2
    <2> QED BY <2>1, <2>2, <2>3, <2>4 DEF Statuses
  <1> QED BY <1>2, <1>3 DEF Event

\* New events with free slots.
LEMMA SlotsPublished ==
  ASSUME FlowInv, NEW v \in Nat, SlotsInv(v), NEW events, Published(events), NEW c,
         \A k \in 1..Len(events) : events[k].report.client = c,
         VenueStyle = "trade" => \A k \in 1..Len(events) : ~IsFill(events[k]),
         \A k, l \in 1..Len(events) : Slot(events[k], v) = Slot(events[l], v) => k = l,
         \A i \in 1..Len(lane), k \in 1..Len(events) :
           lane[i].report.client = c => Slot(lane[i], v) # Slot(events[k], v)
  PROVE  SlotsInv(v)'
  <1>1. Len(lane) \in Nat /\ Len(lane') \in Nat
    BY LaneLength DEF Published
  <1>2. \A i \in 1..Len(lane') :
          \/ i \in 1..Len(lane) /\ lane'[i] = lane[i]
          \/ /\ i \notin 1..Len(lane) /\ i - Len(lane) \in 1..Len(events)
             /\ lane'[i] = events[i - Len(lane)]
    BY DEF Published
  <1>3. ASSUME NEW i \in 1..Len(lane'), NEW j \in 1..Len(lane'),
               lane'[i].report.client = lane'[j].report.client,
               Slot(lane'[i], v) = Slot(lane'[j], v)
        PROVE  i = j
    <2>1. CASE i \in 1..Len(lane) /\ j \in 1..Len(lane)
      BY <1>2, <1>3, <2>1 DEF SlotsInv
    <2>2. CASE i \notin 1..Len(lane) /\ j \notin 1..Len(lane)
      <3>1. i - Len(lane) = j - Len(lane)
        BY <1>2, <1>3, <2>2
      <3> QED BY <1>1, <3>1
    <2>3. CASE i \in 1..Len(lane) /\ j \notin 1..Len(lane)
      BY <1>2, <1>3, <2>3
    <2>4. CASE i \notin 1..Len(lane) /\ j \in 1..Len(lane)
      BY <1>2, <1>3, <2>4
    <2> QED BY <2>1, <2>2, <2>3, <2>4
  <1>4. VenueStyle = "trade" => \A i \in 1..Len(lane') : ~IsFill(lane'[i])
    BY <1>2 DEF SlotsInv
  <1>5. \A e : Slot(e, v)' = Slot(e, v) /\ (IsFill(e)' <=> IsFill(e))
    BY DEF Slot, IsFill
  <1> QED BY <1>3, <1>4 DEF SlotsInv, Slot, IsFill
LEMMA OneSlot ==
  ASSUME FlowInv, NEW v \in Nat, SlotsInv(v), NEW e, Published(<<e>>),
         VenueStyle = "trade" => ~IsFill(e),
         \A i \in 1..Len(lane) :
           lane[i].report.client = e.report.client => Slot(lane[i], v) # Slot(e, v)
  PROVE  SlotsInv(v)'
  <1>1. PICK events : events = <<e>>
    OBVIOUS
  <1>2. Len(events) = 1 /\ events[1] = e
    BY <1>1
  <1>3. \A k \in 1..Len(events) : k = 1 /\ events[k] = e
    BY <1>2
  <1>4. Published(events)
    BY <1>1
  <1>5. PICK c : c = e.report.client
    OBVIOUS
  <1>6. /\ \A k \in 1..Len(events) : events[k].report.client = c
        /\ VenueStyle = "trade" => \A k \in 1..Len(events) : ~IsFill(events[k])
        /\ \A k, l \in 1..Len(events) : Slot(events[k], v) = Slot(events[l], v) => k = l
        /\ \A i \in 1..Len(lane), k \in 1..Len(events) :
             lane[i].report.client = c => Slot(lane[i], v) # Slot(events[k], v)
    BY <1>3, <1>5
  <1> QED BY <1>4, <1>6, SlotsPublished

\* The acknowledgement of an order the venue did not have.
LEMMA SendSlots ==
  ASSUME FlowInv, WorkerSend, NEW v \in Nat, Volumes \subseteq 1..v, SlotsInv(v)
  PROVE  SlotsInv(v)'
  <1>1. PICK rc \in Results, taken \in BOOLEAN : SendMove(worker.item.id, rc, taken)
    BY WorkerSendFlow
  <1>2. CASE ~taken
    BY <1>1, <1>2 DEF SendMove, SlotsInv, Slot, IsFill
  <1>3. CASE taken
    <2>1. PICK id : id = worker.item.id
      OBVIOUS
    <2>2. PICK e : e = OrderEvent(id, "New", 0)
      OBVIOUS
    <2>3. /\ Published(<<e>>) /\ Present(id) /\ id \in OrderIds /\ venue[id].status = "none"
      BY <1>1, <1>3, <2>1, <2>2 DEF SendMove, Present
    <2>4. e.report.client = orders[id].client /\ ~IsFill(e)
      BY <2>2 DEF OrderEvent, IsFill
    <2>5. \A i \in 1..Len(lane) : lane[i].report.client # e.report.client
      BY <2>3, <2>4, AboutClient DEF EventAbout
    <2> QED BY <2>3, <2>4, <2>5, OneSlot
  <1> QED BY <1>2, <1>3

\* The next trade, and its snapshot, have slots above those of the trades and
\* snapshots before them; an end is not under way.
LEMMA FillSlots ==
  ASSUME FlowInv, NEW id \in OrderIds, VenueFill(id),
         NEW v \in Nat, Volumes \subseteq 1..v, SlotsInv(v)
  PROVE  SlotsInv(v)'
  <1>1. PICK n \in Nat : n = venue[id].traded + 1
    BY DEF FlowInv, ExtTypeOK
  <1>2. PICK events : events = FillEvents(id, n)
    OBVIOUS
  <1>3. /\ Published(events) /\ Present(id) /\ venue[id].status = "queued"
        /\ n <= orders[id].volume
    BY <1>1, <1>2, VenueFillFlow DEF VenueMove, VenueFill, Live
  <1>4. n \in 1..v /\ venue[id].traded \in Nat /\ venue[id].traded < n
    <2>1. orders[id].volume \in 1..v /\ venue[id].traded \in Nat
      BY <1>3 DEF FlowInv, RowsInv, ExtTypeOK
    <2> QED BY <1>1, <1>3, <2>1
  <1>5. PICK trade : trade = TradeEvent(id, n)
    OBVIOUS
  <1>6. PICK status \in {"Filled", "PartiallyFilled"} :
          status = IF n = orders[id].volume THEN "Filled" ELSE "PartiallyFilled"
    OBVIOUS
  <1>7. PICK snap : snap = OrderEvent(id, status, n)
    OBVIOUS
  <1>8. /\ trade.report.client = orders[id].client /\ ~IsFill(trade) /\ trade.kind = "trade"
        /\ trade.report.key = <<id, n>>
    BY <1>5 DEF TradeEvent, IsFill
  <1>9. /\ snap.report.client = orders[id].client /\ IsFill(snap) /\ snap.kind = "order"
        /\ snap.report.status # "New" /\ snap.report.traded = n
    BY <1>6, <1>7 DEF OrderEvent, IsFill
  <1>10. Slot(trade, v) = n /\ Slot(snap, v) = v + n
    <2>1. Slot(trade, v) = trade.report.key[2]
      BY <1>8 DEF Slot
    <2>2. Slot(snap, v) = v + snap.report.traded
      BY <1>9 DEF Slot
    <2> QED BY <1>8, <1>9, <2>1, <2>2
  <1>11. ASSUME NEW i \in 1..Len(lane), lane[i].report.client = orders[id].client
         PROVE  Slot(lane[i], v) # n /\ Slot(lane[i], v) # v + n
    <2>1. lane[i] \in Event /\ EventAbout(lane[i], id)
      BY <1>3, <1>11, AboutClient
    <2>2. CASE lane[i].kind = "trade"
      <3>1. Slot(lane[i], v) \in 1..venue[id].traded
        BY <2>1, <2>2, SlotFacts
      <3> QED BY <1>4, <3>1
    <2>3. CASE IsFill(lane[i])
      <3>1. Slot(lane[i], v) \in (v + 1)..(v + venue[id].traded)
        BY <2>1, <2>3, SlotFacts
      <3> QED BY <1>4, <3>1
    <2>4. CASE ~IsFill(lane[i]) /\ lane[i].kind = "order"
      <3>1. Slot(lane[i], v) = 0
        BY <1>3, <2>1, <2>4, SlotFacts
      <3> QED BY <1>4, <3>1
    <2> QED BY <2>1, <2>2, <2>3, <2>4 DEF Event
  <1>12. /\ events \in {<<trade>>, <<trade, snap>>, <<snap, trade>>}
         /\ VenueStyle = "trade" => events = <<trade>>
    BY <1>2, <1>5, <1>6, <1>7, FlowAssumption DEF FillEvents
  <1>13. /\ \A k \in 1..Len(events) : events[k] \in {trade, snap}
         /\ VenueStyle = "trade" => \A k \in 1..Len(events) : events[k] = trade
         /\ \A k, l \in 1..Len(events) : events[k] = events[l] /\ trade # snap => k = l
    <2>1. CASE events = <<trade>>
      <3>1. Len(events) = 1 /\ events[1] = trade
        BY <2>1
      <3>2. \A k \in 1..Len(events) : k = 1
        BY <3>1
      <3> QED BY <3>1, <3>2
    <2>2. ASSUME NEW a, NEW b, events = <<a, b>>, {a, b} = {trade, snap}, VenueStyle # "trade"
          PROVE  /\ \A k \in 1..Len(events) : events[k] \in {trade, snap}
                 /\ \A k, l \in 1..Len(events) : events[k] = events[l] /\ trade # snap => k = l
      <3>1. Len(events) = 2 /\ events[1] = a /\ events[2] = b
        BY <2>2
      <3>2. \A k \in 1..Len(events) : k = 1 \/ k = 2
        BY <3>1
      <3>3. trade # snap => a # b
        BY <2>2
      <3> QED BY <2>2, <3>1, <3>2, <3>3
    <2>3. CASE events # <<trade>>
      <3>1. VenueStyle # "trade"
        BY <1>12, <2>3
      <3> QED BY <1>12, <2>2, <2>3, <3>1
    <2> QED BY <2>1, <2>3
  <1>14. \A k, l \in 1..Len(events) : Slot(events[k], v) = Slot(events[l], v) => k = l
    <2>1. n # v + n /\ trade # snap
      BY <1>4, <1>8, <1>9
    <2> QED BY <1>10, <1>13, <2>1
  <1>15. PICK c : c = orders[id].client
    OBVIOUS
  <1>16. /\ \A k \in 1..Len(events) : events[k].report.client = c
         /\ VenueStyle = "trade" => \A k \in 1..Len(events) : ~IsFill(events[k])
    BY <1>8, <1>9, <1>13, <1>15
  <1>17. \A i \in 1..Len(lane), k \in 1..Len(events) :
           lane[i].report.client = c => Slot(lane[i], v) # Slot(events[k], v)
    BY <1>10, <1>11, <1>13, <1>15
  <1> QED BY <1>3, <1>14, <1>16, <1>17, SlotsPublished
\* An end takes the slot of a last trade, which a live order has not made.
LEMMA EndSlots ==
  ASSUME FlowInv, NEW id \in OrderIds, VenueCancel(id) \/ VenueReject(id),
         NEW v \in Nat, Volumes \subseteq 1..v, SlotsInv(v)
  PROVE  SlotsInv(v)'
  <1>1. PICK status \in {"Canceled", "Rejected"}, t \in Nat :
          Published(<<OrderEvent(id, status, t)>>)
    BY VenueCancelFlow, VenueRejectFlow DEF VenueMove, FlowInv, ExtTypeOK
  <1>2. PICK e : e = OrderEvent(id, status, t)
    OBVIOUS
  <1>3. /\ e.report.client = orders[id].client /\ ~IsFill(e) /\ e.kind = "order"
        /\ e.report.status # "New" /\ Published(<<e>>)
    BY <1>1, <1>2 DEF OrderEvent, IsFill
  <1>4. Slot(e, v) = v
    BY <1>3 DEF Slot
  <1>5. venue[id].status = "queued" /\ Present(id)
    BY VenueFacts DEF VenueCancel, VenueReject, Live
  <1>6. venue[id].traded \in Nat /\ venue[id].traded < v
    <2>1. /\ orders[id].volume \in 1..v /\ venue[id].traded \in Nat
          /\ venue[id].traded <= orders[id].volume /\ venue[id].traded # orders[id].volume
      BY <1>5 DEF FlowInv, RowsInv, VenueInv, ExtTypeOK
    <2> QED BY <2>1
  <1>7. ASSUME NEW i \in 1..Len(lane), lane[i].report.client = e.report.client
        PROVE  Slot(lane[i], v) # v
    <2>1. lane[i] \in Event /\ EventAbout(lane[i], id)
      BY <1>3, <1>5, <1>7, AboutClient
    <2>2. CASE lane[i].kind = "trade"
      <3>1. Slot(lane[i], v) \in 1..venue[id].traded
        BY <2>1, <2>2, SlotFacts
      <3> QED BY <1>6, <3>1
    <2>3. CASE IsFill(lane[i])
      <3>1. Slot(lane[i], v) \in (v + 1)..(v + venue[id].traded)
        BY <2>1, <2>3, SlotFacts
      <3> QED BY <3>1
    <2>4. CASE ~IsFill(lane[i]) /\ lane[i].kind = "order"
      <3>1. Slot(lane[i], v) = 0
        BY <1>5, <2>1, <2>4, SlotFacts
      <3> QED BY <1>6, <3>1
    <2> QED BY <2>1, <2>2, <2>3, <2>4 DEF Event
  <1> QED BY <1>3, <1>4, <1>7, OneSlot

\* A trade is repeated on an empty lane only.
LEMMA RepeatSlots ==
  ASSUME FlowInv, NEW id \in OrderIds, VenueRepeat(id), NEW v \in Nat, SlotsInv(v)
  PROVE  SlotsInv(v)'
  <1>1. PICK e : e = TradeEvent(id, venue[id].traded)
    OBVIOUS
  <1>2. Published(<<e>>) /\ lane = <<>> /\ Len(lane) = 0
    BY <1>1, VenueRepeatFlow DEF VenueMove
  <1>3. ~IsFill(e)
    BY <1>1 DEF TradeEvent, IsFill
  <1> QED BY <1>2, <1>3, OneSlot

LEMMA SlotsStep ==
  ASSUME NEW v \in Nat, Volumes \subseteq 1..v
  PROVE  FlowInv /\ SlotsInv(v) /\ [FlowNext]_vars => SlotsInv(v)'
  <1> SUFFICES ASSUME FlowInv, SlotsInv(v), [FlowNext]_vars PROVE SlotsInv(v)'
    OBVIOUS
  <1>1. lane' = lane => SlotsInv(v)'
    BY DEF SlotsInv, Slot, IsFill
  <1>2. CASE (\E s \in Submissions : Submit(s)) \/ (\E k \in Cancellations : Cancel(k)) \/ StopEms
    BY <1>1, <1>2, SubmitFlow, CancelFlow, StopFlow DEF CallerStep
  <1>3. CASE Worker
    <2>1. ~WorkerSend => InnerStep
      BY <1>3, WorkerTakeFlow, WorkerMarkFlow, WorkerRefusedFlow, WorkerRecordSendFlow,
         WorkerReleaseFlow, WorkerCancelFlow, WorkerRecordCancelFlow DEF Worker
    <2> QED BY <1>1, <2>1, SendSlots DEF InnerStep
  <1>4. CASE \E id \in OrderIds : Venue(id)
    BY <1>4, FillSlots, EndSlots, RepeatSlots DEF Venue
  <1>5. CASE HandleReport
    <2>1. /\ Len(lane) \in Nat \ {0} /\ Len(lane') = Len(lane) - 1
          /\ \A i \in 1..Len(lane') : lane'[i] = lane[i + 1]
      BY <1>5, HandleReportFlow DEF ReportMove
    <2>2. \A i \in 1..Len(lane') : i \in Nat /\ i + 1 \in 1..Len(lane) /\ lane'[i] = lane[i + 1]
      BY <2>1
    <2>3. ASSUME NEW i \in 1..Len(lane'), NEW j \in 1..Len(lane'),
                 lane'[i].report.client = lane'[j].report.client,
                 Slot(lane'[i], v) = Slot(lane'[j], v)
          PROVE  i = j
      <3>1. i + 1 = j + 1
        BY <2>2, <2>3 DEF SlotsInv
      <3> QED BY <2>2, <3>1
    <2>4. VenueStyle = "trade" => \A i \in 1..Len(lane') : ~IsFill(lane'[i])
      BY <2>2 DEF SlotsInv
    <2> QED BY <2>3, <2>4 DEF SlotsInv, Slot, IsFill
  <1>6. CASE FinishReport
    BY <1>1, <1>6 DEF FinishReport
  <1>7. CASE UNCHANGED vars
    BY <1>1, <1>7 DEF vars, laneVars
  <1> QED BY <1>2, <1>3, <1>4, <1>5, <1>6, <1>7 DEF FlowNext, LaneThread

\* No two events in one slot of one client: the lane is no longer than the slots are many.
LEMMA SlotsBound ==
  ASSUME FlowInv, NEW v, LaneHoldsAll(v), SlotsInv(v)
  PROVE  LaneHasRoom
  <1>1. PICK n \in Nat : n = IF VenueStyle = "trade" THEN v ELSE v + v
    BY DEF LaneHoldsAll
  <1> DEFINE slots == 0..n
             all   == ClientIds \X slots
             f     == [i \in 1..Len(lane) |-> <<lane[i].report.client, Slot(lane[i], v)>>]
  <1>2. IsFiniteSet(slots) /\ Cardinality(slots) = n + 1
    BY FS_Interval
  <1>3. IsFiniteSet(all) /\ Cardinality(all) = Cardinality(ClientIds) * Cardinality(slots)
    BY <1>2, FS_Product DEF LaneHoldsAll
  <1>4. ASSUME NEW i \in 1..Len(lane)
        PROVE  lane[i].report.client \in ClientIds /\ Slot(lane[i], v) \in slots
    <2>1. PICK id \in OrderIds : lane[i] \in Event /\ EventAbout(lane[i], id)
      BY LaneAbout
    <2>2. lane[i].report.client \in ClientIds
      BY <2>1, FindAbout DEF EventAbout, FlowInv, RowsInv
    <2>3. /\ Slot(lane[i], v) \in 0..(v + v)
          /\ ~IsFill(lane[i]) => Slot(lane[i], v) \in 0..v
      BY <2>1, SlotFacts DEF LaneHoldsAll
    <2>4. VenueStyle = "trade" => ~IsFill(lane[i])
      BY DEF SlotsInv
    <2> QED BY <1>1, <2>2, <2>3, <2>4
  <1> HIDE DEF slots
  <1>5. f \in Injection(1..Len(lane), all)
    <2>1. f \in [1..Len(lane) -> all]
      BY <1>4
    <2>2. \A i, j \in 1..Len(lane) : f[i] = f[j] => i = j
      BY DEF SlotsInv
    <2> QED BY <2>1, <2>2 DEF Injection, IsInjective
  <1> HIDE DEF f, all
  <1>6. Len(lane) <= Cardinality(all)
    <2>1. Cardinality(1..Len(lane)) = Len(lane)
      <3>1. PICK m \in Nat : m = Len(lane)
        BY LaneLength
      <3>2. Cardinality(1..m) = IF 1 > m THEN 0 ELSE m - 1 + 1
        BY FS_Interval
      <3> QED BY <3>1, <3>2
    <2> QED BY <1>3, <1>5, <2>1, FS_Injection
  <1>7. Cardinality(all) + 2 <= LaneCapacity
    <2>1. n + 1 = IF VenueStyle = "trade" THEN v + 1 ELSE v + v + 1
      BY <1>1
    <2>2. Cardinality(ClientIds) * (n + 1) + 2 <= LaneCapacity
      BY <2>1 DEF LaneHoldsAll
    <2> QED BY <1>2, <1>3, <2>2
  <1>8. Cardinality(all) \in Nat /\ Len(lane) \in Nat /\ LaneCapacity \in Nat
    BY <1>3, LaneLength, FS_CardinalityType, FlowAssumption
  <1> QED BY <1>6, <1>7, <1>8 DEF LaneHasRoom

\* A Lane-T that can hold every report of every order never fills up, whatever
\* the venue, the worker and the callers do.
THEOREM LaneNeverFull ==
  ASSUME NEW CONSTANT v, LaneHoldsAll(v)
  PROVE  FlowSpec => []LaneHasRoom
  <1>1. v \in Nat /\ Volumes \subseteq 1..v
    BY DEF LaneHoldsAll
  <1>2. FlowInit => SlotsInv(v)
    BY DEF FlowInit, SlotsInv
  <1>3. FlowInv /\ SlotsInv(v) /\ [FlowNext]_vars => SlotsInv(v)'
    BY <1>1, SlotsStep
  <1>4. FlowInv /\ SlotsInv(v) => LaneHasRoom
    BY SlotsBound
  <1> QED BY <1>2, <1>3, <1>4, FlowInvariant, PTL DEF FlowSpec

\* With such a lane every order ends as it should, without a hypothesis about
\* behaviours: what is left are the calls' clients and what the venue does.
COROLLARY OrdersSettle ==
  ASSUME NEW CONSTANT v, LaneHoldsAll(v), ClientsDistinct, VenueStyle # "report_trade"
  PROVE  /\ FlowSpec => []TerminalIsReleased
         /\ ~VenueMayCancel => (FlowSpec => []AgreesWhenQuiet)
  <1>1. FlowSpec => []TerminalIsReleased
    BY LaneNeverFull, FinishedIsReleased, PTL
  <1>2. ASSUME ~VenueMayCancel PROVE FlowSpec => []AgreesWhenQuiet
    BY <1>2, LaneNeverFull, EndsAgree, PTL
  <1> QED BY <1>1, <1>2
=============================================================================
