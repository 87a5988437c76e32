---------------------------- MODULE BrokerSyncProofs ----------------------------
(***************************************************************************)
(* Proofs about BrokerSync and the position table in it, for every set of  *)
(* clients, order volume, number of sessions and capacity of Lane-T.  The  *)
(* invariants come in layers, each inductive with those before it: types   *)
(* and positions, for every start; the OMS tables, when no two starts      *)
(* share an epoch; what pending reports and rows of the OMS say of the     *)
(* venue, when moreover the venue is quiet during a start and Lane-T never *)
(* fills; which of the venue's trades the two books have counted, when the *)
(* venue is quiet during a start and the lane has room; and that what is   *)
(* frozen covers every open order, when all of this holds.                 *)
(***************************************************************************)
EXTENDS BrokerSync, OrderManagerProofs, SequenceTheorems

-----------------------------------------------------------------------------
(* The types of what the venue and the control thread hold.                *)

VenueIds == 1..(MaxOrders * (MaxSessions + 1))

VenueStatuses == {"none", "queued", "Filled", "Canceled"}

VenueEntry ==
  [id : VenueIds \cup {NoId}, traded : 0..OrderVolume, status : VenueStatuses,
   seen : 0..OrderVolume, again : BOOLEAN]

VenueReports ==
  [order_id : VenueIds \cup {NoId}, client : ClientIds,
   status : {"New", "PartiallyFilled", "Filled", "Canceled"}, volume : {OrderVolume},
   left : 0..OrderVolume, traded : 0..OrderVolume, broker : {TRUE}]

VenueTrades ==
  [trade_id : Nat, order_id : VenueIds \cup {NoId}, client : ClientIds,
   report_index : 1..OrderVolume, instrument : Instruments, side : SideType,
   effect : PositionEffectType, volume : {1}]

Events == [type : {"order"}, r : VenueReports] \cup [type : {"trade"}, r : VenueTrades]

Placed(c) == venue[c] # Unplaced

ControlTyped ==
  /\ stage \in Starting \cup {"down", "running", "stopping", "failed"}
  /\ running = (stage = "running")
  /\ initialized = (stage # "down")
  /\ connected = (stage # "down")
  /\ sessions \in 0..MaxSessions /\ epoch \in 0..sessions

EntryFits(v) ==
  /\ v.status = "none" => v = Unplaced
  /\ v.id # NoId => v.status = "Canceled"
  /\ v.status = "queued" => v.traded < OrderVolume
  /\ v.status = "Filled" => v.traded = OrderVolume
  /\ v.seen <= v.traded

VenueTyped ==
  venue \in [ClientIds -> VenueEntry] /\ \A c \in ClientIds : EntryFits(venue[c])

EventsTyped ==
  /\ lane \in Seq(Events) /\ wire \in Seq(Events)
  /\ Len(lane) <= LaneRoom
  /\ Len(wire) + Len(lane) <= MaxInFlight
  /\ lane # <<>> => stage \in {"running", "stopping"}
  /\ stage = "down" => wire = <<>>

AnswersTyped ==
  /\ answers \in [orders : SUBSET VenueReports, trades : SUBSET VenueTrades,
                  rows : SUBSET Row, power : Int]
  /\ \A r \in answers.rows : r.total >= 0 => SaneRow(r)
  /\ stage \in {"down", "initiated", "synced", "running"} => answers = NoAnswers

OmsTyped ==
  /\ counter \in 0..MaxOrders
  /\ orders \in [OrderIds -> Entry]
  /\ clientIndex \in [ClientIds -> OrderIds \cup {NoId}]

SaneEntry(p) ==
  /\ p \in [present : BOOLEAN, total : Int, yesterday : Int]
  /\ 0 <= p.yesterday /\ p.yesterday <= p.total

PositionInv ==
  /\ positions \in [Slot -> [present : BOOLEAN, total : Int, yesterday : Int]]
  /\ \A s \in Slot : SaneEntry(positions[s])

SyncTyped ==
  /\ ControlTyped /\ VenueTyped /\ EventsTyped /\ AnswersTyped /\ OmsTyped
  /\ PositionInv /\ AccountTypeOK

-----------------------------------------------------------------------------
(* The OMS tables beside the venue's identifiers, with fresh epochs.       *)

\* How far this session's identifiers may have been used at the venue.
Handed ==
  CASE stage = "down" -> epoch * MaxOrders + MaxOrders
    [] stage \in Starting -> epoch * MaxOrders
    [] OTHER -> epoch * MaxOrders + counter

IdsInv ==
  /\ \A c \in ClientIds : venue[c].id <= Handed
  /\ \A c, d \in ClientIds : venue[c].id # NoId /\ venue[c].id = venue[d].id => c = d

\* A report or trade is of an order of the venue, and has no other name.
NamedBy(r, v) == v # Unplaced /\ r.order_id \in {NoId, v.id}

Named(r) == NamedBy(r, venue[r.client])

AllNamed(events, v) == \A i \in 1..Len(events) : NamedBy(events[i].r, v[events[i].r.client])

NamesInv ==
  /\ AllNamed(lane, venue) /\ AllNamed(wire, venue)
  /\ \A r \in answers.orders \cup answers.trades : Named(r)
  /\ stage \in Starting => \A r \in answers.orders : r.order_id = venue[r.client].id

\* A row is some client's order, under the name the venue has for it if any and
\* else under one of this session.
RowsInv ==
  \A id \in OrderIds : Present(id) =>
    /\ orders[id].client \in ClientIds /\ Placed(orders[id].client)
    /\ IF venue[orders[id].client].id = NoId THEN id \in LocalIds
       ELSE id = OmsId(venue[orders[id].client].id)

\* A name the venue was given in this session is still that of the client's row.
NamedRows ==
  initialized => \A c \in ClientIds : venue[c].id > epoch * MaxOrders =>
    Present(OmsId(venue[c].id)) /\ orders[OmsId(venue[c].id)].client = c

TablesInv ==
  /\ EpochAdvances /\ IdsInv /\ NamesInv /\ RowsInv /\ NamedRows
  /\ IndexConsistent /\ AllocatedBeforeUse /\ AbsentOwnsNothing

-----------------------------------------------------------------------------
(* What rows and pending reports say of the venue.                         *)

TradeKey(c, k) == GenerateTradeDedupKey(VenueTrade(c, k))

\* A row e is that of an order the venue holds as v.
RowFits(e, v) ==
  /\ e.state \in {"Working", "PartiallyFilled", "CancelPending", "Filled", "Canceled"}
  /\ e.volume = OrderVolume
  /\ e.state = "Filled" => e.traded >= OrderVolume
  /\ e.traded >= OrderVolume => e.state \in Terminal
  /\ e.state = "Canceled" => v.status = "Canceled" /\ e.traded >= v.traded
  /\ v.status = "queued" /\ v.traded = 0 =>
       e.state \in {"Working", "CancelPending"} /\ e.traded = 0

UpToDate(e, v) ==
  /\ e.traded >= v.traded
  /\ v.status # "queued" => e.state \in Terminal

\* A report or trade r is what the venue held of the order at some time.
ReportFits(r, v) ==
  /\ r.volume = OrderVolume /\ r.left = OrderVolume - r.traded
  /\ r.traded <= v.traded
  /\ r.status = "New" => r.traded = 0
  /\ r.status = "PartiallyFilled" => 0 < r.traded /\ r.traded < OrderVolume
  /\ r.status = "Filled" => r.traded = OrderVolume
  /\ r.status = "Canceled" => v.status = "Canceled" /\ r.traded = v.traded

TradeFits(t, v) == t = VenueTrade(t.client, t.report_index) /\ t.report_index <= v.traded

EventFits(e, v) == IF e.type = "order" THEN ReportFits(e.r, v) ELSE TradeFits(e.r, v)

\* rep is what the venue says of the order now.
IsLastWord(rep, v) ==
  /\ ReportFits(rep, v) /\ rep.traded = v.traded
  /\ rep.status \in {"New", "PartiallyFilled"} <=> v.status = "queued"

About(q, c) == {i \in 1..Len(q) : q[i].r.client = c}

\* What the venue had traded of the order when it sent the event.
Level(e) == IF e.type = "order" THEN e.r.traded ELSE e.r.report_index

Says(e, status) == e.type = "order" /\ e.r.status = status

\* Of the first n units the order has traded, those beyond m are under way in q
\* behind place p, each as a trade.
Coming(q, c, m, n, p) ==
  \A k \in (m + 1)..n : \E i \in About(q, c) : i > p /\ q[i].type = "trade" /\ q[i].r.report_index = k

\* The events under way in q about an order the venue holds as v come in the
\* order the venue made them in, all trades after a report follow it, and one
\* that it is queued comes before all else.
QueueFits(q, c, v) ==
  /\ \A i \in About(q, c) : EventFits(q[i], v)
  /\ \A i, j \in About(q, c) : i <= j => Level(q[i]) <= Level(q[j])
  /\ \A i \in About(q, c) : q[i].type = "order" => Coming(q, c, q[i].r.traded, v.traded, i)
  /\ \A i, j \in About(q, c) : Says(q[i], "New") => i <= j

\* The row e lacks only what is under way: trades, and the order's end.
RowFollows(q, c, e, v) ==
  /\ RowFits(e, v)
  /\ Coming(q, c, e.traded, v.traded, 0)
  /\ \A i \in About(q, c) : Says(q[i], "New") =>
       e.state \in {"Working", "CancelPending"} /\ e.traded = 0
  /\ v.status = "Canceled" =>
       e.state \in Terminal \/ \E i \in About(q, c) : Says(q[i], "Canceled")

\* A trade the OMS has applied is in the row and in all that is under way.
Counted(q, c, e, a) ==
  \A k \in 1..OrderVolume : TradeKey(c, k) \in a =>
    k <= e.traded /\ \A i \in About(q, c) : k <= Level(q[i])

ClientFits(q, c, e, v, a) ==
  QueueFits(q, c, v) /\ RowFollows(q, c, e, v) /\ Counted(q, c, e, a)

InFlight == lane \o wire

\* The OMS has applied no trade that was not made.
AppliedInv ==
  stage \in Starting \cup {"running"} =>
    \A c \in ClientIds : \A k \in 1..OrderVolume : TradeKey(c, k) \in applied =>
      k <= venue[c].traded

RunInv ==
  stage = "running" =>
    \A c \in ClientIds : Placed(c) =>
      RowOf(c) # NoId /\ ClientFits(InFlight, c, orders[RowOf(c)], venue[c], applied)

\* During a start an order of the venue is either still in the answer or in the
\* OMS as the venue holds it.
StartInv ==
  stage \in Starting =>
    /\ wire = <<>>
    /\ \A r \in answers.orders : r = Report(r.client)
    /\ \A t \in answers.trades : TradeFits(t, venue[t.client])
    /\ \A c \in ClientIds : RowOf(c) # NoId =>
         RowFits(orders[RowOf(c)], venue[c]) /\ UpToDate(orders[RowOf(c)], venue[c])
    /\ stage = "initiated" => \A c \in ClientIds : RowOf(c) = NoId
    /\ stage # "initiated" => \A c \in ClientIds : Placed(c) =>
         (RowOf(c) = NoId <=> Report(c) \in answers.orders)

AgreeInv ==
  /\ VenueQuietInStart /\ LaneRoom >= MaxInFlight
  /\ AppliedInv /\ RunInv /\ StartInv

-----------------------------------------------------------------------------
(* Identifiers of all sessions and of one.                                 *)

LEMMA Products ==
  ASSUME NEW e \in 0..MaxSessions
  PROVE  /\ e * MaxOrders \in Nat /\ (e + 1) * MaxOrders = e * MaxOrders + MaxOrders
         /\ e * MaxOrders + MaxOrders <= MaxOrders * (MaxSessions + 1)
         /\ MaxOrders \in Nat \ {0} /\ MaxSessions \in Nat
         /\ MaxOrders * (MaxSessions + 2) = MaxOrders * (MaxSessions + 1) + MaxOrders
         /\ MaxOrders * (MaxSessions + 1) \in Nat
  <1>1. MaxOrders \in Nat \ {0} /\ MaxSessions \in Nat
    BY SyncAssumption, ConstantsAssumption
  <1>2. PICK d \in Nat : MaxSessions = e + d
    <2>1. MaxSessions - e \in Nat
      BY <1>1
    <2> QED BY <1>1, <2>1
  <1>3. MaxOrders * (MaxSessions + 1) = e * MaxOrders + MaxOrders + d * MaxOrders
    BY <1>1, <1>2
  <1>4. d * MaxOrders \in Nat /\ e * MaxOrders \in Nat
    BY <1>1
  <1> QED BY <1>1, <1>3, <1>4

LEMMA Quotient ==
  ASSUME NEW n \in Int, NEW e \in Nat, NEW m \in Nat \ {0}
  PROVE  n \div m = e <=> e * m <= n /\ n < e * m + m
  OBVIOUS

\* The identifiers a session sees: its own as 1..MaxOrders, the others above.
LEMMA OmsIdValue ==
  ASSUME epoch \in 0..MaxSessions, NEW a \in VenueIds
  PROVE  OmsId(a) = IF epoch * MaxOrders < a /\ a <= epoch * MaxOrders + MaxOrders
                    THEN a - epoch * MaxOrders ELSE MaxOrders + a
  <1>1. a \in Nat \ {0} /\ a - 1 \in Nat /\ epoch \in Nat /\ MaxOrders \in Nat \ {0}
        /\ epoch * MaxOrders \in Nat
    BY Products DEF VenueIds
  <1>2. (a - 1) \div MaxOrders = epoch <=>
          epoch * MaxOrders <= a - 1 /\ a - 1 < epoch * MaxOrders + MaxOrders
    BY <1>1, Quotient
  <1>3. a # NoId
    BY <1>1 DEF NoId
  <1>4. PICK p \in Nat : p = epoch * MaxOrders
    BY <1>1
  <1>5. p <= a - 1 /\ a - 1 < p + MaxOrders <=> p < a /\ a <= p + MaxOrders
    BY <1>1, <1>4
  <1> QED BY <1>2, <1>3, <1>4, <1>5 DEF OmsId

LEMMA OmsIdFacts ==
  ASSUME epoch \in 0..MaxSessions, NEW a \in VenueIds \cup {NoId}
  PROVE  /\ OmsId(a) \in OrderIds \cup {NoId}
         /\ OmsId(a) = NoId <=> a = NoId
         /\ a # NoId => AbsId(OmsId(a)) = a
         /\ a # NoId /\ a <= epoch * MaxOrders => OmsId(a) \in ForeignIds
  <1>1. CASE a = NoId
    <2>1. 0 - 1 \in Int /\ epoch \in Nat /\ MaxOrders \in Nat \ {0} /\ epoch * MaxOrders \in Nat
      BY Products
    <2>2. (0 - 1) \div MaxOrders # epoch
      BY <2>1, Quotient
    <2>3. OmsId(a) = NoId
      BY <1>1, <2>2 DEF OmsId, NoId
    <2> QED BY <1>1, <2>3
  <1>2. CASE a \in VenueIds
    <2>1. PICK p \in Nat, top \in Nat :
            /\ p = epoch * MaxOrders /\ top = MaxOrders * (MaxSessions + 1)
            /\ p + MaxOrders <= top /\ MaxOrders \in Nat \ {0}
            /\ MaxOrders * (MaxSessions + 2) = top + MaxOrders
      BY Products
    <2>2. a \in 1..top /\ a # NoId
      BY <1>2, <2>1 DEF VenueIds, NoId
    <2>3. LocalIds = 1..MaxOrders /\ ForeignIds = (MaxOrders + 1)..(top + MaxOrders)
      BY <2>1, SyncAssumption DEF LocalIds
    <2>4. OmsId(a) = IF p < a /\ a <= p + MaxOrders THEN a - p ELSE MaxOrders + a
      BY <1>2, <2>1, OmsIdValue
    <2>5. CASE p < a /\ a <= p + MaxOrders
      <3>1. OmsId(a) = a - p /\ a - p \in 1..MaxOrders
        BY <2>1, <2>2, <2>4, <2>5
      <3>2. AbsId(a - p) = a
        BY <2>1, <2>2, <3>1 DEF AbsId
      <3>3. ~(a <= p)
        BY <2>1, <2>2, <2>5
      <3> QED BY <2>1, <2>2, <2>3, <3>1, <3>2, <3>3 DEF OrderIds, NoId
    <2>6. CASE ~(p < a /\ a <= p + MaxOrders)
      <3>1. OmsId(a) = MaxOrders + a
        BY <2>4, <2>6
      <3>2. MaxOrders + a \in (MaxOrders + 1)..(top + MaxOrders) /\ MaxOrders + a # 0
        BY <2>1, <2>2
      <3>3. AbsId(MaxOrders + a) = a
        BY <2>1, <2>2 DEF AbsId
      <3> QED BY <2>2, <2>3, <3>1, <3>2, <3>3 DEF OrderIds, NoId
    <2> QED BY <2>5, <2>6
  <1> QED BY <1>1, <1>2

LEMMA AbsIdFacts ==
  ASSUME epoch \in 0..MaxSessions, NEW id \in OrderIds
  PROVE  /\ AbsId(id) \in AccountOrders
         /\ id \in LocalIds => /\ AbsId(id) = epoch * MaxOrders + id
                               /\ AbsId(id) \in VenueIds /\ OmsId(AbsId(id)) = id
  <1>1. PICK p \in Nat, top \in Nat :
          /\ p = epoch * MaxOrders /\ top = MaxOrders * (MaxSessions + 1)
          /\ p + MaxOrders <= top /\ MaxOrders \in Nat \ {0}
          /\ MaxOrders * (MaxSessions + 2) = top + MaxOrders
    BY Products
  <1>2. AccountOrders = 1..top /\ VenueIds = 1..top
    BY <1>1, SyncAssumption DEF VenueIds
  <1>3. LocalIds = 1..MaxOrders /\ ForeignIds = (MaxOrders + 1)..(top + MaxOrders)
    BY <1>1, SyncAssumption DEF LocalIds
  <1>4. CASE id \in LocalIds
    <2>1. AbsId(id) = p + id /\ p + id \in 1..top /\ id \in 1..MaxOrders
      BY <1>1, <1>3, <1>4 DEF AbsId
    <2>2. OmsId(p + id) = IF p < p + id /\ p + id <= p + MaxOrders
                          THEN p + id - p ELSE MaxOrders + (p + id)
      BY <1>1, <1>2, <2>1, OmsIdValue
    <2>3. OmsId(p + id) = id
      BY <1>1, <2>1, <2>2
    <2> QED BY <1>1, <1>2, <2>1, <2>3
  <1>5. CASE id \notin LocalIds
    <2>1. id \in (MaxOrders + 1)..(top + MaxOrders)
      BY <1>3, <1>5 DEF OrderIds
    <2>2. AbsId(id) = id - MaxOrders /\ id - MaxOrders \in 1..top
      BY <1>1, <2>1 DEF AbsId
    <2> QED BY <1>2, <1>5, <2>2
  <1> QED BY <1>4, <1>5

-----------------------------------------------------------------------------
(* The position table.  The invariant is inductive with the types: an      *)
(* opening trade adds to the total only, and each of the three ways to     *)
(* close takes from the part of today or of yesterday no more than there   *)
(* is, which needs both to be at least 0 before.                           *)

\* A close of any kind leaves a row whose parts are both at least 0.
LEMMA ReduceKeepsSane ==
  ASSUME NEW p, SaneEntry(p), NEW effect, NEW volume \in Int, volume > 0
  PROVE  SaneEntry(ReducePosition(p, effect, volume))
  <1> DEFINE today == p.total - p.yesterday
             from  == IF p.yesterday < volume THEN p.yesterday ELSE volume
             y == CASE effect = "CloseToday"     -> p.yesterday
                    [] effect = "CloseYesterday" -> AtLeast0(p.yesterday - volume)
                    [] OTHER                     -> p.yesterday - from
             t == CASE effect = "CloseToday"     -> AtLeast0(today - volume)
                    [] effect = "CloseYesterday" -> today
                    [] OTHER                     -> AtLeast0(today - (volume - from))
  <1>1. ReducePosition(p, effect, volume) = NewRow(y + AtLeast0(t), y)
    BY DEF ReducePosition
  <1>2. today \in Int /\ today >= 0 /\ p.yesterday \in Int /\ p.yesterday >= 0
    BY DEF SaneEntry
  <1>3. from \in Int /\ 0 <= p.yesterday - from
    BY <1>2
  <1>4. \A n \in Int : AtLeast0(n) \in Int /\ AtLeast0(n) >= 0
    BY DEF AtLeast0
  <1>5. y \in Int /\ y >= 0 /\ t \in Int
    <2> HIDE DEF today, from
    <2>1. CASE effect = "CloseToday"
      BY <1>2, <1>4, <2>1
    <2>2. CASE effect = "CloseYesterday"
      BY <1>2, <1>4, <2>2
    <2>3. CASE effect \notin {"CloseToday", "CloseYesterday"}
      BY <1>2, <1>3, <1>4, <2>3
    <2> QED BY <2>1, <2>2, <2>3
  <1> HIDE DEF y, t
  <1> QED BY <1>1, <1>4, <1>5 DEF SaneEntry, NewRow

LEMMA OpenKeepsSane ==
  ASSUME NEW p, SaneEntry(p), NEW volume \in Int, volume > 0
  PROVE  SaneEntry(OpenPosition(p, volume))
  BY DEF SaneEntry, OpenPosition, NewRow

LEMMA TradeKeepsSane ==
  ASSUME PositionInv, NEW t \in Trade(Instruments), PositionApplyTrade(t)
  PROVE  PositionInv'
  <1>1. t.volume \in Int /\ t.instrument \in Instruments
    BY DEF Trade
  <1>2. CASE positions' = positions
    BY <1>2 DEF PositionInv
  <1>3. CASE positions' = ApplyTradeTo(t) /\ PositionAccepts(t)
    <2> DEFINE s == TradeSlot(t)
    <2>1. s \in Slot
      BY <1>1 DEF TradeSlot, Slot, PositionDirectionType
    <2>2. SaneEntry(positions[s]) /\ t.volume > 0
      BY <1>3, <2>1 DEF PositionInv, PositionAccepts
    <2>3. PICK new : SaneEntry(new) /\ positions' = [positions EXCEPT ![s] = new]
      <3>1. CASE Opens(t)
        BY <1>1, <1>3, <2>2, <3>1, OpenKeepsSane DEF ApplyTradeTo
      <3>2. CASE ~Opens(t) /\ positions[s].present
        BY <1>1, <1>3, <2>2, <3>2, ReduceKeepsSane DEF ApplyTradeTo
      <3>3. CASE ~Opens(t) /\ ~positions[s].present
        BY <1>3, <2>2, <3>3 DEF ApplyTradeTo
      <3> QED BY <3>1, <3>2, <3>3
    <2> HIDE DEF s
    <2> QED BY <2>1, <2>3 DEF PositionInv, SaneEntry
  <1> QED BY <1>2, <1>3 DEF PositionApplyTrade

LEMMA SnapshotIsSane ==
  ASSUME PositionInv, NEW rows \in SUBSET Row, \A r \in rows : r.total >= 0 => SaneRow(r),
         ApplyPositionSnapshot(rows)
  PROVE  PositionInv'
  <1>1. /\ rows \subseteq Row
        /\ \A r \in rows : r.total >= 0 => SaneRow(r)
    OBVIOUS
  <1>2. SaneEntry(NoRow)
    BY DEF SaneEntry, NoRow
  <1>3. ASSUME NEW r \in rows, r.total >= 0
        PROVE  SaneEntry(NewRow(r.total, r.yesterday))
    <2>1. r \in Row /\ SaneRow(r)
      BY <1>1, <1>3
    <2> QED BY <2>1 DEF Row, SaneRow, SaneEntry, NewRow
  <1>4. DOMAIN positions' = Slot /\ positions' = [s \in Slot |-> positions'[s]]
    BY DEF ApplyPositionSnapshot
  <1>5. ASSUME NEW s \in Slot
        PROVE  SaneEntry(positions'[s])
    <2> DEFINE here == {r \in rows : r.total >= 0 /\ <<r.instrument, r.direction>> = s}
    <2>1. IF here = {} THEN positions'[s] = NoRow
          ELSE \E r \in here : positions'[s] = NewRow(r.total, r.yesterday)
      BY <1>5 DEF ApplyPositionSnapshot
    <2> QED BY <1>2, <1>3, <2>1
  <1> QED BY <1>4, <1>5 DEF PositionInv, SaneEntry

\* No sequence of trades, repeated or overclosing, and no snapshot takes a row
\* below zero or leaves more of yesterday's volume than there is in all.
THEOREM PositionsStaySane == PositionSpec => []PositionsSane
  <1>1. PositionInit => PositionInv
    BY DEF PositionInit, PositionInv, SaneEntry, NoRow
  <1>2. PositionInv /\ [PositionNext]_positionVars => PositionInv'
    <2> SUFFICES ASSUME PositionInv, [PositionNext]_positionVars PROVE PositionInv'
      OBVIOUS
    <2>1. CASE UNCHANGED positionVars
      BY <2>1 DEF positionVars, PositionInv
    <2>2. CASE PositionNext
      <3>1. \A t \in PositionTrades : t \in Trade(Instruments)
        BY PositionAssumption
      <3>2. \A rows \in PositionSnapshots :
              rows \in SUBSET Row /\ \A r \in rows : r.total >= 0 => SaneRow(r)
        BY PositionAssumption
      <3> QED BY <2>2, <3>1, <3>2, TradeKeepsSane, SnapshotIsSane DEF PositionNext
    <2> QED BY <2>1, <2>2
  <1>3. PositionInv => PositionsSane
    BY DEF PositionInv, SaneEntry, PositionsSane
  <1> QED BY <1>1, <1>2, <1>3, PTL DEF PositionSpec

-----------------------------------------------------------------------------
(* Types of what the venue reports.                                        *)

LEMMA TheInstrumentExists == TheInstrument \in Instruments
  <1>1. Instruments # {}
    <2>1. Cardinality(Instruments) = 1
      BY SyncAssumption
    <2>2. Cardinality({}) = 0
      BY FS_EmptySet
    <2> QED BY <2>1, <2>2
  <1> QED BY <1>1 DEF TheInstrument

LEMMA ReportTyped ==
  ASSUME VenueTyped, NEW c \in ClientIds, Placed(c)
  PROVE  Report(c) \in VenueReports /\ Named(Report(c)) /\ IsLastWord(Report(c), venue[c])
         /\ Report(c).client = c
  <1>1. /\ venue[c] \in VenueEntry /\ venue[c].traded \in 0..OrderVolume
        /\ venue[c].status \in {"queued", "Filled", "Canceled"}
        /\ venue[c].status = "Filled" => venue[c].traded = OrderVolume
        /\ venue[c].status = "queued" => venue[c].traded < OrderVolume
    BY DEF VenueTyped, EntryFits, Placed, VenueEntry, VenueStatuses
  <1>2. OrderVolume \in Nat \ {0}
    BY SyncAssumption
  <1> DEFINE i == venue[c].id
             s == Report(c).status
  <1>3. Report(c) = [order_id |-> i, client |-> c, status |-> s, volume |-> OrderVolume,
                     left |-> OrderVolume - venue[c].traded, traded |-> venue[c].traded,
                     broker |-> TRUE]
    BY DEF Report
  <1>4. i \in VenueIds \cup {NoId}
    BY <1>1 DEF VenueEntry
  <1>5. /\ s \in {"New", "PartiallyFilled", "Filled", "Canceled"}
        /\ s = "New" => venue[c].traded = 0
        /\ s = "PartiallyFilled" => 0 < venue[c].traded /\ venue[c].traded < OrderVolume
        /\ s = "Filled" => venue[c].traded = OrderVolume
        /\ s = "Canceled" => venue[c].status = "Canceled"
        /\ s \in {"New", "PartiallyFilled"} <=> venue[c].status = "queued"
    BY <1>1, <1>2 DEF Report
  <1>6. OrderVolume - venue[c].traded \in 0..OrderVolume
    BY <1>1, <1>2
  <1> HIDE DEF s
  <1>7. Report(c) \in VenueReports
    <2> HIDE DEF i
    <2> QED BY <1>1, <1>3, <1>4, <1>5, <1>6 DEF VenueReports
  <1>8. Named(Report(c)) /\ Report(c).client = c
    BY <1>3 DEF Named, NamedBy, Placed
  <1>9. IsLastWord(Report(c), venue[c])
    BY <1>1, <1>2, <1>3, <1>5 DEF ReportFits, IsLastWord
  <1> QED BY <1>7, <1>8, <1>9

LEMMA TradeTyped ==
  ASSUME VenueTyped, NEW c \in ClientIds, NEW k \in 1..OrderVolume
  PROVE  /\ VenueTrade(c, k) \in VenueTrades
         /\ VenueTrade(c, k).client = c /\ VenueTrade(c, k).report_index = k
         /\ VenueTrade(c, k).order_id = NoId
  <1> DEFINE n == IF VenueNumbersTrades THEN c * OrderVolume + k ELSE 0
  <1>1. VenueTrade(c, k) =
          [trade_id |-> n, order_id |-> NoId, client |-> c, report_index |-> k,
           instrument |-> TheInstrument, side |-> SideOf[c], effect |-> EffectOf[c],
           volume |-> 1]
    BY DEF VenueTrade
  <1>2. n \in Nat
    <2>1. c \in Nat /\ OrderVolume \in Nat /\ k \in Nat
      BY SyncAssumption, ConstantsAssumption
    <2>2. c * OrderVolume + k \in Nat
      BY <2>1
    <2> QED BY <2>2
  <1>4. SideOf[c] \in SideType /\ EffectOf[c] \in PositionEffectType
    BY SyncAssumption
  <1>5. VenueTrade(c, k) \in VenueTrades
    <2> HIDE DEF n
    <2> QED BY <1>1, <1>2, <1>4, TheInstrumentExists DEF VenueTrades
  <1> QED BY <1>1, <1>5

\* What the venue has traded is a number of units.
LEMMA TradedByTyped ==
  ASSUME VenueTyped, NEW sides
  PROVE  TradedBy(sides) \in Nat
  <1> DEFINE f == [c \in ClientIds |-> venue[c].traded]
             S == {c \in ClientIds : SideOf[c] \in sides}
  <1>1. IsFiniteSet(S)
    BY SyncAssumption, FS_Subset
  <1>2. \A c \in S : f[c] \in Nat
    BY SyncAssumption DEF VenueTyped, VenueEntry
  <1>3. SumFunctionOnSet(f, S) \in Nat
    <2> HIDE DEF f, S
    <2> QED BY <1>1, <1>2, SumNat
  <1> QED BY <1>3 DEF TradedBy

LEMMA RowsTyped ==
  ASSUME VenueTyped
  PROVE  /\ VenueRows \subseteq Row /\ \A r \in VenueRows : r.total >= 0 => SaneRow(r)
         /\ VenueCash \in Int /\ VenueTotal \in Int
  <1>1. PICK b \in Nat, s \in Nat, i \in Nat, o \in Nat :
          b = TradedBy({"Buy"}) /\ s = TradedBy({"Sell"}) /\ i = TradedBy(Inflow)
          /\ o = TradedBy(Outflow)
    BY TradedByTyped
  <1>2. Base \in Nat
    BY SyncAssumption
  <1>3. VenueTotal = Base + b - s /\ VenueTotal \in Int /\ VenueCash \in Int
    BY <1>1, <1>2 DEF VenueTotal, VenueCash
  <1>4. AtLeast0(Base - s) \in Nat
        /\ (Base + b - s >= 0 => AtLeast0(Base - s) <= Base + b - s)
    BY <1>1, <1>2 DEF AtLeast0
  <1> DEFINE row == [instrument |-> TheInstrument, direction |-> "Long", total |-> VenueTotal,
                     yesterday |-> AtLeast0(Base - TradedBy({"Sell"}))]
  <1>5. row \in Row
    BY <1>1, <1>3, <1>4, TheInstrumentExists DEF Row, PositionDirectionType
  <1>6. row.total >= 0 => SaneRow(row)
    BY <1>1, <1>3, <1>4 DEF SaneRow
  <1>7. VenueRows \subseteq {row}
    BY DEF VenueRows
  <1> HIDE DEF row
  <1> QED BY <1>3, <1>5, <1>6, <1>7

-----------------------------------------------------------------------------
(* Sequences of events.                                                    *)

LEMMA Ends ==
  ASSUME NEW S, NEW s \in Seq(S), s # <<>>
  PROVE  /\ Head(s) \in S /\ Head(s) = s[1] /\ Tail(s) \in Seq(S)
         /\ Len(Tail(s)) = Len(s) - 1 /\ Len(s) \in Nat \ {0}
         /\ \A i \in 1..Len(Tail(s)) : Tail(s)[i] = s[i + 1] /\ i + 1 \in 1..Len(s)
  <1>1. Len(s) \in Nat \ {0}
    BY EmptySeq
  <1> QED BY <1>1, HeadTailProperties

LEMMA Joined ==
  ASSUME NEW S, NEW s \in Seq(S), NEW t \in Seq(S)
  PROVE  /\ s \o t \in Seq(S) /\ Len(s \o t) = Len(s) + Len(t)
         /\ Len(s) \in Nat /\ Len(t) \in Nat
         /\ \A i \in 1..Len(s) : (s \o t)[i] = s[i]
         /\ \A i \in 1..Len(t) : (s \o t)[Len(s) + i] = t[i]
  BY ConcatProperties, LenProperties

LEMMA EmptyEvents == <<>> \in Seq(Events) /\ Len(<<>>) = 0
  OBVIOUS

LEMMA OneEvent ==
  ASSUME NEW S, NEW a \in S
  PROVE  <<a>> \in Seq(S) /\ Len(<<a>>) = 1 /\ <<a>>[1] = a
  OBVIOUS

LEMMA TwoEvents ==
  ASSUME NEW S, NEW a \in S, NEW b \in S
  PROVE  <<a, b>> \in Seq(S) /\ Len(<<a, b>>) = 2 /\ <<a, b>>[1] = a /\ <<a, b>>[2] = b
  OBVIOUS

LEMMA EventTypes ==
  /\ \A r \in VenueReports : OrderEvent(r) \in Events
  /\ \A t \in VenueTrades : TradeEvent(t) \in Events
  /\ \A e \in Events : \/ e.type = "order" /\ e.r \in VenueReports
                       \/ e.type = "trade" /\ e.r \in VenueTrades
  BY DEF OrderEvent, TradeEvent, Events

-----------------------------------------------------------------------------
(* The types: the venue.                                                   *)

ReportsFit ==
  \A c \in ClientIds : Placed(c) =>
    Report(c) \in VenueReports /\ Named(Report(c)) /\ IsLastWord(Report(c), venue[c])
    /\ Report(c).client = c

LEMMA ReportsTyped == VenueTyped => ReportsFit
  BY ReportTyped DEF ReportsFit

LEMMA ReportsTypedLater == VenueTyped' => ReportsFit'
  BY ReportsTyped, PTL

LEMMA VenueEntryMoves ==
  ASSUME VenueTyped, NEW c \in ClientIds, NEW v \in VenueEntry, EntryFits(v),
         venue' = [venue EXCEPT ![c] = v]
  PROVE  VenueTyped'
  BY DEF VenueTyped, EntryFits

\* What the venue does to an entry of its own: the name stays, and the volume
\* grows while the order is live and then stays too.
EntryMoves(v, w) ==
  /\ v # Unplaced /\ w # Unplaced /\ w.id = v.id /\ w.seen = v.seen
  /\ \/ v.status = "queued" /\ w.traded = v.traded + 1 /\ w.again = v.again
        /\ w.status = IF w.traded = OrderVolume THEN "Filled" ELSE "queued"
     \/ v.status = "queued" /\ w.traded = v.traded /\ w.again = v.again /\ w.status = "Canceled"
     \/ w.traded = v.traded /\ w.status = v.status

\* The events that may come with it.
EventsOf(c, w) ==
  CASE w.traded # venue[c].traded ->
         {<<TradeEvent(VenueTrade(c, w.traded))>>,
          <<TradeEvent(VenueTrade(c, w.traded)), OrderEvent(Report(c)')>>}
    [] w.traded = venue[c].traded /\ w.status # venue[c].status -> {<<OrderEvent(Report(c)')>>}
    [] OTHER -> {<<TradeEvent(VenueTrade(c, w.traded))>>}

LEMMA EntryUpdates ==
  ASSUME NEW v \in VenueEntry, NEW n, NEW s, NEW b
  PROVE  /\ [[v EXCEPT !.traded = n] EXCEPT !.status = s] =
              [id |-> v.id, traded |-> n, status |-> s, seen |-> v.seen, again |-> v.again]
         /\ [v EXCEPT !.again = b] =
              [id |-> v.id, traded |-> v.traded, status |-> v.status, seen |-> v.seen,
               again |-> b]
         /\ [v EXCEPT !.seen = n] =
              [id |-> v.id, traded |-> v.traded, status |-> v.status, seen |-> n,
               again |-> v.again]
  <1>1. v = [id |-> v.id, traded |-> v.traded, status |-> v.status, seen |-> v.seen,
             again |-> v.again]
    BY DEF VenueEntry
  <1>2. PICK i, t, u, w, a :
          v = [id |-> i, traded |-> t, status |-> u, seen |-> w, again |-> a]
    BY <1>1
  <1>3. [[v EXCEPT !.traded = n] EXCEPT !.status = s] =
          [id |-> i, traded |-> n, status |-> s, seen |-> w, again |-> a]
    <2>1. PICK p : p = [v EXCEPT !.traded = n]
      OBVIOUS
    <2>2. p = [id |-> i, traded |-> n, status |-> u, seen |-> w, again |-> a]
      BY <1>2, <2>1
    <2>3. [p EXCEPT !.status = s] =
            [id |-> i, traded |-> n, status |-> s, seen |-> w, again |-> a]
      BY <2>2
    <2> QED BY <2>1, <2>3
  <1>4. /\ [v EXCEPT !.again = b] =
             [id |-> i, traded |-> t, status |-> u, seen |-> w, again |-> b]
        /\ [v EXCEPT !.seen = n] =
             [id |-> i, traded |-> t, status |-> u, seen |-> n, again |-> a]
    BY <1>2
  <1> QED BY <1>2, <1>3, <1>4

LEMMA VenueShape ==
  ASSUME SyncTyped, NEW c \in ClientIds, VenueFill(c) \/ VenueCancel(c) \/ VenueRepeat(c)
  PROVE  \E w \in VenueEntry :
           /\ EntryFits(w) /\ EntryMoves(venue[c], w)
           /\ w.traded \in 1..OrderVolume \/ w.status # venue[c].status
           /\ venue' = [venue EXCEPT ![c] = w] /\ venue'[c] = w
           /\ (\E es \in EventsOf(c, w) : Sends(es)) /\ VenueActs
  <1> DEFINE v == venue[c]
  <1>1. /\ venue \in [ClientIds -> VenueEntry] /\ v \in VenueEntry /\ EntryFits(v)
        /\ OrderVolume \in Nat \ {0}
    BY SyncAssumption DEF SyncTyped, VenueTyped
  <1>2. v.traded \in Nat /\ v.seen \in Nat /\ v.id \in VenueIds \cup {NoId}
    BY <1>1 DEF VenueEntry
  <1>3. CASE VenueFill(c)
    <2> DEFINE k == v.traded + 1
               s == IF k = OrderVolume THEN "Filled" ELSE "queued"
               w == [id |-> v.id, traded |-> k, status |-> s, seen |-> v.seen,
                     again |-> v.again]
    <2>1. v.status = "queued" /\ v.traded < OrderVolume /\ k \in 1..OrderVolume
      BY <1>1, <1>2, <1>3 DEF VenueFill, VenueLive, EntryFits
    <2>2. v # Unplaced
      BY <1>1, <2>1 DEF EntryFits, Unplaced
    <2>3. w \in VenueEntry
      BY <1>1, <1>2, <2>1 DEF VenueEntry, VenueStatuses
    <2>4. EntryFits(w) /\ EntryMoves(v, w)
      <3>1. w # Unplaced
        BY <2>1 DEF Unplaced
      <3> QED BY <1>1, <1>2, <2>1, <2>2, <3>1 DEF EntryFits, EntryMoves
    <2>5. venue' = [venue EXCEPT ![c] = w]
      <3>1. venue' = [venue EXCEPT ![c] = [[@ EXCEPT !.traded = k] EXCEPT !.status = s]]
        BY <1>1, <1>3, <2>1 DEF VenueFill, VenueEntry
      <3>2. [[v EXCEPT !.traded = k] EXCEPT !.status = s] = w
        BY <1>1, EntryUpdates
      <3> QED BY <3>1, <3>2
    <2>6. venue'[c] = w /\ w.traded = k
      BY <1>1, <2>5
    <2>7. \E es \in EventsOf(c, w) : Sends(es)
      <3>1. \/ Sends(<<TradeEvent(VenueTrade(c, w.traded))>>)
            \/ Sends(<<TradeEvent(VenueTrade(c, w.traded)), OrderEvent(Report(c)')>>)
        <4> HIDE DEF w
        <4> QED BY <1>3, <2>6 DEF VenueFill
      <3>2. EventsOf(c, w) =
              {<<TradeEvent(VenueTrade(c, w.traded))>>,
               <<TradeEvent(VenueTrade(c, w.traded)), OrderEvent(Report(c)')>>}
        <4> HIDE DEF w
        <4> QED BY <1>2, <2>6 DEF EventsOf
      <3> QED BY <3>1, <3>2
    <2>8. VenueActs
      BY <1>3 DEF VenueFill
    <2> HIDE DEF w
    <2> QED BY <2>1, <2>3, <2>4, <2>5, <2>6, <2>7, <2>8
  <1>4. CASE VenueCancel(c)
    <2> DEFINE w == [id |-> v.id, traded |-> v.traded, status |-> "Canceled",
                     seen |-> v.seen, again |-> v.again]
    <2>1. v.status = "queued"
      BY <1>4 DEF VenueCancel, VenueLive
    <2>2. v # Unplaced
      BY <1>1, <2>1 DEF EntryFits, Unplaced
    <2>3. w \in VenueEntry
      BY <1>1 DEF VenueEntry, VenueStatuses
    <2>4. EntryFits(w) /\ EntryMoves(v, w)
      <3>1. w # Unplaced
        BY DEF Unplaced
      <3> QED BY <1>1, <1>2, <2>1, <2>2, <3>1 DEF EntryFits, EntryMoves
    <2>5. venue' = [venue EXCEPT ![c] = w]
      <3>1. venue' = [venue EXCEPT ![c] = [@ EXCEPT !.status = "Canceled"]]
        BY <1>4 DEF VenueCancel
      <3>2. [v EXCEPT !.status = "Canceled"] = w
        BY <1>1 DEF VenueEntry
      <3> QED BY <3>1, <3>2
    <2>6. venue'[c] = w /\ w.traded = v.traded /\ w.status = "Canceled"
          /\ w.status # venue[c].status
      BY <1>1, <2>1, <2>5
    <2>7. \E es \in EventsOf(c, w) : Sends(es)
      <3>1. Sends(<<OrderEvent(Report(c)')>>)
        BY <1>4 DEF VenueCancel
      <3>2. EventsOf(c, w) = {<<OrderEvent(Report(c)')>>}
        <4> HIDE DEF w
        <4> QED BY <2>1, <2>6 DEF EventsOf
      <3> QED BY <3>1, <3>2
    <2>8. VenueActs
      BY <1>4 DEF VenueCancel
    <2> HIDE DEF w
    <2> QED BY <2>3, <2>4, <2>5, <2>6, <2>7, <2>8
  <1>5. CASE VenueRepeat(c)
    <2> DEFINE w == [id |-> v.id, traded |-> v.traded, status |-> v.status,
                     seen |-> v.seen, again |-> TRUE]
    <2>1. v.traded > v.seen
      BY <1>5 DEF VenueRepeat
    <2>2. v # Unplaced /\ v.status # "none" /\ v.traded \in 1..OrderVolume
      BY <1>1, <1>2, <2>1 DEF EntryFits, Unplaced, VenueEntry
    <2>3. w \in VenueEntry
      BY <1>1 DEF VenueEntry, VenueStatuses
    <2>4. EntryFits(w) /\ EntryMoves(v, w)
      <3>1. w # Unplaced
        BY DEF Unplaced
      <3> QED BY <1>1, <1>2, <2>1, <2>2, <3>1 DEF EntryFits, EntryMoves
    <2>5. venue' = [venue EXCEPT ![c] = w]
      <3>1. venue' = [venue EXCEPT ![c] = [@ EXCEPT !.again = TRUE]]
        BY <1>5 DEF VenueRepeat
      <3>2. [v EXCEPT !.again = TRUE] = w
        BY <1>1, EntryUpdates
      <3> QED BY <3>1, <3>2
    <2>6. venue'[c] = w /\ w.traded = v.traded /\ w.status = v.status
      BY <1>1, <2>5
    <2>7. \E es \in EventsOf(c, w) : Sends(es)
      <3>1. Sends(<<TradeEvent(VenueTrade(c, venue[c].traded))>>)
        BY <1>5 DEF VenueRepeat
      <3>2. EventsOf(c, w) = {<<TradeEvent(VenueTrade(c, venue[c].traded))>>}
        <4> HIDE DEF w
        <4> QED BY <2>6 DEF EventsOf
      <3> QED BY <3>1, <3>2
    <2>8. VenueActs
      BY <1>5 DEF VenueRepeat
    <2> HIDE DEF w
    <2> QED BY <2>2, <2>3, <2>4, <2>5, <2>6, <2>7, <2>8
  <1> QED BY <1>3, <1>4, <1>5

LEMMA EpochTyped ==
  ASSUME ControlTyped
  PROVE  epoch \in 0..MaxSessions
  BY SyncAssumption DEF ControlTyped

\* What an action leaves alone keeps its part of the invariant.
LEMMA Kept ==
  ASSUME SyncTyped
  PROVE  /\ UNCHANGED <<stage, running, initialized, connected, sessions, epoch>> => ControlTyped'
         /\ venue' = venue => VenueTyped'
         /\ UNCHANGED <<stage, lane, wire>> => EventsTyped'
         /\ UNCHANGED <<stage, answers>> => AnswersTyped'
         /\ UNCHANGED <<counter, orders, clientIndex>> => OmsTyped'
         /\ UNCHANGED positionVars => PositionInv'
         /\ UNCHANGED accountVars => AccountTypeOK'
  <1>1. UNCHANGED <<stage, running, initialized, connected, sessions, epoch>> => ControlTyped'
    BY DEF SyncTyped, ControlTyped
  <1>2. venue' = venue => VenueTyped'
    BY DEF SyncTyped, VenueTyped
  <1>3. UNCHANGED <<stage, lane, wire>> => EventsTyped'
    BY DEF SyncTyped, EventsTyped
  <1>4. UNCHANGED <<stage, answers>> => AnswersTyped'
    BY DEF SyncTyped, AnswersTyped
  <1>5. UNCHANGED <<counter, orders, clientIndex>> => OmsTyped'
    BY DEF SyncTyped, OmsTyped
  <1>6. UNCHANGED positionVars => PositionInv'
    BY DEF SyncTyped, PositionInv, positionVars
  <1>7. UNCHANGED accountVars => AccountTypeOK'
    BY DEF SyncTyped, AccountTypeOK, accountVars
  <1> QED BY <1>1, <1>2, <1>3, <1>4, <1>5, <1>6, <1>7

LEMMA SendsTyped ==
  ASSUME SyncTyped, NEW events \in Seq(Events), Sends(events)
  PROVE  /\ wire' \in Seq(Events) /\ (stage = "down" => wire' = wire)
         /\ stage # "down" => wire' = wire \o events
  <1>1. wire \in Seq(Events) /\ connected = (stage # "down")
    BY DEF SyncTyped, EventsTyped, ControlTyped
  <1>2. wire \o events \in Seq(Events)
    BY <1>1, Joined
  <1> QED BY <1>1, <1>2 DEF Sends

LEMMA EventsOfTyped ==
  ASSUME SyncTyped, VenueTyped', NEW c \in ClientIds, NEW w \in VenueEntry, Placed(c)',
         venue'[c] = w, w.traded \in 1..OrderVolume \/ w.status # venue[c].status,
         EntryMoves(venue[c], w)
  PROVE  EventsOf(c, w) \subseteq Seq(Events)
  <1>1. OrderEvent(Report(c)') \in Events
    BY ReportsTypedLater, EventTypes DEF ReportsFit
  <1>2. CASE w.traded \in 1..OrderVolume
    <2>1. TradeEvent(VenueTrade(c, w.traded)) \in Events
      BY <1>2, TradeTyped, EventTypes DEF SyncTyped
    <2>2. /\ <<TradeEvent(VenueTrade(c, w.traded))>> \in Seq(Events)
          /\ <<OrderEvent(Report(c)')>> \in Seq(Events)
          /\ <<TradeEvent(VenueTrade(c, w.traded)), OrderEvent(Report(c)')>> \in Seq(Events)
      BY <1>1, <2>1, OneEvent, TwoEvents
    <2> QED BY <2>2 DEF EventsOf
  <1>3. CASE w.traded \notin 1..OrderVolume
    <2>1. w.status # venue[c].status /\ w.traded = 0
      BY <1>3, SyncAssumption DEF VenueEntry
    <2>2. venue[c].traded \in Nat
      BY SyncAssumption DEF SyncTyped, VenueTyped, VenueEntry
    <2>3. w.traded = venue[c].traded
      BY <2>1, <2>2 DEF EntryMoves
    <2>4. EventsOf(c, w) = {<<OrderEvent(Report(c)')>>}
      BY <2>1, <2>3 DEF EventsOf
    <2> QED BY <1>1, <2>4, OneEvent
  <1> QED BY <1>2, <1>3

LEMMA VenueTypedStep ==
  ASSUME SyncTyped, Venue
  PROVE  SyncTyped'
  <1>1. PICK c \in ClientIds : VenueFill(c) \/ VenueCancel(c) \/ VenueRepeat(c)
    BY DEF Venue
  <1>2. PICK w \in VenueEntry :
          /\ EntryFits(w) /\ EntryMoves(venue[c], w)
          /\ w.traded \in 1..OrderVolume \/ w.status # venue[c].status
          /\ venue' = [venue EXCEPT ![c] = w] /\ venue'[c] = w
          /\ (\E es \in EventsOf(c, w) : Sends(es)) /\ VenueActs
    BY <1>1, VenueShape
  <1>3. VenueTyped'
    BY <1>2, VenueEntryMoves DEF SyncTyped
  <1>4. Placed(c)'
    BY <1>2 DEF Placed, EntryMoves
  <1>5. EventsOf(c, w) \subseteq Seq(Events)
    BY <1>2, <1>3, <1>4, EventsOfTyped
  <1>6. wire' \in Seq(Events) /\ (stage = "down" => wire' = wire)
    BY <1>2, <1>5, SendsTyped
  <1>7. UNCHANGED <<controlVars, bookVars, lane, connected>>
        /\ Len(wire') + Len(lane) <= MaxInFlight
    BY <1>2 DEF VenueActs
  <1>8. EventsTyped'
    BY <1>6, <1>7 DEF SyncTyped, EventsTyped, controlVars
  <1>9. ControlTyped' /\ AnswersTyped' /\ OmsTyped' /\ PositionInv' /\ AccountTypeOK'
    BY <1>7, Kept DEF controlVars, bookVars, omsVars
  <1> QED BY <1>3, <1>8, <1>9 DEF SyncTyped

LEMMA CallbackTypedStep ==
  ASSUME SyncTyped, Callback
  PROVE  SyncTyped'
  <1>1. /\ wire \in Seq(Events) /\ lane \in Seq(Events) /\ wire # <<>>
        /\ wire' = Tail(wire)
        /\ \/ lane' = lane
           \/ lane' = Append(lane, Head(wire)) /\ running /\ Len(lane) < LaneRoom
    BY DEF Callback, SyncTyped, EventsTyped
  <1>2. /\ wire' \in Seq(Events) /\ Len(wire') = Len(wire) - 1 /\ Head(wire) \in Events
        /\ Len(wire) \in Nat /\ Len(lane) \in Nat
    BY <1>1, Ends, LenProperties
  <1>3. UNCHANGED <<controlVars, venue, connected, bookVars>>
    BY DEF Callback
  <1>4. lane' \in Seq(Events) /\ Len(lane') \in Nat
        /\ Len(lane') <= Len(lane) + 1 /\ (Len(lane') <= LaneRoom)
        /\ (lane' # <<>> => stage \in {"running", "stopping"})
    <2>1. CASE lane' = lane
      BY <1>1, <1>2, <2>1 DEF SyncTyped, EventsTyped
    <2>2. CASE lane' = Append(lane, Head(wire)) /\ running /\ Len(lane) < LaneRoom
      <3>1. lane' \in Seq(Events) /\ Len(lane') = Len(lane) + 1
        BY <1>1, <1>2, <2>2, AppendProperties
      <3>2. stage = "running"
        BY <2>2 DEF SyncTyped, ControlTyped
      <3>3. LaneRoom \in Nat
        BY SyncAssumption
      <3> QED BY <1>2, <2>2, <3>1, <3>2, <3>3
    <2> QED BY <1>1, <2>1, <2>2
  <1>5. EventsTyped'
    <2>1. MaxInFlight \in Nat /\ Len(wire) + Len(lane) <= MaxInFlight
          /\ (stage = "down" => wire = <<>>) /\ stage' = stage
      BY <1>3, SyncAssumption DEF SyncTyped, EventsTyped, controlVars
    <2>2. Len(wire') + Len(lane') <= MaxInFlight
      BY <1>2, <1>4, <2>1
    <2> QED BY <1>1, <1>2, <1>4, <2>1, <2>2 DEF EventsTyped
  <1>6. ControlTyped' /\ AnswersTyped' /\ OmsTyped' /\ PositionInv' /\ AccountTypeOK'
        /\ VenueTyped'
    BY <1>3, Kept DEF controlVars, bookVars, omsVars
  <1> QED BY <1>5, <1>6 DEF SyncTyped

-----------------------------------------------------------------------------
(* The types: the handlers of Lane-T.                                      *)

LEMMA FindTyped ==
  ASSUME OmsTyped, NEW id, NEW c
  PROVE  /\ Find(id, c) # NoId => Present(Find(id, c)) /\ Find(id, c) \in OrderIds
         /\ Find(id, c) = NoId => ~Present(id) /\ GetOrderByClientId(c) = NoId
  BY IdFacts DEF Find, GetOrderByClientId, Present

LEMMA PresentTyped ==
  ASSUME OmsTyped, NEW id \in OrderIds
  PROVE  orders[id] \in Entry /\ (Present(id) <=> orders[id].state \in Lifecycle)
  BY DEF OmsTyped, Present, Entry, Lifecycle, PreSend, Terminal

LEMMA ReportUnderId ==
  ASSUME NEW r, NEW i, NEW j, NEW c, NEW s, NEW v, NEW l, NEW n, NEW b,
         r = [order_id |-> i, client |-> c, status |-> s, volume |-> v, left |-> l,
              traded |-> n, broker |-> b]
  PROVE  [r EXCEPT !.order_id = j] =
         [order_id |-> j, client |-> c, status |-> s, volume |-> v, left |-> l,
          traded |-> n, broker |-> b]
  OBVIOUS

LEMMA OmsReportTyped ==
  ASSUME epoch \in 0..MaxSessions, NEW r \in VenueReports
  PROVE  /\ OmsReport(r) \in OrderReport
         /\ OmsReport(r) = [order_id |-> OmsId(r.order_id), client |-> r.client,
                            status |-> r.status, volume |-> r.volume, left |-> r.left,
                            traded |-> r.traded, broker |-> r.broker]
         /\ r.volume = OrderVolume /\ r.client \in ClientIds
  <1>1. OrderVolume \in Nat
    BY SyncAssumption
  <1>2. OmsId(r.order_id) \in OrderIds \cup {NoId}
    BY OmsIdFacts DEF VenueReports
  <1>3. OmsReport(r) = [order_id |-> OmsId(r.order_id), client |-> r.client,
                        status |-> r.status, volume |-> r.volume, left |-> r.left,
                        traded |-> r.traded, broker |-> r.broker]
    <2>1. r = [order_id |-> r.order_id, client |-> r.client, status |-> r.status,
               volume |-> r.volume, left |-> r.left, traded |-> r.traded,
               broker |-> r.broker]
      BY DEF VenueReports
    <2>2. OmsReport(r) = [r EXCEPT !.order_id = OmsId(r.order_id)]
      BY DEF OmsReport
    <2> QED BY <2>1, <2>2, ReportUnderId
  <1>4. /\ r.left \in Nat /\ r.traded \in Nat /\ r.status \in Statuses
        /\ r.client \in ClientIds /\ r.volume = OrderVolume
    <2>1. /\ r.left \in 0..OrderVolume /\ r.traded \in 0..OrderVolume
          /\ r.client \in ClientIds /\ r.volume = OrderVolume
          /\ r.status \in {"New", "PartiallyFilled", "Filled", "Canceled"}
      BY DEF VenueReports
    <2> QED BY <1>1, <2>1 DEF Statuses
  <1>5. r.broker \in BOOLEAN
    BY DEF VenueReports
  <1> QED BY <1>1, <1>2, <1>3, <1>4, <1>5 DEF OrderReport

\* An operation on the tables moves one row, or none.
RowMoves(id, new) ==
  /\ id \in OrderIds /\ Present(id) /\ RowStep(orders[id], new)
  /\ orders' = [orders EXCEPT ![id] = new]
  /\ UNCHANGED <<initialized, counter, clientIndex>>

LEMMA RowMovesTyped ==
  ASSUME OmsTyped, NEW id, NEW new, RowMoves(id, new)
  PROVE  OmsTyped'
  BY DEF OmsTyped, RowMoves, RowStep

LEMMA ReportShape ==
  ASSUME OmsTyped, NEW o \in OrderReport, ApplyOrderReport(o)
  PROVE  LET id == Find(o.order_id, o.client)
         IN \/ id = NoId /\ UNCHANGED <<initialized, counter, clientIndex, orders>>
            \/ RowMoves(id, Merged(orders[id], o))
  <1> DEFINE id == Find(o.order_id, o.client)
  <1>1. UNCHANGED <<initialized, counter, clientIndex>>
    BY DEF ApplyOrderReport, OnlyOrders
  <1>2. CASE id = NoId
    BY <1>1, <1>2 DEF ApplyOrderReport
  <1>3. CASE id # NoId
    <2>1. Present(id) /\ id \in OrderIds
      BY <1>3, FindTyped
    <2>2. orders' = [orders EXCEPT ![id] = Merged(orders[id], o)]
      BY <1>3 DEF ApplyOrderReport
    <2>3. RowStep(orders[id], Merged(orders[id], o))
      BY <2>1, PresentTyped, MergedRow
    <2> QED BY <1>1, <2>1, <2>2, <2>3 DEF RowMoves
  <1> QED BY <1>2, <1>3

LEMMA TradeShape ==
  ASSUME OmsTyped, NEW t, t.volume \in Nat, ApplyTradeReport(t)
  PROVE  LET id == Find(t.order_id, t.client)
         IN \/ ~TradeAccepted(id, t) /\ UNCHANGED omsVars
            \/ TradeAccepted(id, t) /\ RowMoves(id, Traded(orders[id], t))
               /\ applied' = applied \cup {t.key}
  <1> DEFINE id == Find(t.order_id, t.client)
  <1>1. CASE ~TradeAccepted(id, t)
    BY <1>1 DEF ApplyTradeReport
  <1>2. CASE TradeAccepted(id, t)
    <2>1. id # NoId /\ CanTransition(orders[id].state, TradeState(orders[id], t))
      BY <1>2 DEF TradeAccepted
    <2>2. Present(id) /\ id \in OrderIds
      BY <2>1, FindTyped
    <2>3. RowStep(orders[id], Traded(orders[id], t))
      BY <2>1, <2>2, PresentTyped, TradedRow
    <2>4. orders' = [orders EXCEPT ![id] = Traded(orders[id], t)]
          /\ UNCHANGED <<initialized, counter, clientIndex>> /\ applied' = applied \cup {t.key}
      BY <1>2 DEF ApplyTradeReport
    <2> QED BY <1>2, <2>2, <2>3, <2>4 DEF RowMoves
  <1> QED BY <1>1, <1>2

LEMMA AccountFollowsTyped ==
  ASSUME SyncTyped, OmsTyped', NEW id, AccountFollows(id)
  PROVE  AccountTypeOK'
  <1>1. CASE id \in OrderIds /\ orders'[id].state # "Absent"
    <2>1. orders'[id] \in Entry
      BY <1>1 DEF OmsTyped
    <2> DEFINE a == AbsId(id)
               f == Frozen(orders'[id].status, SideOf[orders'[id].client], orders'[id].left)
               total == frozenAmount + f - orderFrozen[a]
    <2>2. a \in AccountOrders
      BY <1>1, AbsIdFacts, EpochTyped DEF SyncTyped
    <2>3. f \in Nat
      BY <2>1 DEF Frozen, Entry
    <2>4. frozenAmount \in Nat /\ orderFrozen \in [AccountOrders -> Nat]
          /\ buyingPower \in Int /\ netCashFlow \in Int
      BY DEF SyncTyped, AccountTypeOK
    <2>5. total \in Int
      BY <2>2, <2>3, <2>4
    <2>6. AccountApplyOrder(a, orders'[id].status, SideOf[orders'[id].client],
                            orders'[id].left)
      BY <1>1 DEF AccountFollows
    <2>7. /\ orderFrozen' = [orderFrozen EXCEPT ![a] = f]
          /\ frozenAmount' = IF total < 0 THEN 0 ELSE total
          /\ UNCHANGED <<buyingPower, netCashFlow, accountApplied>>
      BY <2>6 DEF AccountApplyOrder
    <2> HIDE DEF a, f, total
    <2>8. orderFrozen' \in [AccountOrders -> Nat] /\ frozenAmount' \in Nat
      BY <2>2, <2>3, <2>4, <2>5, <2>7
    <2> QED BY <2>4, <2>7, <2>8 DEF AccountTypeOK
  <1>2. CASE ~(id \in OrderIds /\ orders'[id].state # "Absent")
    <2>1. UNCHANGED accountVars
      BY <1>2 DEF AccountFollows
    <2> QED BY <2>1, Kept
  <1> QED BY <1>1, <1>2

LEMMA TradesTyped ==
  ASSUME NEW t \in VenueTrades
  PROVE  t \in Trade(Instruments)
  <1>1. MaxOrders * (MaxSessions + 1) \in Nat
    BY SyncAssumption, ConstantsAssumption
  <1>2. VenueIds \cup {NoId} \subseteq Nat
    BY <1>1 DEF VenueIds, NoId
  <1>3. 1..OrderVolume \subseteq Nat /\ ClientIds \subseteq Nat
    BY SyncAssumption, ConstantsAssumption
  <1>4. t = [trade_id |-> t.trade_id, order_id |-> t.order_id, client |-> t.client,
             report_index |-> t.report_index, instrument |-> t.instrument,
             side |-> t.side, effect |-> t.effect, volume |-> t.volume]
    BY DEF VenueTrades
  <1>5. /\ t.trade_id \in Nat /\ t.order_id \in Nat /\ t.client \in Nat
        /\ t.report_index \in Nat /\ t.instrument \in Instruments /\ t.side \in SideType
        /\ t.effect \in PositionEffectType /\ t.volume \in Int
    <2>1. /\ t.trade_id \in Nat /\ t.order_id \in VenueIds \cup {NoId} /\ t.client \in ClientIds
          /\ t.report_index \in 1..OrderVolume /\ t.instrument \in Instruments
          /\ t.side \in SideType /\ t.effect \in PositionEffectType /\ t.volume = 1
      BY DEF VenueTrades
    <2>2. t.order_id \in Nat
      BY <1>2, <2>1
    <2>3. t.report_index \in Nat /\ t.client \in Nat
      BY <1>3, <2>1
    <2> QED BY <2>1, <2>2, <2>3
  <1> QED BY <1>4, <1>5 DEF Trade

LEMMA HandleTypedStep ==
  ASSUME SyncTyped, Handle
  PROVE  SyncTyped'
  <1>1. /\ lane # <<>> /\ lane \in Seq(Events) /\ lane' = Tail(lane)
        /\ UNCHANGED <<controlVars, venueVars>> /\ stage \in {"running", "stopping"}
    BY DEF Handle, SyncTyped, EventsTyped
  <1>2. /\ Head(lane) \in Events /\ lane' \in Seq(Events) /\ Len(lane') = Len(lane) - 1
        /\ Len(lane) \in Nat /\ Len(wire) \in Nat
    BY <1>1, Ends, LenProperties DEF SyncTyped, EventsTyped
  <1>3. EventsTyped'
    <2>1. LaneRoom \in Nat /\ MaxInFlight \in Nat /\ Len(lane) <= LaneRoom
          /\ Len(wire) + Len(lane) <= MaxInFlight
      BY SyncAssumption DEF SyncTyped, EventsTyped
    <2>2. Len(lane') <= LaneRoom /\ Len(wire) + Len(lane') <= MaxInFlight
      BY <1>2, <2>1
    <2> QED BY <1>1, <1>2, <2>2 DEF SyncTyped, EventsTyped, controlVars, venueVars
  <1>4. OmsTyped /\ epoch \in 0..MaxSessions
    BY EpochTyped DEF SyncTyped
  <1>5. VenueTyped' /\ AnswersTyped'
    BY <1>1, Kept DEF venueVars, controlVars
  <1>6. CASE Head(lane).type = "order"
    <2> DEFINE r == Head(lane).r
    <2>1. r \in VenueReports /\ OnTraderOrderReport(r)
      BY <1>2, <1>6, EventTypes DEF Handle, Events
    <2>2. OmsReport(r) \in OrderReport
      BY <1>4, <2>1, OmsReportTyped
    <2>3. OmsTyped' /\ initialized' = initialized
      <3>1. ApplyOrderReport(OmsReport(r))
        BY <2>1 DEF OnTraderOrderReport
      <3> HIDE DEF r
      <3> QED BY <1>4, <2>2, <3>1, ReportShape, RowMovesTyped, Kept DEF RowMoves
    <2>4. AccountTypeOK'
      BY <2>1, <2>3, AccountFollowsTyped DEF OnTraderOrderReport
    <2>5. PositionInv' /\ ControlTyped'
      BY <1>1, <2>1, <2>3, Kept DEF OnTraderOrderReport, controlVars, venueVars
    <2> QED BY <1>3, <1>5, <2>3, <2>4, <2>5 DEF SyncTyped
  <1>7. CASE Head(lane).type # "order"
    <2> DEFINE t == Head(lane).r
    <2>1. t \in VenueTrades /\ OnTraderTradeReport(t)
      BY <1>2, <1>7, EventTypes DEF Handle, Events
    <2>2. /\ ApplyTradeReport(OmsTrade(t)) /\ AccountApplyTrade(t) /\ PositionApplyTrade(t)
          /\ t.volume = 1 /\ OmsTrade(t).volume \in Nat
      BY <2>1 DEF OnTraderTradeReport, VenueTrades, OmsTrade
    <2>3. OmsTyped' /\ initialized' = initialized
      <3> HIDE DEF t
      <3>1. UNCHANGED omsVars => OmsTyped' /\ initialized' = initialized
        BY Kept DEF omsVars
      <3> QED BY <1>4, <2>2, <3>1, TradeShape, RowMovesTyped DEF RowMoves
    <2>4. AccountTypeOK'
      <3>1. CashFlow(t) \in Int
        BY <2>2 DEF CashFlow
      <3> QED BY <2>2, <3>1 DEF AccountApplyTrade, SyncTyped, AccountTypeOK
    <2>5. PositionInv'
      <3>1. t \in Trade(Instruments)
        BY <2>1, TradesTyped
      <3> QED BY <2>2, <3>1, TradeKeepsSane DEF SyncTyped
    <2>6. ControlTyped'
      BY <1>1, <2>3, Kept DEF controlVars, venueVars
    <2> QED BY <1>3, <1>5, <2>3, <2>4, <2>5, <2>6 DEF SyncTyped
  <1> QED BY <1>6, <1>7

-----------------------------------------------------------------------------
(* The types: a submission.                                                *)

SubmittedRow(c) == [NewEntry([client |-> c, volume |-> OrderVolume]) EXCEPT !.state = "Working"]

SubmittedEntry == [Unplaced EXCEPT !.status = "queued"]

LEMMA SubmittedRows ==
  ASSUME NEW c \in ClientIds
  PROVE  /\ SubmittedRow(c) \in Entry /\ SubmittedRow(c).state = "Working"
         /\ SubmittedRow(c).status = "New" /\ SubmittedRow(c).client = c
         /\ SubmittedRow(c).volume = OrderVolume /\ SubmittedRow(c).left = OrderVolume
         /\ SubmittedRow(c).traded = 0
  <1>1. OrderVolume \in Nat
    BY SyncAssumption
  <1>2. PICK a \in Entry : a = Absent /\ a.traded = 0 /\ a.status = "New"
    <2>1. Absent \in Entry
      BY DEF Absent, Entry, Statuses
    <2>2. Absent.traded = 0 /\ Absent.status = "New"
      BY DEF Absent
    <2> QED BY <2>1, <2>2
  <1>3. PICK p : p = [a EXCEPT !.state = "Prepared", !.client = c, !.volume = OrderVolume,
                               !.left = OrderVolume]
    OBVIOUS
  <1>4. p \in Entry /\ p.client = c /\ p.volume = OrderVolume /\ p.left = OrderVolume
        /\ p.traded = 0 /\ p.status = "New"
    BY <1>1, <1>2, <1>3 DEF Entry, Lifecycle, PreSend
  <1>5. PICK q : q = [p EXCEPT !.state = "Working"]
    OBVIOUS
  <1>6. q \in Entry /\ q.client = c /\ q.volume = OrderVolume /\ q.left = OrderVolume
        /\ q.traded = 0 /\ q.status = "New" /\ q.state = "Working"
    BY <1>4, <1>5 DEF Entry, Lifecycle
  <1>7. SubmittedRow(c) = q
    BY <1>2, <1>3, <1>5 DEF SubmittedRow, NewEntry
  <1> QED BY <1>6, <1>7

LEMMA SubmittedEntries ==
  /\ SubmittedEntry \in VenueEntry /\ SubmittedEntry.id = NoId
  /\ SubmittedEntry.status = "queued" /\ SubmittedEntry.traded = 0
  /\ SubmittedEntry.seen = 0 /\ SubmittedEntry.again = FALSE
  /\ SubmittedEntry # Unplaced /\ EntryFits(SubmittedEntry)
  <1>1. OrderVolume \in Nat \ {0}
    BY SyncAssumption
  <1>2. SubmittedEntry =
          [id |-> NoId, traded |-> 0, status |-> "queued", seen |-> 0, again |-> FALSE]
    <2>1. PICK i, t, s, n, a :
            /\ Unplaced = [id |-> i, traded |-> t, status |-> s, seen |-> n, again |-> a]
            /\ i = NoId /\ t = 0 /\ n = 0 /\ a = FALSE
      BY DEF Unplaced
    <2>2. [Unplaced EXCEPT !.status = "queued"] =
            [id |-> i, traded |-> t, status |-> "queued", seen |-> n, again |-> a]
      BY <2>1
    <2> QED BY <2>1, <2>2 DEF SubmittedEntry
  <1>3. SubmittedEntry # Unplaced
    BY <1>2 DEF Unplaced
  <1>4. SubmittedEntry \in VenueEntry
    BY <1>1, <1>2 DEF VenueEntry, VenueStatuses
  <1> QED BY <1>1, <1>2, <1>3, <1>4 DEF EntryFits

LEMMA SubmitShape ==
  ASSUME SyncTyped, NEW c \in ClientIds, SubmitOrder(c)
  PROVE  /\ running /\ stage = "running" /\ initialized /\ venue[c] = Unplaced
         /\ Len(wire) + Len(lane) < MaxInFlight
         /\ RowOf(c) = NoId
         /\ counter' = NextId /\ NextId \in LocalIds /\ NextId \in OrderIds
         /\ counter \in Nat /\ NextId = counter + 1
         /\ orders' = [orders EXCEPT ![NextId] = SubmittedRow(c)]
         /\ clientIndex' = [clientIndex EXCEPT ![c] = NextId]
         /\ venue' = [venue EXCEPT ![c] = SubmittedEntry]
         /\ venue'[c] = SubmittedEntry
         /\ Sends(<<OrderEvent(Report(c)')>>)
         /\ UNCHANGED <<controlVars, connected, lane, initialized, applied, reconciled,
                        positionVars, accountVars>>
  <1>1. /\ running /\ stage = "running" /\ venue[c] = Unplaced /\ counter < MaxOrders
        /\ Len(wire) + Len(lane) < MaxInFlight /\ RowOf(c) = NoId
        /\ counter' = NextId
        /\ clientIndex' = [clientIndex EXCEPT ![c] = NextId]
        /\ Sends(<<OrderEvent(Report(c)')>>)
        /\ UNCHANGED <<controlVars, connected, lane, initialized, applied, reconciled,
                       positionVars, accountVars>>
    BY DEF SubmitOrder
  <1>2. orders' = [orders EXCEPT ![NextId] = SubmittedRow(c)]
    BY DEF SubmitOrder, SubmittedRow
  <1>3. venue' = [venue EXCEPT ![c] = SubmittedEntry]
    BY DEF SubmitOrder, SubmittedEntry
  <1>4. counter \in Nat /\ NextId \in LocalIds /\ NextId \in OrderIds /\ NextId = counter + 1
    BY <1>1, ConstantsAssumption DEF SyncTyped, OmsTyped, NextId, LocalIds, OrderIds
  <1>6. initialized
    BY <1>1 DEF SyncTyped, ControlTyped
  <1>7. venue'[c] = SubmittedEntry
    BY <1>3 DEF SyncTyped, VenueTyped
  <1> QED BY <1>1, <1>2, <1>3, <1>4, <1>6, <1>7

LEMMA SubmitTypedStep ==
  ASSUME SyncTyped, NEW c \in ClientIds, SubmitOrder(c)
  PROVE  SyncTyped'
  <1>1. VenueTyped'
    BY SubmitShape, SubmittedEntries, VenueEntryMoves DEF SyncTyped
  <1>2. Placed(c)'
    BY SubmitShape, SubmittedEntries DEF Placed
  <1>3. OrderEvent(Report(c)') \in Events
    BY <1>1, <1>2, ReportsTypedLater, EventTypes DEF ReportsFit
  <1>4. <<OrderEvent(Report(c)')>> \in Seq(Events) /\ Len(<<OrderEvent(Report(c)')>>) = 1
    BY <1>3, OneEvent
  <1>5. /\ wire' \in Seq(Events) /\ wire' = wire \o <<OrderEvent(Report(c)')>>
        /\ stage' = stage /\ stage = "running" /\ lane' = lane
    BY <1>4, SubmitShape, SendsTyped DEF controlVars
  <1>6. Len(wire') = Len(wire) + 1 /\ Len(wire) \in Nat /\ Len(lane) \in Nat
    BY <1>4, <1>5, Joined, LenProperties DEF SyncTyped, EventsTyped
  <1>7. EventsTyped'
    <2>1. Len(wire') + Len(lane) <= MaxInFlight
      <3>1. Len(wire) + Len(lane) < MaxInFlight
        BY SubmitShape
      <3>2. MaxInFlight \in Nat
        BY SyncAssumption
      <3> QED BY <1>6, <3>1, <3>2
    <2> QED BY <1>5, <2>1 DEF SyncTyped, EventsTyped
  <1>8. OmsTyped'
    <2>1. counter' \in LocalIds
      BY SubmitShape
    <2>2. counter' \in 0..MaxOrders
      BY <2>1, ConstantsAssumption DEF LocalIds
    <2> QED BY <2>2, SubmitShape, SubmittedRows DEF SyncTyped, OmsTyped
  <1>9. ControlTyped' /\ AnswersTyped' /\ PositionInv' /\ AccountTypeOK'
    BY SubmitShape, Kept DEF controlVars
  <1> QED BY <1>1, <1>7, <1>8, <1>9 DEF SyncTyped

\* A cancellation takes a row that is open and tells its state only.
CanceledEntry(v, id) == [v EXCEPT !.id = id, !.status = "Canceled"]

LEMMA CanceledEntries ==
  ASSUME NEW v \in VenueEntry, EntryFits(v), v.status = "queued", NEW id \in VenueIds
  PROVE  LET w == CanceledEntry(v, id)
         IN /\ w \in VenueEntry /\ EntryFits(w) /\ w # Unplaced /\ v # Unplaced /\ v.id = NoId
            /\ w.id = id /\ w.status = "Canceled" /\ w.traded = v.traded /\ w.seen = v.seen
            /\ w.again = v.again
  <1>1. PICK i, t, u, n, a :
          v = [id |-> i, traded |-> t, status |-> u, seen |-> n, again |-> a]
    BY DEF VenueEntry
  <1>2. CanceledEntry(v, id) = [id |-> id, traded |-> t, status |-> "Canceled", seen |-> n, again |-> a]
    <2>1. PICK p : p = [v EXCEPT !.id = id]
      OBVIOUS
    <2>2. p = [id |-> id, traded |-> t, status |-> u, seen |-> n, again |-> a]
      BY <1>1, <2>1
    <2>3. [p EXCEPT !.status = "Canceled"] =
            [id |-> id, traded |-> t, status |-> "Canceled", seen |-> n, again |-> a]
      BY <2>2
    <2> QED BY <2>1, <2>3 DEF CanceledEntry
  <1>3. PICK w : w = CanceledEntry(v, id)
    OBVIOUS
  <1>4. w.id = id /\ w.status = "Canceled" /\ w.traded = v.traded /\ w.seen = v.seen
        /\ w.again = v.again
    BY <1>1, <1>2, <1>3
  <1>5. w \in VenueEntry
    BY <1>1, <1>2, <1>3 DEF VenueEntry, VenueStatuses
  <1>6. w # Unplaced /\ v # Unplaced
    BY <1>4 DEF Unplaced
  <1> QED BY <1>3, <1>4, <1>5, <1>6 DEF EntryFits

OpenStates == {"Working", "PartiallyFilled", "CancelPending"}

LEMMA AfterCancelFacts ==
  ASSUME NEW e \in Entry, CanTransition(e.state, "CancelPending"), e.state # "Absent",
         NEW rc \in {"Success", "SystemError"}
  PROVE  LET f == AfterCancel(e, rc)
         IN /\ f \in Entry /\ e.state \notin Terminal
            /\ f.client = e.client /\ f.volume = e.volume /\ f.left = e.left
            /\ f.traded = e.traded /\ f.status = e.status /\ f.broker = e.broker
            /\ f.state \in OpenStates
            /\ f.state = "PartiallyFilled" => e.traded > 0
  <1>1. e.state \notin Terminal /\ e.state \in Lifecycle
    BY DEF CanTransition, Successors, Terminal, Entry
  <1>2. PICK p : p = [e EXCEPT !.state = "CancelPending"]
    OBVIOUS
  <1>3. p \in Entry /\ p.client = e.client /\ p.volume = e.volume /\ p.left = e.left
        /\ p.traded = e.traded /\ p.status = e.status /\ p.broker = e.broker
        /\ p.state = "CancelPending"
    BY <1>2 DEF Entry, Lifecycle, PreSend
  <1>4. ApplyTransition(e, "CancelPending") = p
    BY <1>2 DEF ApplyTransition
  <1>5. PICK t : t = CancelTarget(p, rc)
    OBVIOUS
  <1>6. t \in OpenStates /\ (t = "PartiallyFilled" => e.traded > 0) /\ t \in Lifecycle
    BY <1>3, <1>5 DEF CancelTarget, OpenStates, Lifecycle, PreSend
  <1>7. CanTransition(p.state, t)
    BY <1>3, <1>6 DEF OpenStates, CanTransition, Successors
  <1>8. AfterCancel(e, rc) = [p EXCEPT !.state = t]
    BY <1>4, <1>5, <1>7 DEF AfterCancel, ApplyTransition
  <1>9. PICK q : q = [p EXCEPT !.state = t]
    OBVIOUS
  <1>10. q \in Entry /\ q.client = e.client /\ q.volume = e.volume /\ q.left = e.left
         /\ q.traded = e.traded /\ q.status = e.status /\ q.broker = e.broker /\ q.state = t
    BY <1>3, <1>6, <1>9 DEF Entry
  <1> QED BY <1>1, <1>6, <1>8, <1>9, <1>10

CanceledRow(c) == AfterCancel(orders[RowOf(c)], CancelOutcome(c))

LEMMA CancelShape ==
  ASSUME SyncTyped, NEW c \in ClientIds, Cancel(c)
  PROVE  /\ running /\ stage = "running" /\ initialized
         /\ Len(wire) + Len(lane) < MaxInFlight
         /\ RowOf(c) # NoId /\ RowOf(c) \in OrderIds /\ Present(RowOf(c))
         /\ orders[RowOf(c)] \in Entry /\ orders[RowOf(c)].state \notin Terminal
         /\ orders' = [orders EXCEPT ![RowOf(c)] = CanceledRow(c)]
         /\ CanceledRow(c) \in Entry
         /\ CanceledRow(c).client = orders[RowOf(c)].client
         /\ CanceledRow(c).volume = orders[RowOf(c)].volume
         /\ CanceledRow(c).left = orders[RowOf(c)].left
         /\ CanceledRow(c).traded = orders[RowOf(c)].traded
         /\ CanceledRow(c).status = orders[RowOf(c)].status
         /\ CanceledRow(c).state \in OpenStates
         /\ CanceledRow(c).state = "PartiallyFilled" => orders[RowOf(c)].traded > 0
         /\ \/ UNCHANGED <<venue, wire>>
            \/ /\ VenueLive(c)
               /\ venue' = [venue EXCEPT ![c] = CanceledEntry(venue[c], AbsId(RowOf(c)))]
               /\ Sends(<<OrderEvent(Report(c)')>>)
         /\ UNCHANGED <<counter, clientIndex, initialized, applied, reconciled, controlVars,
                        connected, lane, positionVars, accountVars>>
  <1>1. /\ running /\ stage = "running" /\ Len(wire) + Len(lane) < MaxInFlight
        /\ RowOf(c) # NoId /\ CanTransition(orders[RowOf(c)].state, "CancelPending")
        /\ orders' = [orders EXCEPT ![RowOf(c)] = CanceledRow(c)]
        /\ UNCHANGED <<counter, clientIndex, initialized, applied, reconciled, controlVars,
                       connected, lane, positionVars, accountVars>>
    BY DEF Cancel, CanceledRow, OnlyOrders
  <1>2. \/ UNCHANGED <<venue, wire>>
        \/ /\ VenueLive(c)
           /\ venue' = [venue EXCEPT ![c] = CanceledEntry(venue[c], AbsId(RowOf(c)))]
           /\ Sends(<<OrderEvent(Report(c)')>>)
    <2>1. CASE CancelOutcome(c) = "Success"
      <3>1. VenueLive(c)
        BY <2>1 DEF CancelOutcome
      <3>2. /\ venue' = [venue EXCEPT ![c].id = AbsId(RowOf(c)), ![c].status = "Canceled"]
            /\ Sends(<<OrderEvent(Report(c)')>>)
        BY <2>1 DEF Cancel
      <3>3. venue' = [venue EXCEPT ![c] = CanceledEntry(venue[c], AbsId(RowOf(c)))]
        BY <3>2 DEF CanceledEntry, SyncTyped, VenueTyped
      <3> QED BY <3>1, <3>2, <3>3
    <2>2. CASE CancelOutcome(c) # "Success"
      BY <2>2 DEF Cancel
    <2> QED BY <2>1, <2>2
  <1>3. Present(RowOf(c)) /\ RowOf(c) \in OrderIds
    BY <1>1 DEF RowOf, GetOrderByClientId, Present
  <1>4. orders[RowOf(c)] \in Entry /\ orders[RowOf(c)].state # "Absent"
    BY <1>3 DEF SyncTyped, OmsTyped, Present
  <1>5. CancelOutcome(c) \in {"Success", "SystemError"}
    BY DEF CancelOutcome
  <1>6. initialized
    BY <1>1 DEF SyncTyped, ControlTyped
  <1> QED BY <1>1, <1>2, <1>3, <1>4, <1>5, <1>6, AfterCancelFacts DEF CanceledRow

LEMMA CancelTypedStep ==
  ASSUME SyncTyped, NEW c \in ClientIds, Cancel(c)
  PROVE  SyncTyped'
  <1>1. OmsTyped'
    BY CancelShape DEF SyncTyped, OmsTyped
  <1>2. ControlTyped' /\ AnswersTyped' /\ PositionInv' /\ AccountTypeOK'
    BY CancelShape, Kept DEF controlVars
  <1>3. CASE UNCHANGED <<venue, wire>>
    <2>1. UNCHANGED <<stage, lane, wire>> /\ venue' = venue
      BY <1>3, CancelShape DEF controlVars
    <2> QED BY <1>1, <1>2, <2>1, Kept DEF SyncTyped
  <1>4. CASE /\ VenueLive(c)
             /\ venue' = [venue EXCEPT ![c] = CanceledEntry(venue[c], AbsId(RowOf(c)))]
             /\ Sends(<<OrderEvent(Report(c)')>>)
    <2>1. PICK w : w = CanceledEntry(venue[c], AbsId(RowOf(c)))
      OBVIOUS
    <2>2. w \in VenueEntry /\ EntryFits(w) /\ w # Unplaced
      <3>1. AbsId(RowOf(c)) \in AccountOrders /\ AccountOrders = VenueIds
        BY CancelShape, AbsIdFacts, EpochTyped, SyncAssumption DEF SyncTyped, VenueIds
      <3> QED BY <1>4, <2>1, <3>1, CanceledEntries DEF VenueLive, SyncTyped, VenueTyped
    <2>3. VenueTyped' /\ venue'[c] = w
      BY <1>4, <2>1, <2>2, VenueEntryMoves DEF SyncTyped, VenueTyped
    <2>4. Placed(c)'
      BY <2>2, <2>3 DEF Placed
    <2>5. OrderEvent(Report(c)') \in Events
      BY <2>3, <2>4, ReportsTypedLater, EventTypes DEF ReportsFit
    <2>6. <<OrderEvent(Report(c)')>> \in Seq(Events) /\ Len(<<OrderEvent(Report(c)')>>) = 1
      BY <2>5, OneEvent
    <2>7. /\ wire' \in Seq(Events) /\ wire' = wire \o <<OrderEvent(Report(c)')>>
          /\ stage' = stage /\ stage = "running" /\ lane' = lane
      BY <1>4, <2>6, CancelShape, SendsTyped DEF controlVars
    <2>8. Len(wire') = Len(wire) + 1 /\ Len(wire) \in Nat /\ Len(lane) \in Nat
      BY <2>6, <2>7, Joined, LenProperties DEF SyncTyped, EventsTyped
    <2>9. Len(wire') + Len(lane) <= MaxInFlight
      <3>1. Len(wire) + Len(lane) < MaxInFlight /\ MaxInFlight \in Nat
        BY CancelShape, SyncAssumption
      <3> QED BY <2>8, <3>1
    <2>10. EventsTyped'
      BY <2>7, <2>9 DEF SyncTyped, EventsTyped
    <2> QED BY <1>1, <1>2, <2>3, <2>10 DEF SyncTyped
  <1> QED BY <1>3, <1>4, CancelShape

-----------------------------------------------------------------------------
(* The types: the control thread.                                          *)

SeenEntry(v) == [v EXCEPT !.seen = v.traded]

LEMMA SeenEntries ==
  ASSUME NEW v \in VenueEntry, EntryFits(v)
  PROVE  /\ SeenEntry(v) \in VenueEntry /\ EntryFits(SeenEntry(v))
         /\ SeenEntry(v).id = v.id /\ SeenEntry(v).status = v.status
         /\ SeenEntry(v).traded = v.traded /\ SeenEntry(v).seen = v.traded
         /\ SeenEntry(v) = Unplaced <=> v = Unplaced
  <1> DEFINE w == SeenEntry(v)
  <1>1. OrderVolume \in Nat \ {0} /\ v.traded \in Int
    BY SyncAssumption DEF VenueEntry
  <1>2. w \in VenueEntry /\ w.id = v.id /\ w.status = v.status /\ w.traded = v.traded
        /\ w.seen = v.traded
    BY DEF VenueEntry, SeenEntry
  <1>3. v = Unplaced => w = v
    <2> SUFFICES ASSUME v = Unplaced PROVE w = v
      OBVIOUS
    <2>1. v.traded = v.seen
      BY DEF Unplaced
    <2>2. [v EXCEPT !.seen = v.seen] = v
      BY DEF VenueEntry
    <2> QED BY <2>1, <2>2 DEF SeenEntry
  <1>4. w = Unplaced => v = Unplaced
    <2> SUFFICES ASSUME w = Unplaced PROVE v = Unplaced
      OBVIOUS
    <2>1. w.status = "none"
      BY DEF Unplaced
    <2> QED BY <1>2, <2>1 DEF EntryFits
  <1> HIDE DEF w
  <1>5. EntryFits(w)
    BY <1>1, <1>2, <1>3 DEF EntryFits
  <1> QED BY <1>2, <1>3, <1>4, <1>5 DEF w

LEMMA BootShape ==
  ASSUME SyncTyped, BootInit
  PROVE  /\ stage = "down" /\ stage' = "initiated" /\ wire = <<>> /\ lane = <<>>
         /\ sessions' = sessions + 1 /\ sessions' \in 0..MaxSessions
         /\ epoch' \in 0..sessions' /\ (EpochAdvances => epoch' = epoch + 1)
         /\ initialized' = TRUE /\ connected' = TRUE /\ counter' = 0
         /\ orders' = [id \in OrderIds |-> Absent]
         /\ clientIndex' = [c \in ClientIds |-> NoId]
         /\ venue' = [c \in ClientIds |-> SeenEntry(venue[c])]
         /\ UNCHANGED <<running, answers, wire, lane, positionVars, accountVars>>
  <1>1. /\ stage = "down" /\ stage' = "initiated" /\ sessions < MaxSessions
        /\ sessions' = sessions + 1 /\ epoch' \in BootEpoch
        /\ Initialize /\ connected' = TRUE
        /\ UNCHANGED <<running, answers, wire, lane, positionVars, accountVars>>
        /\ venue' = [c \in ClientIds |-> SeenEntry(venue[c])]
    BY DEF BootInit, At, SeenEntry
  <1>2. wire = <<>> /\ lane = <<>>
    BY <1>1 DEF SyncTyped, EventsTyped
  <1>3. sessions \in 0..MaxSessions /\ epoch \in 0..sessions /\ MaxSessions \in Nat
    BY SyncAssumption DEF SyncTyped, ControlTyped
  <1>4. epoch' \in {epoch + 1, epoch} /\ (EpochAdvances => epoch' = epoch + 1)
    BY <1>1 DEF BootEpoch
  <1>5. sessions' \in 0..MaxSessions /\ epoch' \in 0..sessions'
    BY <1>1, <1>3, <1>4
  <1> QED BY <1>1, <1>2, <1>4, <1>5 DEF Initialize, ClearTables

LEMMA ClearedTyped ==
  ASSUME counter' \in 0..MaxOrders, orders' = [id \in OrderIds |-> Absent],
         clientIndex' = [c \in ClientIds |-> NoId]
  PROVE  OmsTyped'
  <1>1. Absent \in Entry
    BY DEF Absent, Entry, Statuses
  <1> QED BY <1>1 DEF OmsTyped

LEMMA BootTypedStep ==
  ASSUME SyncTyped, BootInit
  PROVE  SyncTyped'
  <1>1. VenueTyped'
    BY BootShape, SeenEntries DEF SyncTyped, VenueTyped
  <1>2. OmsTyped'
    <2>1. counter' \in 0..MaxOrders
      BY BootShape, ConstantsAssumption
    <2> QED BY <2>1, BootShape, ClearedTyped
  <1>3. ControlTyped'
    BY BootShape DEF SyncTyped, ControlTyped, Starting
  <1>4. EventsTyped'
    BY BootShape DEF SyncTyped, EventsTyped
  <1>5. AnswersTyped'
    BY BootShape DEF SyncTyped, AnswersTyped
  <1>6. PositionInv' /\ AccountTypeOK'
    BY BootShape, Kept
  <1> QED BY <1>1, <1>2, <1>3, <1>4, <1>5, <1>6 DEF SyncTyped

QuerySteps == QueryOrders \/ QueryTrades \/ QueryPositions \/ QueryAsset

LEMMA OrdersAnswerTyped ==
  ASSUME VenueTyped
  PROVE  {Report(c) : c \in {d \in ClientIds : venue[d] # Unplaced}} \subseteq VenueReports
  BY ReportTyped DEF Placed

LEMMA TradesAnswerTyped ==
  ASSUME VenueTyped, NEW t \in UNION {{VenueTrade(c, k) : k \in 1..venue[c].traded} : c \in ClientIds}
  PROVE  /\ t \in VenueTrades /\ Placed(t.client) /\ t.report_index \in 1..venue[t.client].traded
         /\ t = VenueTrade(t.client, t.report_index) /\ Named(t)
  <1>0. PICK c \in ClientIds : t \in {VenueTrade(c, k) : k \in 1..venue[c].traded}
    OBVIOUS
  <1>1. PICK k \in 1..venue[c].traded : t = VenueTrade(c, k)
    BY <1>0
  <1>2. venue[c].traded \in 0..OrderVolume /\ OrderVolume \in Nat
    BY SyncAssumption DEF VenueTyped, VenueEntry
  <1>3. k \in 1..OrderVolume /\ venue[c].traded # 0
    BY <1>2
  <1>4. Placed(c)
    BY <1>3 DEF Placed, Unplaced
  <1> QED BY <1>1, <1>3, <1>4, TradeTyped DEF Named, NamedBy, Placed

\* A query fails, or fills its field of the answers.
LEMMA QueryShape ==
  ASSUME SyncTyped, QuerySteps
  PROVE  /\ stage \in Starting \ {"apply", "synced"} /\ stage' # stage
         /\ stage' \in (Starting \ {"synced", "initiated"}) \cup {"failed"}
         /\ UNCHANGED <<running, epoch, sessions, venueVars, bookVars, lane>>
         /\ \/ stage' = "failed" /\ UNCHANGED answers
            \/ /\ stage = "initiated" /\ stage' = "trades"
               /\ answers' = [answers EXCEPT !.orders =
                                {Report(c) : c \in {d \in ClientIds : venue[d] # Unplaced}}]
            \/ /\ stage = "trades" /\ stage' = "positions"
               /\ answers' = [answers EXCEPT !.trades =
                    UNION {{VenueTrade(c, k) : k \in 1..venue[c].traded} : c \in ClientIds}]
            \/ /\ stage = "positions" /\ stage' = "asset"
               /\ answers' = [answers EXCEPT !.rows = VenueRows]
            \/ /\ stage = "asset" /\ stage' = "apply"
               /\ answers' = [answers EXCEPT !.power = VenueCash]
  <1>1. CASE QueryOrders
    BY <1>1 DEF QueryOrders, Query, At, Starting
  <1>2. CASE QueryTrades
    BY <1>2 DEF QueryTrades, Query, At, Starting
  <1>3. CASE QueryPositions
    BY <1>3 DEF QueryPositions, Query, At, Starting
  <1>4. CASE QueryAsset
    BY <1>4 DEF QueryAsset, Query, At, Starting
  <1> QED BY <1>1, <1>2, <1>3, <1>4 DEF QuerySteps

LEMMA QueryTypedStep ==
  ASSUME SyncTyped, QuerySteps
  PROVE  SyncTyped'
  <1>1. ControlTyped'
    BY QueryShape DEF SyncTyped, ControlTyped, Starting, venueVars, bookVars, omsVars
  <1>2. EventsTyped'
    BY QueryShape DEF SyncTyped, EventsTyped, Starting, venueVars
  <1>3. AnswersTyped'
    <2>1. /\ answers \in [orders : SUBSET VenueReports, trades : SUBSET VenueTrades,
                          rows : SUBSET Row, power : Int]
          /\ \A r \in answers.rows : r.total >= 0 => SaneRow(r)
      BY DEF SyncTyped, AnswersTyped
    <2>2. stage' \notin {"down", "initiated", "synced", "running"}
      BY QueryShape DEF Starting
    <2>3. VenueTyped
      BY DEF SyncTyped
    <2>4. CASE UNCHANGED answers
      BY <2>1, <2>2, <2>4 DEF AnswersTyped
    <2>5. CASE answers' = [answers EXCEPT !.orders =
                             {Report(c) : c \in {d \in ClientIds : venue[d] # Unplaced}}]
      <3>1. PICK a : a = {Report(c) : c \in {d \in ClientIds : venue[d] # Unplaced}}
        OBVIOUS
      <3>2. a \in SUBSET VenueReports
        BY <2>3, <3>1, OrdersAnswerTyped
      <3>3. answers' = [answers EXCEPT !.orders = a]
        BY <2>5, <3>1
      <3> QED BY <2>1, <2>2, <3>2, <3>3 DEF AnswersTyped
    <2>6. CASE answers' = [answers EXCEPT !.trades =
             UNION {{VenueTrade(c, k) : k \in 1..venue[c].traded} : c \in ClientIds}]
      <3>1. PICK a : a = UNION {{VenueTrade(c, k) : k \in 1..venue[c].traded} : c \in ClientIds}
        OBVIOUS
      <3>2. a \in SUBSET VenueTrades
        BY <2>3, <3>1, TradesAnswerTyped
      <3>3. answers' = [answers EXCEPT !.trades = a]
        BY <2>6, <3>1
      <3> QED BY <2>1, <2>2, <3>2, <3>3 DEF AnswersTyped
    <2>7. CASE answers' = [answers EXCEPT !.rows = VenueRows]
      <3>1. VenueRows \in SUBSET Row /\ \A r \in VenueRows : r.total >= 0 => SaneRow(r)
        BY <2>3, RowsTyped
      <3> QED BY <2>1, <2>2, <2>7, <3>1 DEF AnswersTyped
    <2>8. CASE answers' = [answers EXCEPT !.power = VenueCash]
      <3>1. VenueCash \in Int
        BY <2>3, RowsTyped
      <3> QED BY <2>1, <2>2, <2>8, <3>1 DEF AnswersTyped
    <2> QED BY <2>4, <2>5, <2>6, <2>7, <2>8, QueryShape
  <1>4. VenueTyped' /\ OmsTyped' /\ PositionInv' /\ AccountTypeOK'
    BY QueryShape, Kept DEF venueVars, bookVars, omsVars
  <1> QED BY <1>1, <1>2, <1>3, <1>4 DEF SyncTyped

\* An adopted order enters a row that was empty.
RowEnters(id, o) ==
  /\ id \in OrderIds /\ id = IF o.order_id = NoId THEN NextId ELSE o.order_id
  /\ o.order_id = NoId => NextId \in LocalIds
  /\ orders' = [orders EXCEPT ![id] = AdoptedEntry(o)]
  /\ clientIndex' = [c \in ClientIds |-> IF c = o.client THEN id ELSE clientIndex[c]]
  /\ counter' = IF o.order_id = NoId THEN NextId ELSE counter
  /\ initialized' = initialized

LEMMA AdoptedRow ==
  ASSUME NEW o \in OrderReport
  PROVE  /\ AdoptedEntry(o) \in Entry /\ AdoptedEntry(o).state \in Lifecycle
         /\ AdoptedEntry(o).client = o.client
  <1>1. LifecycleFromStatus(o.status, "Working") \in Lifecycle
    BY DEF LifecycleFromStatus, Lifecycle, Terminal
  <1>2. o.status \in Statuses /\ o.client \in ClientIds \cup {NoClient} /\ o.volume \in Nat
        /\ o.left \in Nat /\ o.traded \in Nat /\ o.broker \in BOOLEAN
    BY DEF OrderReport
  <1>3. PICK l : l = LifecycleFromStatus(o.status, "Working")
    OBVIOUS
  <1>4. AdoptedEntry(o) =
          [state |-> l, status |-> o.status, client |-> o.client, volume |-> o.volume,
           left |-> o.left, traded |-> o.traded, broker |-> o.broker]
    BY <1>3 DEF AdoptedEntry
  <1> QED BY <1>1, <1>2, <1>3, <1>4 DEF Entry

LEMMA RowEntersTyped ==
  ASSUME OmsTyped, NEW o \in OrderReport, NEW id, RowEnters(id, o)
  PROVE  OmsTyped'
  <1>1. orders' \in [OrderIds -> Entry]
    BY AdoptedRow DEF RowEnters, OmsTyped
  <1>2. clientIndex' \in [ClientIds -> OrderIds \cup {NoId}]
    BY DEF RowEnters, OmsTyped
  <1>3. counter' \in 0..MaxOrders
    BY ConstantsAssumption DEF RowEnters, OmsTyped, LocalIds
  <1> QED BY <1>1, <1>2, <1>3 DEF OmsTyped

LEMMA ReconcileShape ==
  ASSUME OmsTyped, NEW o \in OrderReport, ReconcileBrokerOrder(o)
  PROVE  LET id == Find(o.order_id, o.client)
         IN \/ id = NoId /\ \E new \in OrderIds : RowEnters(new, o)
            \/ id # NoId /\ MergeLegal(orders[id], o) /\ RowMoves(id, Merged(orders[id], o))
  <1> DEFINE id == Find(o.order_id, o.client)
  <1>1. CASE id = NoId
    <2>1. Adopt(o)
      BY <1>1 DEF ReconcileBrokerOrder
    <2> DEFINE new == IF o.order_id = NoId THEN NextId ELSE o.order_id
    <2>2. o.order_id = NoId => NextId \in LocalIds
      BY <2>1, ConstantsAssumption DEF Adopt, NextId, LocalIds, OmsTyped
    <2>3. new \in OrderIds
      BY <2>2, IdFacts DEF OrderReport
    <2>4. /\ orders' = [orders EXCEPT ![new] = AdoptedEntry(o)]
          /\ clientIndex' = [c \in ClientIds |-> IF c = o.client THEN new ELSE clientIndex[c]]
          /\ counter' = IF o.order_id = NoId THEN NextId ELSE counter
          /\ initialized' = initialized
      BY <2>1 DEF Adopt
    <2>5. RowEnters(new, o)
      BY <2>2, <2>3, <2>4 DEF RowEnters
    <2> HIDE DEF new
    <2> QED BY <1>1, <2>3, <2>5
  <1>2. CASE id # NoId
    <2>1. ReconcileKnown(id, o)
      BY <1>2 DEF ReconcileBrokerOrder
    <2>2. Present(id) /\ id \in OrderIds
      BY <1>2, FindTyped
    <2>3. RowStep(orders[id], Merged(orders[id], o))
      BY <2>2, PresentTyped, MergedRow
    <2> HIDE DEF id
    <2>4. MergeLegal(orders[id], o) /\ RowMoves(id, Merged(orders[id], o))
      BY <2>1, <2>2, <2>3 DEF ReconcileKnown, RowMoves
    <2> QED BY <1>2, <2>4 DEF id
  <1> QED BY <1>1, <1>2

LEMMA SyncOrderShape ==
  ASSUME SyncTyped, SyncOrder
  PROVE  \E r \in answers.orders :
           LET o  == OmsReport(r)
               id == Find(o.order_id, o.client)
           IN /\ r \in VenueReports /\ o \in OrderReport /\ stage = "apply"
              /\ \/ id # NoId /\ ~MergeLegal(orders[id], o)
                    /\ UNCHANGED <<initialized, counter, orders, clientIndex>>
                 \/ id # NoId /\ MergeLegal(orders[id], o) /\ RowMoves(id, Merged(orders[id], o))
                 \/ id = NoId /\ \E new \in OrderIds : RowEnters(new, o)
              /\ AccountFollows(IF o.order_id # NoId THEN o.order_id ELSE clientIndex'[o.client])
              /\ answers' = [answers EXCEPT !.orders = @ \ {r}]
              /\ UNCHANGED <<stage, running, epoch, sessions, venueVars, lane, positionVars>>
  <1>1. PICK r \in answers.orders :
          LET o  == OmsReport(r)
              id == Find(o.order_id, o.client)
          IN /\ IF id # NoId /\ ~MergeLegal(orders[id], o) THEN MarkReconciled(id)
                ELSE ReconcileBrokerOrder(o)
             /\ AccountFollows(IF o.order_id # NoId THEN o.order_id ELSE clientIndex'[o.client])
             /\ answers' = [answers EXCEPT !.orders = @ \ {r}]
    BY DEF SyncOrder
  <1> DEFINE o  == OmsReport(r)
             id == Find(o.order_id, o.client)
  <1>2. r \in VenueReports
    BY DEF SyncTyped, AnswersTyped
  <1>3. o \in OrderReport
    BY <1>2, OmsReportTyped, EpochTyped DEF SyncTyped
  <1>4. OmsTyped
    BY DEF SyncTyped
  <1>5. stage = "apply"
        /\ UNCHANGED <<stage, running, epoch, sessions, venueVars, lane, positionVars>>
    BY DEF SyncOrder
  <1> HIDE DEF o, id
  <1>6. CASE id # NoId /\ ~MergeLegal(orders[id], o)
    <2>1. MarkReconciled(id)
      BY <1>1, <1>6 DEF o, id
    <2>2. UNCHANGED <<initialized, counter, orders, clientIndex>>
      BY <2>1 DEF MarkReconciled
    <2> QED BY <1>1, <1>2, <1>3, <1>5, <1>6, <2>2 DEF o, id
  <1>7. CASE ~(id # NoId /\ ~MergeLegal(orders[id], o))
    <2>1. ReconcileBrokerOrder(o)
      BY <1>1, <1>7 DEF o, id
    <2>2. \/ id = NoId /\ \E new \in OrderIds : RowEnters(new, o)
          \/ id # NoId /\ MergeLegal(orders[id], o) /\ RowMoves(id, Merged(orders[id], o))
      BY <1>3, <1>4, <2>1, ReconcileShape DEF id
    <2> QED BY <1>1, <1>2, <1>3, <1>5, <2>2 DEF o, id
  <1> QED BY <1>6, <1>7

LEMMA SyncOrderTypedStep ==
  ASSUME SyncTyped, SyncOrder
  PROVE  SyncTyped'
  <1>1. PICK r \in answers.orders :
           LET o  == OmsReport(r)
               id == Find(o.order_id, o.client)
           IN /\ r \in VenueReports /\ o \in OrderReport /\ stage = "apply"
              /\ \/ id # NoId /\ ~MergeLegal(orders[id], o)
                    /\ UNCHANGED <<initialized, counter, orders, clientIndex>>
                 \/ id # NoId /\ MergeLegal(orders[id], o) /\ RowMoves(id, Merged(orders[id], o))
                 \/ id = NoId /\ \E new \in OrderIds : RowEnters(new, o)
              /\ AccountFollows(IF o.order_id # NoId THEN o.order_id ELSE clientIndex'[o.client])
              /\ answers' = [answers EXCEPT !.orders = @ \ {r}]
              /\ UNCHANGED <<stage, running, epoch, sessions, venueVars, lane, positionVars>>
    BY SyncOrderShape
  <1>2. OmsTyped' /\ initialized' = initialized
    <2>1. UNCHANGED <<initialized, counter, orders, clientIndex>> => OmsTyped'
      BY Kept
    <2>2. OmsTyped
      BY DEF SyncTyped
    <2> QED BY <1>1, <2>1, <2>2, RowMovesTyped, RowEntersTyped DEF RowMoves, RowEnters
  <1>3. AccountTypeOK'
    BY <1>1, <1>2, AccountFollowsTyped
  <1>4. AnswersTyped'
    BY <1>1 DEF SyncTyped, AnswersTyped
  <1>5. ControlTyped' /\ VenueTyped' /\ EventsTyped' /\ PositionInv'
    BY <1>1, <1>2, Kept DEF venueVars
  <1> QED BY <1>2, <1>3, <1>4, <1>5 DEF SyncTyped

LEMMA SyncTradeShape ==
  ASSUME SyncTyped, SyncTrade
  PROVE  /\ stage = "apply" /\ answers.orders = {}
         /\ UNCHANGED <<stage, running, epoch, sessions, venueVars, lane, positionVars, accountVars>>
         /\ \E t \in answers.trades :
              LET o == OmsTrade(t)
                  id == Find(o.order_id, o.client)
              IN /\ t \in VenueTrades
                 /\ answers' = [answers EXCEPT !.trades = @ \ {t}]
                 /\ \/ ~TradeAccepted(id, o) /\ UNCHANGED omsVars
                    \/ TradeAccepted(id, o) /\ RowMoves(id, Traded(orders[id], o))
                       /\ applied' = applied \cup {o.key}
  <1>1. PICK t \in answers.trades :
          ApplyTradeReport(OmsTrade(t)) /\ answers' = [answers EXCEPT !.trades = @ \ {t}]
    BY DEF SyncTrade
  <1>2. t \in VenueTrades /\ OmsTyped
    BY DEF SyncTyped, AnswersTyped
  <1>3. OmsTrade(t).volume = 1
    BY <1>2 DEF OmsTrade, VenueTrades
  <1> DEFINE o == OmsTrade(t)
             id == Find(o.order_id, o.client)
  <1>4. \/ ~TradeAccepted(id, o) /\ UNCHANGED omsVars
        \/ TradeAccepted(id, o) /\ RowMoves(id, Traded(orders[id], o))
           /\ applied' = applied \cup {o.key}
    BY <1>1, <1>2, <1>3, TradeShape
  <1>5. /\ stage = "apply" /\ answers.orders = {}
        /\ UNCHANGED <<stage, running, epoch, sessions, venueVars, lane, positionVars, accountVars>>
    BY DEF SyncTrade
  <1> QED BY <1>1, <1>2, <1>4, <1>5

LEMMA SyncTradeTypedStep ==
  ASSUME SyncTyped, SyncTrade
  PROVE  SyncTyped'
  <1>1. PICK t \in answers.trades :
          LET o == OmsTrade(t)
              id == Find(o.order_id, o.client)
          IN /\ answers' = [answers EXCEPT !.trades = @ \ {t}]
             /\ \/ UNCHANGED omsVars
                \/ RowMoves(id, Traded(orders[id], o))
    BY SyncTradeShape
  <1>2. OmsTyped' /\ initialized' = initialized
    <2>1. UNCHANGED omsVars => OmsTyped' /\ initialized' = initialized
      BY Kept DEF omsVars
    <2>2. OmsTyped
      BY DEF SyncTyped
    <2> QED BY <1>1, <2>1, <2>2, RowMovesTyped DEF RowMoves
  <1>3. AnswersTyped'
    BY <1>1, SyncTradeShape DEF SyncTyped, AnswersTyped
  <1>4. ControlTyped' /\ VenueTyped' /\ EventsTyped' /\ PositionInv' /\ AccountTypeOK'
    BY <1>2, SyncTradeShape, Kept DEF venueVars
  <1> QED BY <1>2, <1>3, <1>4 DEF SyncTyped

LEMMA SyncBooksTypedStep ==
  ASSUME SyncTyped, SyncBooks
  PROVE  SyncTyped'
  <1>1. /\ stage = "apply" /\ stage' \in {"synced", "failed"}
        /\ ApplyPositionSnapshot(answers.rows) /\ ApplyAssetSnapshot(answers.power)
        /\ answers' = NoAnswers
        /\ UNCHANGED <<running, epoch, sessions, venueVars, lane, omsVars>>
    BY DEF SyncBooks, At
  <1>2. PositionInv'
    <2>1. /\ answers.rows \in SUBSET Row /\ \A r \in answers.rows : r.total >= 0 => SaneRow(r)
          /\ PositionInv
      BY DEF SyncTyped, AnswersTyped
    <2> QED BY <1>1, <2>1, SnapshotIsSane
  <1>3. AccountTypeOK'
    <2>1. answers.power \in Int
      BY DEF SyncTyped, AnswersTyped
    <2> QED BY <1>1, <2>1 DEF ApplyAssetSnapshot, SyncTyped, AccountTypeOK
  <1>4. AnswersTyped'
    BY <1>1 DEF AnswersTyped, NoAnswers
  <1>5. ControlTyped'
    BY <1>1 DEF SyncTyped, ControlTyped, Starting, venueVars, omsVars
  <1>6. EventsTyped'
    BY <1>1 DEF SyncTyped, EventsTyped, venueVars
  <1>7. VenueTyped' /\ OmsTyped'
    BY <1>1, Kept DEF venueVars, omsVars
  <1> QED BY <1>2, <1>3, <1>4, <1>5, <1>6, <1>7 DEF SyncTyped

LEMMA EndsTypedStep ==
  ASSUME SyncTyped, StartEngineModules \/ StopRunning \/ Release
  PROVE  SyncTyped'
  <1>1. CASE StartEngineModules
    <2>1. ControlTyped' /\ EventsTyped' /\ AnswersTyped'
      BY <1>1 DEF StartEngineModules, At, SyncTyped, ControlTyped, EventsTyped, AnswersTyped,
                  Starting, venueVars, bookVars, omsVars
    <2>2. VenueTyped' /\ OmsTyped' /\ PositionInv' /\ AccountTypeOK'
      BY <1>1, Kept DEF StartEngineModules, venueVars, bookVars, omsVars
    <2> QED BY <2>1, <2>2 DEF SyncTyped
  <1>2. CASE StopRunning
    <2>1. ControlTyped' /\ EventsTyped' /\ AnswersTyped'
      BY <1>2 DEF StopRunning, SyncTyped, ControlTyped, EventsTyped, AnswersTyped,
                  venueVars, bookVars, omsVars
    <2>2. VenueTyped' /\ OmsTyped' /\ PositionInv' /\ AccountTypeOK'
      BY <1>2, Kept DEF StopRunning, venueVars, bookVars, omsVars
    <2> QED BY <2>1, <2>2 DEF SyncTyped
  <1>3. CASE Release
    <2>1. /\ stage = "stopping" /\ stage' = "down" /\ connected' = FALSE /\ wire' = <<>>
          /\ lane' = <<>> /\ answers' = NoAnswers /\ Shutdown
          /\ UNCHANGED <<running, epoch, sessions, venue, positionVars, accountVars>>
      BY <1>3 DEF Release, At
    <2>2. ControlTyped'
      BY <2>1 DEF SyncTyped, ControlTyped, Shutdown
    <2>3. EventsTyped'
      <3>1. LaneRoom \in Nat /\ MaxInFlight \in Nat
        BY SyncAssumption
      <3> QED BY <2>1, <3>1, EmptyEvents DEF EventsTyped
    <2>4. AnswersTyped'
      BY <2>1 DEF AnswersTyped, NoAnswers
    <2>5. OmsTyped'
      <3>1. /\ counter' \in 0..MaxOrders /\ orders' = [id \in OrderIds |-> Absent]
            /\ clientIndex' = [c \in ClientIds |-> NoId]
        BY <2>1 DEF Shutdown, ClearTables, SyncTyped, OmsTyped
      <3> QED BY <3>1, ClearedTyped
    <2>6. VenueTyped' /\ PositionInv' /\ AccountTypeOK'
      BY <2>1, Kept
    <2> QED BY <2>2, <2>3, <2>4, <2>5, <2>6 DEF SyncTyped
  <1> QED BY <1>1, <1>2, <1>3

LEMMA TypedStep ==
  ASSUME SyncTyped, [SyncNext]_syncVars
  PROVE  SyncTyped'
  <1>1. CASE UNCHANGED syncVars
    BY <1>1, Kept DEF syncVars, controlVars, venueVars, bookVars, omsVars, SyncTyped
  <1>2. CASE SyncNext
    <2>1. QuerySteps => SyncTyped'
      BY QueryTypedStep
    <2> QED BY <1>2, <2>1, VenueTypedStep, CallbackTypedStep, HandleTypedStep, SubmitTypedStep,
               CancelTypedStep, BootTypedStep, SyncOrderTypedStep, SyncTradeTypedStep, SyncBooksTypedStep,
               EndsTypedStep
            DEF SyncNext, Calls, Control, QuerySteps
  <1> QED BY <1>1, <1>2

\* What an earlier process may have left behind.
LEMMA InitialVenue ==
  ASSUME SyncInit
  PROVE  /\ VenueTyped
         /\ \A c \in ClientIds : venue[c].id = NoId
  <1>1. PICK old :
          /\ \/ old = Unplaced
             \/ \E n \in OldTraded :
                  old = [Unplaced EXCEPT !.status = "queued", !.traded = n]
          /\ venue = [c \in ClientIds |-> IF c = 1 THEN old ELSE Unplaced]
    BY Zenon DEF SyncInit
  <1>2. OrderVolume \in Nat \ {0}
    BY SyncAssumption
  <1>3. Unplaced \in VenueEntry /\ EntryFits(Unplaced)
    <2>1. Unplaced \in VenueEntry
      BY <1>2 DEF Unplaced, VenueEntry, VenueStatuses
    <2>2. /\ Unplaced.status = "none" /\ Unplaced.seen = 0 /\ Unplaced.traded = 0
          /\ Unplaced.id = NoId
      BY DEF Unplaced
    <2> QED BY <2>1, <2>2 DEF EntryFits
  <1>4. ASSUME NEW n \in OldTraded, old = [Unplaced EXCEPT !.status = "queued", !.traded = n]
        PROVE  old \in VenueEntry /\ EntryFits(old) /\ old.id = NoId
    <2>1. n \in 0..(OrderVolume - 1)
      BY SyncAssumption
    <2>2. PICK u \in VenueEntry : u = Unplaced /\ u.seen = 0 /\ u.id = NoId
      <3>1. Unplaced.seen = 0 /\ Unplaced.id = NoId
        BY DEF Unplaced
      <3> QED BY <1>3, <3>1
    <2>3. PICK p : p = [u EXCEPT !.status = "queued", !.traded = n]
      OBVIOUS
    <2>4. p \in VenueEntry /\ p.id = NoId /\ p.status = "queued" /\ p.traded = n /\ p.seen = 0
      <3>1. n \in 0..OrderVolume
        BY <1>2, <2>1
      <3>2. PICK q : q = [u EXCEPT !.status = "queued"]
        OBVIOUS
      <3>3. q \in VenueEntry /\ q.id = NoId /\ q.status = "queued" /\ q.seen = 0
        BY <2>1, <2>2, <3>2 DEF VenueEntry, VenueStatuses
      <3>4. p = [q EXCEPT !.traded = n]
        BY <2>3, <3>2
      <3> QED BY <3>1, <3>3, <3>4 DEF VenueEntry
    <2>5. EntryFits(p)
      BY <1>2, <2>1, <2>4 DEF EntryFits, NoId
    <2> QED BY <1>4, <2>2, <2>3, <2>4, <2>5
  <1>5. old \in VenueEntry /\ EntryFits(old) /\ old.id = NoId /\ Unplaced.id = NoId
    <2>1. Unplaced.id = NoId
      BY DEF Unplaced
    <2> QED BY <1>1, <1>3, <1>4, <2>1
  <1> QED BY <1>1, <1>3, <1>5 DEF VenueTyped, Placed

LEMMA TypedInitially ==
  ASSUME SyncInit
  PROVE  SyncTyped
  <1>1. VenueTyped
    BY InitialVenue
  <1>2. /\ stage = "down" /\ running = FALSE /\ epoch = 0 /\ sessions = 0
        /\ answers = NoAnswers /\ connected = FALSE /\ wire = <<>> /\ lane = <<>>
        /\ Init /\ PositionInit /\ AccountInit
    BY Zenon DEF SyncInit
  <1>3. ControlTyped
    <2>1. MaxSessions \in Nat
      BY SyncAssumption
    <2>2. initialized = FALSE
      BY <1>2 DEF Init
    <2>3. (stage = "running") = FALSE /\ (stage # "down") = FALSE
      BY <1>2
    <2>4. /\ running = (stage = "running")
          /\ initialized = (stage # "down") /\ connected = (stage # "down")
      BY <1>2, <2>2, <2>3, Zenon
    <2>5. /\ stage \in Starting \cup {"down", "running", "stopping", "failed"}
          /\ sessions \in 0..MaxSessions /\ epoch \in 0..sessions
      BY <1>2, <2>1
    <2> QED BY <2>4, <2>5, Zenon DEF ControlTyped
  <1>4. EventsTyped
    <2>1. LaneRoom \in Nat /\ MaxInFlight \in Nat
      BY SyncAssumption
    <2> QED BY <1>2, <2>1, EmptyEvents DEF EventsTyped
  <1>5. AnswersTyped
    BY <1>2 DEF AnswersTyped, NoAnswers
  <1>6. OmsTyped
    <2>1. Absent \in Entry
      BY DEF Absent, Entry, Statuses
    <2> QED BY <1>2, <2>1, ConstantsAssumption DEF Init, EmptyTables, OmsTyped
  <1>7. PositionInv
    BY <1>2 DEF PositionInit, PositionInv, SaneEntry, NoRow
  <1>8. AccountTypeOK
    BY <1>2 DEF AccountInit, AccountTypeOK
  <1> QED BY <1>1, <1>3, <1>4, <1>5, <1>6, <1>7, <1>8 DEF SyncTyped

THEOREM TypedInvariant == SyncSpec => []SyncTyped
  BY TypedInitially, TypedStep, PTL DEF SyncSpec

\* The position table, the account and the OMS keep their types in every session,
\* and only a running or stopping engine holds undelivered events.
THEOREM SyncTypeCorrect == SyncSpec => []SyncTypeOK
  <1>1. SyncTyped => SyncTypeOK
    <2> SUFFICES ASSUME SyncTyped PROVE SyncTypeOK
      OBVIOUS
    <2>1. PositionTypeOK
      BY DEF SyncTyped, PositionInv, PositionTypeOK
    <2>2. Len(lane) \in 0..LaneRoom
      BY SyncAssumption, LenProperties DEF SyncTyped, EventsTyped
    <2> QED BY <2>1, <2>2 DEF SyncTyped, SyncTypeOK, OmsTyped, ControlTyped, EventsTyped
  <1> QED BY <1>1, TypedInvariant, PTL

\* Under the engine's own calls too no position row goes short of zero, in
\* whatever order fills, repeated fills, stops and snapshots come.
THEOREM PositionsSaneInSync == SyncSpec => []PositionsSane
  <1>1. SyncTyped => PositionsSane
    BY DEF SyncTyped, PositionInv, SaneEntry, PositionsSane
  <1> QED BY <1>1, TypedInvariant, PTL

-----------------------------------------------------------------------------
(* Names: no step takes back an identifier the venue knows.                *)

Grows(v, w) ==
  \A c \in ClientIds : v[c] # Unplaced =>
    w[c] # Unplaced /\ (v[c].id = NoId \/ w[c].id = v[c].id)

SameIds(v, w) == \A c \in ClientIds : w[c].id = v[c].id

LEMMA NamesGrow ==
  ASSUME NEW s \in Seq(Events), NEW v, NEW w, Grows(v, w), AllNamed(s, v)
  PROVE  AllNamed(s, w)
  <1> SUFFICES ASSUME NEW i \in 1..Len(s)
               PROVE  NamedBy(s[i].r, w[s[i].r.client])
    BY DEF AllNamed
  <1>1. s[i] \in Events
    BY ElementOfSeq
  <1>2. s[i].r.client \in ClientIds
    BY <1>1, EventTypes DEF VenueReports, VenueTrades
  <1> QED BY <1>2 DEF AllNamed, NamedBy, Grows

LEMMA NamesLeave ==
  ASSUME NEW s \in Seq(Events), s # <<>>, NEW v, AllNamed(s, v)
  PROVE  AllNamed(Tail(s), v) /\ NamedBy(Head(s).r, v[Head(s).r.client])
  <1>1. Len(s) \in Nat \ {0} /\ Head(s) = s[1]
    BY Ends
  <1>2. \A i \in 1..Len(Tail(s)) : Tail(s)[i] = s[i + 1] /\ i + 1 \in 1..Len(s)
    BY Ends
  <1> QED BY <1>1, <1>2 DEF AllNamed

LEMMA NamesJoin ==
  ASSUME NEW s \in Seq(Events), NEW t \in Seq(Events), NEW v, AllNamed(s, v), AllNamed(t, v)
  PROVE  AllNamed(s \o t, v)
  <1> SUFFICES ASSUME NEW i \in 1..Len(s \o t)
               PROVE  NamedBy((s \o t)[i].r, v[(s \o t)[i].r.client])
    BY DEF AllNamed
  <1>1. /\ Len(s \o t) = Len(s) + Len(t) /\ Len(s) \in Nat /\ Len(t) \in Nat
        /\ \A k \in 1..Len(s) : (s \o t)[k] = s[k]
        /\ \A k \in 1..Len(t) : (s \o t)[Len(s) + k] = t[k]
    BY Joined
  <1>2. CASE i <= Len(s)
    BY <1>1, <1>2 DEF AllNamed
  <1>3. CASE i > Len(s)
    <2>1. i - Len(s) \in 1..Len(t) /\ Len(s) + (i - Len(s)) = i
      BY <1>1, <1>3
    <2>2. (s \o t)[i] = t[i - Len(s)]
      BY <1>1, <2>1
    <2> QED BY <2>1, <2>2 DEF AllNamed
  <1> QED BY <1>1, <1>2, <1>3

LEMMA NamesAppend ==
  ASSUME NEW s \in Seq(Events), NEW e \in Events, NEW v, AllNamed(s, v),
         NamedBy(e.r, v[e.r.client])
  PROVE  AllNamed(Append(s, e), v)
  <1> SUFFICES ASSUME NEW i \in 1..Len(Append(s, e))
               PROVE  NamedBy(Append(s, e)[i].r, v[Append(s, e)[i].r.client])
    BY DEF AllNamed
  <1>1. /\ Len(Append(s, e)) = Len(s) + 1 /\ Len(s) \in Nat
        /\ \A k \in 1..Len(s) : Append(s, e)[k] = s[k]
        /\ Append(s, e)[Len(s) + 1] = e
    BY AppendProperties, LenProperties
  <1>2. CASE i <= Len(s)
    BY <1>1, <1>2 DEF AllNamed
  <1>3. CASE i > Len(s)
    <2>1. i = Len(s) + 1
      BY <1>1, <1>3
    <2> QED BY <1>1, <2>1
  <1> QED BY <1>1, <1>2, <1>3

LEMMA NoNames == \A v : AllNamed(<<>>, v)
  BY DEF AllNamed

LEMMA OneName ==
  ASSUME NEW e \in Events, NEW v, NamedBy(e.r, v[e.r.client])
  PROVE  AllNamed(<<e>>, v)
  <1>1. Len(<<e>>) = 1 /\ <<e>>[1] = e
    OBVIOUS
  <1> QED BY <1>1 DEF AllNamed

LEMMA TwoNames ==
  ASSUME NEW e \in Events, NEW f \in Events, NEW v, NamedBy(e.r, v[e.r.client]),
         NamedBy(f.r, v[f.r.client])
  PROVE  AllNamed(<<e, f>>, v)
  <1>1. Len(<<e, f>>) = 2 /\ <<e, f>>[1] = e /\ <<e, f>>[2] = f
    OBVIOUS
  <1>2. \A i \in 1..2 : i = 1 \/ i = 2
    OBVIOUS
  <1> QED BY <1>1, <1>2 DEF AllNamed

\* The answers' names.
AnswersNamed(v) ==
  /\ \A r \in answers.orders \cup answers.trades : NamedBy(r, v[r.client])
  /\ stage \in Starting => \A r \in answers.orders : r.order_id = v[r.client].id

LEMMA AnswersGrow ==
  ASSUME SyncTyped, NEW w, Grows(venue, w), stage \in Starting => SameIds(venue, w), NamesInv
  PROVE  AnswersNamed(w)
  <1>1. \A r \in answers.orders \cup answers.trades : r.client \in ClientIds
    <2> TAKE r \in answers.orders \cup answers.trades
    <2>1. r \in VenueReports \/ r \in VenueTrades
      BY DEF SyncTyped, AnswersTyped
    <2> QED BY <2>1 DEF VenueReports, VenueTrades
  <1>2. \A r \in answers.orders \cup answers.trades : NamedBy(r, w[r.client])
    BY <1>1 DEF NamesInv, Named, NamedBy, Grows
  <1>3. stage \in Starting => \A r \in answers.orders : r.order_id = w[r.client].id
    BY <1>1 DEF NamesInv, SameIds
  <1> QED BY <1>2, <1>3 DEF AnswersNamed

-----------------------------------------------------------------------------
(* The tables beside the names.                                            *)

TablesFit ==
  RowsInv /\ NamedRows /\ IndexConsistent /\ AllocatedBeforeUse /\ AbsentOwnsNothing

LEMMA TablesGrow ==
  ASSUME SyncTyped, TablesFit, Grows(venue, venue'), SameIds(venue, venue'), epoch' = epoch,
         UNCHANGED <<initialized, counter, orders, clientIndex>>
  PROVE  TablesFit'
  <1>1. \A id : Present(id)' <=> Present(id)
    BY DEF Present
  <1>2. IndexConsistent' /\ AllocatedBeforeUse' /\ AbsentOwnsNothing'
    BY <1>1 DEF TablesFit, IndexConsistent, AllocatedBeforeUse, AbsentOwnsNothing
  <1>3. \A a : OmsId(a)' = OmsId(a)
    BY DEF OmsId
  <1>4. RowsInv'
    BY <1>1, <1>3 DEF TablesFit, RowsInv, Placed, Grows, SameIds, OmsId
  <1>5. NamedRows'
    BY <1>1, <1>3 DEF TablesFit, NamedRows, SameIds, OmsId
  <1> QED BY <1>2, <1>4, <1>5 DEF TablesFit

\* While a row moves, at most the order it is of gets a name, and that is the row's.
Renames(id) ==
  \A d \in ClientIds :
    \/ venue'[d].id = venue[d].id
    \/ venue[d].id = NoId /\ id = OmsId(venue'[d].id) /\ orders[id].client = d
       /\ venue'[d].id # NoId

LEMMA TablesMove ==
  ASSUME SyncTyped, TablesFit, Grows(venue, venue'), epoch' = epoch, NEW id, NEW new,
         Renames(id), RowMoves(id, new)
  PROVE  TablesFit'
  <1>1. /\ id \in OrderIds /\ Present(id) /\ RowStep(orders[id], new)
        /\ UNCHANGED <<initialized, counter, clientIndex>>
        /\ \A j \in OrderIds : orders'[j] = IF j = id THEN new ELSE orders[j]
    BY DEF RowMoves, SyncTyped, OmsTyped
  <1>2. new.state # "Absent" /\ new.client = orders[id].client
    BY <1>1 DEF RowStep, Lifecycle, PreSend, Terminal
  <1>3. \A j \in OrderIds : (Present(j)' <=> Present(j)) /\ orders'[j].client = orders[j].client
    BY <1>1, <1>2 DEF Present
  <1>4. clientIndex \in [ClientIds -> OrderIds \cup {NoId}]
    BY DEF SyncTyped, OmsTyped
  <1>5. IndexConsistent' /\ AllocatedBeforeUse'
    BY <1>1, <1>3, <1>4 DEF TablesFit, IndexConsistent, AllocatedBeforeUse
  <1>6. AbsentOwnsNothing'
    BY <1>1, <1>2 DEF TablesFit, AbsentOwnsNothing
  <1>7. \A a : OmsId(a)' = OmsId(a)
    BY DEF OmsId
  <1>8. RowsInv'
    <2> SUFFICES ASSUME NEW j \in OrderIds, Present(j)
                 PROVE  /\ orders[j].client \in ClientIds /\ venue'[orders[j].client] # Unplaced
                        /\ IF venue'[orders[j].client].id = NoId THEN j \in LocalIds
                           ELSE j = OmsId(venue'[orders[j].client].id)
      BY <1>3, <1>7 DEF RowsInv, Placed
    <2>1. PICK d \in ClientIds : d = orders[j].client /\ venue[d] # Unplaced
      BY DEF TablesFit, RowsInv, Placed
    <2>2. venue'[d] # Unplaced
      BY <2>1 DEF Grows
    <2>3. CASE venue'[d].id = venue[d].id
      BY <2>1, <2>2, <2>3 DEF TablesFit, RowsInv
    <2>4. CASE /\ venue[d].id = NoId /\ id = OmsId(venue'[d].id) /\ orders[id].client = d
               /\ venue'[d].id # NoId
      <3>1. d # NoClient
        BY IdFacts
      <3>2. j = id
        BY <1>1, <2>1, <2>4, <3>1 DEF TablesFit, IndexConsistent
      <3> QED BY <2>1, <2>2, <2>4, <3>2
    <2> QED BY <2>1, <2>3, <2>4 DEF Renames
  <1>9. NamedRows'
    <2>1. ASSUME NEW d \in ClientIds, initialized, venue'[d].id > epoch * MaxOrders
          PROVE  Present(OmsId(venue'[d].id)) /\ orders[OmsId(venue'[d].id)].client = d
      BY <1>1, <2>1 DEF TablesFit, NamedRows, Renames
    <2>2. \A j : Present(j) => Present(j)' /\ orders'[j].client = orders[j].client
      BY <1>3 DEF Present
    <2> QED BY <1>1, <1>7, <2>1, <2>2 DEF NamedRows
  <1> QED BY <1>5, <1>6, <1>8, <1>9 DEF TablesFit

\* A row that enters is new, for a client without one.
LEMMA TablesEnter ==
  ASSUME SyncTyped, TablesFit, Grows(venue, venue'), SameIds(venue, venue'), epoch' = epoch,
         initialized, NEW id \in OrderIds, ~Present(id), NEW new \in Entry, new.state \in Lifecycle,
         new.client \in ClientIds, GetOrderByClientId(new.client) = NoId,
         orders' = [orders EXCEPT ![id] = new],
         clientIndex' \in [ClientIds -> OrderIds \cup {NoId}],
         \A c \in ClientIds : clientIndex'[c] = IF c = new.client THEN id ELSE clientIndex[c],
         counter' \in Nat, counter' >= counter, id \in ForeignIds \/ id <= counter',
         Placed(new.client)',
         IF venue[new.client].id = NoId THEN id \in LocalIds
         ELSE id = OmsId(venue[new.client].id)
  PROVE  TablesFit'
  <1>1. /\ \A j \in OrderIds : orders'[j] = IF j = id THEN new ELSE orders[j]
        /\ clientIndex \in [ClientIds -> OrderIds \cup {NoId}] /\ counter \in Nat
        /\ orders \in [OrderIds -> Entry]
    BY ConstantsAssumption DEF SyncTyped, OmsTyped
  <1>2. new.state # "Absent"
    BY DEF Lifecycle, PreSend, Terminal
  <1>3. \A j \in OrderIds : orders'[j].state # "Absent" <=> j = id \/ Present(j)
    BY <1>1, <1>2 DEF Present
  <1>4. \A j \in OrderIds : Present(j) => orders[j].client # new.client /\ j # id
    BY IdFacts DEF TablesFit, RowsInv, IndexConsistent, GetOrderByClientId, Present
  <1>6. id # NoId
    BY IdFacts
  <1>7. \A c \in ClientIds : clientIndex'[c] # NoId =>
          /\ clientIndex'[c] \in OrderIds /\ orders'[clientIndex'[c]].state # "Absent"
          /\ orders'[clientIndex'[c]].client = c
    <2> SUFFICES ASSUME NEW c \in ClientIds, clientIndex'[c] # NoId
                 PROVE  /\ clientIndex'[c] \in OrderIds
                        /\ orders'[clientIndex'[c]].state # "Absent"
                        /\ orders'[clientIndex'[c]].client = c
      OBVIOUS
    <2>1. CASE c = new.client
      <3>1. clientIndex'[c] = id
        BY <2>1
      <3>2. orders'[id] = new
        BY <1>1
      <3> QED BY <1>2, <2>1, <3>1, <3>2
    <2>2. CASE c # new.client
      <3>1. PICK k \in OrderIds : clientIndex'[c] = k /\ clientIndex[c] = k
        BY <1>1, <2>2
      <3>2. Present(k) /\ orders[k].client = c
        BY <1>6, <3>1, IdFacts DEF TablesFit, IndexConsistent
      <3>3. orders'[k] = orders[k] /\ orders'[k].state # "Absent"
        BY <1>1, <1>3, <1>4, <3>2
      <3> QED BY <3>1, <3>2, <3>3
    <2> QED BY <2>1, <2>2
  <1>8. \A j \in OrderIds : orders'[j].state # "Absent" /\ orders'[j].client # NoClient =>
          clientIndex'[orders'[j].client] = j
    <2> SUFFICES ASSUME NEW j \in OrderIds, orders'[j].state # "Absent",
                        orders'[j].client # NoClient
                 PROVE  clientIndex'[orders'[j].client] = j
      OBVIOUS
    <2>1. CASE j = id
      BY <1>1, <2>1
    <2>2. CASE j # id
      <3>1. Present(j) /\ orders'[j] = orders[j] /\ orders[j].client \in ClientIds
        BY <1>1, <1>3, <2>2 DEF TablesFit, RowsInv
      <3> QED BY <1>1, <1>4, <3>1 DEF TablesFit, IndexConsistent
    <2> QED BY <2>1, <2>2
  <1>9. IndexConsistent'
    BY <1>7, <1>8 DEF IndexConsistent, Present
  <1>10. AllocatedBeforeUse'
    <2> SUFFICES ASSUME NEW j \in OrderIds, orders'[j].state # "Absent"
                 PROVE  j \in ForeignIds \/ j <= counter'
      BY DEF AllocatedBeforeUse, Present
    <2>1. CASE j = id
      BY <2>1
    <2>2. CASE j # id
      <3>1. j \in ForeignIds \/ j <= counter
        BY <1>3, <2>2 DEF TablesFit, AllocatedBeforeUse
      <3>2. j \in Nat
        BY ConstantsAssumption DEF OrderIds, LocalIds
      <3> QED BY <1>1, <3>1, <3>2
    <2> QED BY <2>1, <2>2
  <1>11. AbsentOwnsNothing'
    BY <1>1, <1>2 DEF TablesFit, AbsentOwnsNothing
  <1>12. ASSUME NEW j \in OrderIds, orders'[j].state # "Absent"
         PROVE  /\ orders'[j].client \in ClientIds /\ venue'[orders'[j].client] # Unplaced
                /\ IF venue'[orders'[j].client].id = NoId THEN j \in LocalIds
                   ELSE j = OmsId(venue'[orders'[j].client].id)
    <2>1. CASE j = id
      <3>1. orders'[j] = new
        BY <1>1, <2>1
      <3>2. venue'[new.client] # Unplaced /\ venue'[new.client].id = venue[new.client].id
        BY DEF Placed, SameIds
      <3> QED BY <2>1, <3>1, <3>2
    <2>2. CASE j # id
      <3>1. Present(j) /\ orders'[j] = orders[j]
        BY <1>1, <1>3, <1>12, <2>2
      <3>2. PICK c \in ClientIds : c = orders[j].client
        BY <3>1 DEF TablesFit, RowsInv
      <3>3. venue[c] # Unplaced
            /\ IF venue[c].id = NoId THEN j \in LocalIds ELSE j = OmsId(venue[c].id)
        BY <3>1, <3>2 DEF TablesFit, RowsInv, Placed
      <3>4. venue'[c] # Unplaced /\ venue'[c].id = venue[c].id
        BY <3>3 DEF Grows, SameIds
      <3> QED BY <3>1, <3>2, <3>3, <3>4
    <2> QED BY <2>1, <2>2
  <1>13. RowsInv'
    BY <1>12 DEF RowsInv, Present, Placed, OmsId
  <1>14. NamedRows'
    <2> SUFFICES ASSUME NEW d \in ClientIds, venue[d].id > epoch * MaxOrders
                 PROVE  /\ OmsId(venue[d].id) \in OrderIds
                        /\ orders'[OmsId(venue[d].id)].state # "Absent"
                        /\ orders'[OmsId(venue[d].id)].client = d
      BY DEF NamedRows, SameIds, OmsId, Present
    <2>1. PICK j : j = OmsId(venue[d].id) /\ Present(j) /\ orders[j].client = d
      BY DEF TablesFit, NamedRows
    <2>2. j \in OrderIds /\ j # id
      BY <2>1 DEF Present
    <2> QED BY <1>1, <1>3, <2>1, <2>2
  <1> QED BY <1>9, <1>10, <1>11, <1>13, <1>14 DEF TablesFit

LEMMA TablesCleared ==
  ASSUME orders' = [id \in OrderIds |-> Absent], clientIndex' = [c \in ClientIds |-> NoId],
         initialized' => \A c \in ClientIds : ~(venue'[c].id > epoch' * MaxOrders)
  PROVE  TablesFit'
  <1>1. \A id \in OrderIds : ~Present(id)' /\ orders'[id].client = NoClient
    BY DEF Present, Absent
  <1> QED BY <1>1 DEF TablesFit, RowsInv, NamedRows, IndexConsistent, AllocatedBeforeUse,
                      AbsentOwnsNothing

-----------------------------------------------------------------------------
(* The tables: one lemma per action.                                       *)

\* Within a session the mark of the identifiers handed out never goes back.
LEMMA HandedGrows ==
  ASSUME SyncTyped, SyncTyped', epoch' = epoch, counter' >= counter,
         stage' = "down" => stage \in {"down", "stopping"},
         stage = "down" => stage' = "down",
         stage' \in Starting => stage \in Starting
  PROVE  Handed \in Nat /\ Handed' \in Nat /\ Handed <= Handed'
  <1>1. PICK p \in Nat : p = epoch * MaxOrders /\ p = epoch' * MaxOrders
    BY Products, EpochTyped DEF SyncTyped
  <1>2. counter \in Nat /\ counter' \in Nat /\ MaxOrders \in Nat
        /\ counter <= MaxOrders /\ counter' <= MaxOrders
    BY ConstantsAssumption DEF SyncTyped, OmsTyped
  <1>3. "down" \notin Starting /\ "stopping" \notin Starting
    BY DEF Starting
  <1>4. Handed = CASE stage = "down" -> p + MaxOrders
                   [] stage \in Starting -> p
                   [] OTHER -> p + counter
    BY <1>1 DEF Handed
  <1>5. Handed' = CASE stage' = "down" -> p + MaxOrders
                    [] stage' \in Starting -> p
                    [] OTHER -> p + counter'
    BY <1>1 DEF Handed, Starting
  <1> QED BY <1>2, <1>3, <1>4, <1>5

LEMMA VenueIdsTyped ==
  ASSUME VenueTyped
  PROVE  \A c \in ClientIds : venue[c].id \in Nat
  <1>1. VenueIds \cup {NoId} \subseteq Nat
    BY SyncAssumption, ConstantsAssumption DEF VenueIds, NoId
  <1> QED BY <1>1 DEF VenueTyped, VenueEntry

LEMMA IdsKept ==
  ASSUME SyncTyped, IdsInv, Handed \in Nat, Handed' \in Nat, Handed <= Handed',
         SameIds(venue, venue')
  PROVE  IdsInv'
  <1>1. \A c \in ClientIds : venue[c].id \in Nat /\ venue'[c].id = venue[c].id
    BY VenueIdsTyped DEF SyncTyped, SameIds
  <1>2. \A c \in ClientIds : venue'[c].id <= Handed'
    BY <1>1 DEF IdsInv
  <1> QED BY <1>1, <1>2 DEF IdsInv

\* What an action that leaves the venue and the counter alone keeps.
LEMMA IdsStay ==
  ASSUME SyncTyped, SyncTyped', IdsInv, venue' = venue, epoch' = epoch, counter' >= counter,
         stage' = "down" => stage \in {"down", "stopping"},
         stage = "down" => stage' = "down",
         stage' \in Starting => stage \in Starting
  PROVE  IdsInv'
  BY HandedGrows, IdsKept DEF SameIds

LEMMA VenueTablesStep ==
  ASSUME SyncTyped, SyncTyped', TablesInv, Venue
  PROVE  TablesInv'
  <1>1. PICK c \in ClientIds : VenueFill(c) \/ VenueCancel(c) \/ VenueRepeat(c)
    BY DEF Venue
  <1>2. PICK w \in VenueEntry :
          /\ EntryFits(w) /\ EntryMoves(venue[c], w)
          /\ w.traded \in 1..OrderVolume \/ w.status # venue[c].status
          /\ venue' = [venue EXCEPT ![c] = w] /\ venue'[c] = w
          /\ (\E es \in EventsOf(c, w) : Sends(es)) /\ VenueActs
    BY <1>1, VenueShape
  <1>3. \A d \in ClientIds : venue'[d] = IF d = c THEN w ELSE venue[d]
    BY <1>2 DEF SyncTyped, VenueTyped
  <1>4. Grows(venue, venue') /\ SameIds(venue, venue')
    BY <1>2, <1>3 DEF Grows, SameIds, EntryMoves
  <1>5. UNCHANGED <<controlVars, bookVars, lane, connected>>
    BY <1>2 DEF VenueActs
  <1>6. TablesFit'
    BY <1>4, <1>5, TablesGrow DEF TablesInv, TablesFit, controlVars, bookVars, omsVars
  <1>7. IdsInv'
    <2>1. Handed \in Nat /\ Handed' \in Nat /\ Handed <= Handed'
      <3>1. epoch' = epoch /\ stage' = stage /\ counter' = counter /\ counter \in Nat
        BY <1>5 DEF controlVars, bookVars, omsVars, SyncTyped, OmsTyped
      <3> QED BY <3>1, HandedGrows
    <2> QED BY <1>4, <2>1, IdsKept DEF TablesInv
  <1>8. AnswersNamed(venue')
    BY <1>4, AnswersGrow DEF TablesInv
  <1>9. AllNamed(lane, venue') /\ AllNamed(wire, venue')
    BY <1>4, NamesGrow DEF TablesInv, NamesInv, SyncTyped, EventsTyped
  <1>10. AllNamed(wire', venue')
    <2>1. CASE stage = "down"
      <3>1. wire' = wire
        BY <1>2, <2>1 DEF Sends, SyncTyped, ControlTyped
      <3> QED BY <1>9, <3>1
    <2>2. CASE stage # "down"
      <3>1. Placed(c)' /\ Placed(c)
        BY <1>2 DEF EntryMoves, Placed
      <3>2. EventsOf(c, w) \subseteq Seq(Events)
        BY <1>2, <3>1, EventsOfTyped DEF SyncTyped
      <3>3. PICK r \in VenueReports : r = Report(c)' /\ r.client = c /\ NamedBy(r, venue'[r.client])
        BY <3>1, ReportsTypedLater DEF ReportsFit, Named, SyncTyped
      <3>4. OrderEvent(r) \in Events /\ OrderEvent(r).r = r
        BY EventTypes DEF OrderEvent
      <3>5. ASSUME w.traded \in 1..OrderVolume, NEW t, t = VenueTrade(c, w.traded)
            PROVE  TradeEvent(t) \in Events /\ NamedBy(TradeEvent(t).r, venue'[TradeEvent(t).r.client])
        <4>1. t \in VenueTrades /\ t.client = c /\ t.order_id = NoId
          BY <3>5, TradeTyped DEF SyncTyped
        <4>2. TradeEvent(t).r = t
          BY DEF TradeEvent
        <4> QED BY <1>2, <4>1, <4>2, EventTypes DEF NamedBy, EntryMoves
      <3>6. PICK t : t = VenueTrade(c, w.traded)
        OBVIOUS
      <3>7. EventsOf(c, w) \subseteq {<<TradeEvent(t), OrderEvent(r)>>, <<OrderEvent(r)>>,
                                     <<TradeEvent(t)>>}
        BY <3>3, <3>6 DEF EventsOf
      <3>8. w.traded \in 1..OrderVolume \/ EventsOf(c, w) = {<<OrderEvent(r)>>}
        <4> SUFFICES ASSUME w.traded \notin 1..OrderVolume PROVE EventsOf(c, w) = {<<OrderEvent(r)>>}
          OBVIOUS
        <4>1. w.traded = 0 /\ w.status # venue[c].status
          BY <1>2, SyncAssumption DEF VenueEntry
        <4>2. venue[c].traded \in Nat
          BY SyncAssumption DEF SyncTyped, VenueTyped, VenueEntry
        <4>3. w.traded = venue[c].traded
          BY <1>2, <4>1, <4>2 DEF EntryMoves
        <4> QED BY <3>3, <4>1, <4>3 DEF EventsOf
      <3>9. AllNamed(<<OrderEvent(r)>>, venue')
        BY <3>3, <3>4, OneName
      <3>10. \A es \in EventsOf(c, w) : AllNamed(es, venue')
        <4>1. CASE w.traded \in 1..OrderVolume
          <5>1. TradeEvent(t) \in Events /\ NamedBy(TradeEvent(t).r, venue'[TradeEvent(t).r.client])
            BY <3>5, <3>6, <4>1
          <5>2. AllNamed(<<TradeEvent(t)>>, venue') /\ AllNamed(<<TradeEvent(t), OrderEvent(r)>>, venue')
            BY <3>3, <3>4, <5>1, OneName, TwoNames
          <5> QED BY <3>7, <3>9, <5>2
        <4>2. CASE w.traded \notin 1..OrderVolume
          BY <3>8, <3>9, <4>2
        <4> QED BY <4>1, <4>2
      <3>11. PICK es \in EventsOf(c, w) : Sends(es)
        BY <1>2
      <3>12. es \in Seq(Events) /\ AllNamed(es, venue') /\ wire' = wire \o es
        BY <2>2, <3>2, <3>10, <3>11, SendsTyped
      <3> QED BY <1>9, <3>12, NamesJoin DEF SyncTyped, EventsTyped
    <2> QED BY <2>1, <2>2
  <1>11. NamesInv'
    <2>1. lane' = lane /\ answers' = answers /\ stage' = stage
      BY <1>5 DEF controlVars
    <2> QED BY <1>8, <1>9, <1>10, <2>1 DEF NamesInv, Named, AnswersNamed
  <1> QED BY <1>6, <1>7, <1>11 DEF TablesInv, TablesFit

LEMMA CallbackTablesStep ==
  ASSUME SyncTyped, SyncTyped', TablesInv, Callback
  PROVE  TablesInv'
  <1>1. /\ wire \in Seq(Events) /\ lane \in Seq(Events) /\ wire # <<>>
        /\ wire' = Tail(wire) /\ (lane' = lane \/ lane' = Append(lane, Head(wire)))
        /\ UNCHANGED <<controlVars, venue, connected, bookVars>>
    BY DEF Callback, SyncTyped, EventsTyped
  <1>2. /\ Head(wire) \in Events /\ AllNamed(Tail(wire), venue)
        /\ NamedBy(Head(wire).r, venue[Head(wire).r.client]) /\ AllNamed(lane, venue)
    BY <1>1, Ends, NamesLeave DEF TablesInv, NamesInv
  <1>3. AllNamed(Append(lane, Head(wire)), venue)
    BY <1>1, <1>2, NamesAppend
  <1>4. NamesInv'
    <2>1. venue' = venue /\ answers' = answers /\ stage' = stage
      BY <1>1 DEF controlVars
    <2>2. AllNamed(lane', venue) /\ AllNamed(wire', venue)
      BY <1>1, <1>2, <1>3
    <2> QED BY <2>1, <2>2 DEF TablesInv, NamesInv, Named, AllNamed
  <1>5. IdsInv'
    <2>1. counter' >= counter
      BY <1>1 DEF bookVars, omsVars, SyncTyped, OmsTyped
    <2> QED BY <1>1, <2>1, IdsStay DEF TablesInv, controlVars
  <1>6. TablesFit'
    <2>1. Grows(venue, venue') /\ SameIds(venue, venue')
      BY <1>1 DEF Grows, SameIds
    <2> QED BY <1>1, <2>1, TablesGrow DEF TablesInv, TablesFit, controlVars, bookVars, omsVars
  <1> QED BY <1>4, <1>5, <1>6 DEF TablesInv, TablesFit

\* A handler's effect on the tables.
LEMMA HandleShape ==
  ASSUME SyncTyped, Handle
  PROVE  LET e == Head(lane)
         IN /\ e \in Events /\ lane' = Tail(lane) /\ lane # <<>>
            /\ stage \in {"running", "stopping"}
            /\ UNCHANGED <<controlVars, venueVars>>
            /\ \/ /\ e.type = "order" /\ e.r \in VenueReports
                  /\ LET o  == OmsReport(e.r)
                         id == Find(o.order_id, o.client)
                     IN /\ o \in OrderReport /\ AccountFollows(LocalOrder(o))
                        /\ \/ id = NoId /\ UNCHANGED <<initialized, counter, clientIndex, orders>>
                           \/ RowMoves(id, Merged(orders[id], o))
               \/ /\ e.type = "trade" /\ e.r \in VenueTrades
                  /\ LET o  == OmsTrade(e.r)
                         id == Find(o.order_id, o.client)
                     IN \/ ~TradeAccepted(id, o) /\ UNCHANGED omsVars
                        \/ TradeAccepted(id, o) /\ RowMoves(id, Traded(orders[id], o))
                           /\ applied' = applied \cup {o.key}
  <1> DEFINE e == Head(lane)
  <1>1. /\ e \in Events /\ lane' = Tail(lane) /\ lane # <<>>
        /\ stage \in {"running", "stopping"} /\ UNCHANGED <<controlVars, venueVars>>
        /\ IF e.type = "order" THEN OnTraderOrderReport(e.r) ELSE OnTraderTradeReport(e.r)
    BY Ends DEF Handle, SyncTyped, EventsTyped
  <1>2. OmsTyped /\ epoch \in 0..MaxSessions
    BY EpochTyped DEF SyncTyped
  <1> HIDE DEF e
  <1>3. CASE e.type = "order"
    <2>1. e.r \in VenueReports /\ OnTraderOrderReport(e.r)
      BY <1>1, <1>3, EventTypes
    <2>2. OmsReport(e.r) \in OrderReport
      BY <1>2, <2>1, OmsReportTyped
    <2>3. ApplyOrderReport(OmsReport(e.r)) /\ AccountFollows(LocalOrder(OmsReport(e.r)))
      BY <2>1 DEF OnTraderOrderReport
    <2> QED BY <1>1, <1>2, <1>3, <2>1, <2>2, <2>3, ReportShape DEF e
  <1>4. CASE e.type # "order"
    <2>1. e.type = "trade" /\ e.r \in VenueTrades /\ OnTraderTradeReport(e.r)
      BY <1>1, <1>4, EventTypes
    <2>2. ApplyTradeReport(OmsTrade(e.r)) /\ OmsTrade(e.r).volume \in Nat
      BY <2>1 DEF OnTraderTradeReport, OmsTrade, VenueTrades
    <2> QED BY <1>1, <1>2, <2>1, <2>2, TradeShape DEF e
  <1> QED BY <1>3, <1>4

\* The tables after a row moved, or none.
LEMMA TablesMoveOrStay ==
  ASSUME SyncTyped, TablesInv, venue' = venue, epoch' = epoch,
         \/ UNCHANGED <<initialized, counter, clientIndex, orders>>
         \/ \E id, new : RowMoves(id, new)
  PROVE  TablesFit' /\ counter' >= counter
  <1>1. counter \in Nat
    BY ConstantsAssumption DEF SyncTyped, OmsTyped
  <1>2. CASE UNCHANGED <<initialized, counter, clientIndex, orders>>
    <2>1. Grows(venue, venue') /\ SameIds(venue, venue')
      BY DEF Grows, SameIds
    <2> QED BY <1>1, <1>2, <2>1, TablesGrow DEF TablesInv, TablesFit
  <1>3. CASE \E id, new : RowMoves(id, new)
    <2>1. PICK id, new : RowMoves(id, new)
      BY <1>3
    <2>2. TablesFit /\ Grows(venue, venue') /\ Renames(id)
      BY DEF TablesInv, TablesFit, Grows, Renames
    <2>3. TablesFit'
      BY <2>1, <2>2, TablesMove
    <2>4. counter' = counter
      BY <2>1 DEF RowMoves
    <2> QED BY <1>1, <2>3, <2>4
  <1> QED BY <1>2, <1>3

LEMMA HandleTablesStep ==
  ASSUME SyncTyped, SyncTyped', TablesInv, Handle
  PROVE  TablesInv'
  <1>1. lane \in Seq(Events) /\ lane # <<>> /\ lane' = Tail(lane)
        /\ UNCHANGED <<controlVars, venueVars>>
    BY HandleShape DEF SyncTyped, EventsTyped
  <1>2. \/ UNCHANGED <<initialized, counter, clientIndex, orders>>
        \/ \E id, new : RowMoves(id, new)
    <2>1. UNCHANGED omsVars => UNCHANGED <<initialized, counter, clientIndex, orders>>
      BY DEF omsVars
    <2> QED BY <2>1, HandleShape
  <1>3. TablesFit' /\ counter' >= counter
    BY <1>1, <1>2, TablesMoveOrStay DEF controlVars, venueVars
  <1>4. IdsInv'
    BY <1>1, <1>3, IdsStay DEF TablesInv, controlVars, venueVars
  <1>5. NamesInv'
    <2>1. AllNamed(lane', venue)
      BY <1>1, NamesLeave DEF TablesInv, NamesInv
    <2> QED BY <1>1, <2>1 DEF TablesInv, NamesInv, Named, AllNamed, controlVars, venueVars
  <1> QED BY <1>3, <1>4, <1>5 DEF TablesInv, TablesFit

\* A submission takes the next identifier; the venue has no name for the order yet.
LEMMA SubmitTablesStep ==
  ASSUME SyncTyped, SyncTyped', TablesInv, NEW c \in ClientIds, SubmitOrder(c)
  PROVE  TablesInv'
  <1>2. /\ stage = "running" /\ venue[c] = Unplaced /\ GetOrderByClientId(c) = NoId
        /\ counter' = NextId /\ NextId \in LocalIds /\ NextId \in OrderIds
        /\ counter \in Nat /\ NextId = counter + 1 /\ initialized
        /\ orders' = [orders EXCEPT ![NextId] = SubmittedRow(c)]
        /\ clientIndex' = [clientIndex EXCEPT ![c] = NextId]
        /\ venue' = [venue EXCEPT ![c] = SubmittedEntry]
        /\ venue'[c] = SubmittedEntry
        /\ Sends(<<OrderEvent(Report(c)')>>)
        /\ UNCHANGED <<controlVars, connected, lane>>
    BY SubmitShape DEF RowOf
  <1>3. \A d \in ClientIds : venue'[d] = IF d = c THEN SubmittedEntry ELSE venue[d]
    BY <1>2 DEF SyncTyped, VenueTyped
  <1>4. SubmittedEntry.id = NoId /\ SubmittedEntry # Unplaced /\ Unplaced.id = NoId
    BY SubmittedEntries DEF Unplaced
  <1>5. Grows(venue, venue') /\ SameIds(venue, venue')
    BY <1>2, <1>3, <1>4 DEF Grows, SameIds
  <1>8. IdsInv'
    <2>1. epoch' = epoch /\ stage' = stage /\ counter' >= counter
      BY <1>2 DEF controlVars
    <2> QED BY <1>5, <2>1, HandedGrows, IdsKept DEF TablesInv
  <1>9. NamesInv'
    <2>1. AnswersNamed(venue')
      BY <1>5, AnswersGrow DEF TablesInv
    <2>2. AllNamed(lane, venue') /\ AllNamed(wire, venue')
      BY <1>5, NamesGrow DEF TablesInv, NamesInv, SyncTyped, EventsTyped
    <2>3. Placed(c)'
      BY <1>2, <1>4 DEF Placed
    <2>4. PICK r \in VenueReports : r = Report(c)' /\ NamedBy(r, venue'[r.client])
      BY <2>3, ReportsTypedLater DEF ReportsFit, Named, SyncTyped
    <2>5. OrderEvent(r) \in Events /\ OrderEvent(r).r = r
      BY EventTypes DEF OrderEvent
    <2>6. AllNamed(<<OrderEvent(r)>>, venue') /\ <<OrderEvent(r)>> \in Seq(Events)
      BY <2>4, <2>5, OneName, OneEvent
    <2>7. wire' = wire \o <<OrderEvent(r)>>
      BY <1>2, <2>4, <2>6, SendsTyped
    <2>8. AllNamed(wire', venue')
      BY <2>2, <2>6, <2>7, NamesJoin DEF SyncTyped, EventsTyped
    <2> QED BY <1>2, <2>1, <2>2, <2>8 DEF NamesInv, Named, AnswersNamed, controlVars
  <1>10. ~Present(NextId)
    BY <1>2, ForeignIdsDisjoint DEF TablesInv, AllocatedBeforeUse
  <1>11. TablesFit'
    <2>1. clientIndex' \in [ClientIds -> OrderIds \cup {NoId}]
          /\ \A d \in ClientIds : clientIndex'[d] = IF d = c THEN NextId ELSE clientIndex[d]
      BY <1>2 DEF SyncTyped, OmsTyped
    <2>2. SubmittedRow(c) \in Entry /\ SubmittedRow(c).state \in Lifecycle
          /\ SubmittedRow(c).client = c
      BY SubmittedRows DEF Lifecycle
    <2>3. PICK id, row : id = NextId /\ row = SubmittedRow(c)
      OBVIOUS
    <2>4. /\ id \in OrderIds /\ ~Present(id) /\ row \in Entry /\ row.state \in Lifecycle
          /\ row.client = c /\ orders' = [orders EXCEPT ![id] = row]
          /\ \A d \in ClientIds : clientIndex'[d] = IF d = row.client THEN id ELSE clientIndex[d]
          /\ counter' \in Nat /\ counter' >= counter /\ id <= counter' /\ id \in LocalIds
          /\ GetOrderByClientId(row.client) = NoId
      BY <1>2, <1>10, <2>1, <2>2, <2>3
    <2>5. /\ Placed(row.client)'
          /\ IF venue[row.client].id = NoId THEN id \in LocalIds
             ELSE id = OmsId(venue[row.client].id)
      BY <1>2, <1>4, <2>4 DEF Placed
    <2>6. epoch' = epoch
      BY <1>2 DEF controlVars
    <2> QED BY <1>2, <1>5, <2>1, <2>4, <2>5, <2>6, TablesEnter DEF TablesInv, TablesFit
  <1> QED BY <1>8, <1>9, <1>11 DEF TablesInv, TablesFit

\* A cancellation names the order by its row, which is of this session and of no
\* other client.
LEMMA CancelTablesStep ==
  ASSUME SyncTyped, SyncTyped', TablesInv, NEW c \in ClientIds, Cancel(c)
  PROVE  TablesInv'
  <1>1. PICK id, new : id = RowOf(c) /\ new = CanceledRow(c)
    OBVIOUS
  <1>2. /\ stage = "running" /\ initialized /\ id \in OrderIds /\ id # NoId /\ Present(id)
        /\ orders[id] \in Entry /\ orders' = [orders EXCEPT ![id] = new] /\ new \in Entry
        /\ new.client = orders[id].client /\ new.state \in OpenStates
        /\ orders[id].state \notin Terminal
        /\ UNCHANGED <<counter, clientIndex, initialized, controlVars, lane>>
    BY <1>1, CancelShape
  <1>3. orders[id].client = c /\ c # NoClient
    BY <1>1, <1>2, IdFacts DEF TablesInv, IndexConsistent, RowOf, GetOrderByClientId
  <1>4. RowMoves(id, new)
    <2>1. new.state \in Lifecycle /\ new.state \notin PreSend
      BY <1>2 DEF OpenStates, Lifecycle, PreSend
    <2> QED BY <1>2, <2>1 DEF RowMoves, RowStep
  <1>5. epoch' = epoch /\ stage' = stage /\ answers' = answers /\ lane' = lane
    BY <1>2 DEF controlVars
  <1>6. CASE UNCHANGED <<venue, wire>>
    <2>1. TablesFit' /\ counter' >= counter
      BY <1>4, <1>5, <1>6, TablesMoveOrStay
    <2>2. IdsInv'
      BY <1>5, <1>6, <2>1, IdsStay DEF TablesInv
    <2>3. NamesInv'
      BY <1>5, <1>6 DEF TablesInv, NamesInv, Named, AllNamed
    <2> QED BY <2>1, <2>2, <2>3 DEF TablesInv, TablesFit
  <1>7. CASE /\ VenueLive(c)
             /\ venue' = [venue EXCEPT ![c] = CanceledEntry(venue[c], AbsId(RowOf(c)))]
             /\ Sends(<<OrderEvent(Report(c)')>>)
    <2>1. PICK a : a = AbsId(id)
      OBVIOUS
    <2>2. venue[c] \in VenueEntry /\ EntryFits(venue[c]) /\ venue[c].status = "queued"
      BY <1>7 DEF VenueLive, SyncTyped, VenueTyped
    <2>3. venue[c].id = NoId /\ venue[c] # Unplaced
      BY <2>2 DEF EntryFits, Unplaced
    <2>4. id \in LocalIds
      BY <1>2, <1>3, <2>3 DEF TablesInv, RowsInv
    <2>5. a = epoch * MaxOrders + id /\ a \in VenueIds /\ OmsId(a) = id
      BY <1>2, <2>1, <2>4, AbsIdFacts, EpochTyped DEF SyncTyped
    <2>6. PICK w : w = CanceledEntry(venue[c], a) /\ w.id = a /\ w # Unplaced
      BY <2>2, <2>5, CanceledEntries
    <2>7. \A d \in ClientIds : venue'[d] = IF d = c THEN w ELSE venue[d]
      BY <1>1, <1>7, <2>1, <2>6 DEF SyncTyped, VenueTyped
    <2>8. a # NoId
      BY <2>5 DEF VenueIds, NoId
    <2>9. Grows(venue, venue') /\ Renames(id)
      BY <1>3, <2>3, <2>5, <2>6, <2>7, <2>8 DEF Grows, Renames
    <2>10. TablesFit'
      BY <1>4, <1>5, <2>9, TablesMove DEF TablesInv, TablesFit
    <2>11. PICK p \in Nat : p = epoch * MaxOrders
      BY Products, EpochTyped DEF SyncTyped
    <2>12. Handed = p + counter /\ Handed' = p + counter /\ counter \in Nat
      <3>1. "running" \notin Starting
        BY DEF Starting
      <3>2. counter \in Nat
        BY ConstantsAssumption DEF SyncTyped, OmsTyped
      <3> QED BY <1>2, <1>5, <2>11, <3>1, <3>2 DEF Handed
    <2>13. a <= Handed /\ a > p
      <3>1. id \notin ForeignIds
        BY <2>4, ForeignIdsDisjoint
      <3>2. id <= counter /\ id \in Nat \ {0}
        BY <1>2, <2>4, <3>1, ConstantsAssumption DEF TablesInv, AllocatedBeforeUse, LocalIds
      <3> QED BY <2>5, <2>11, <2>12, <3>2
    <2>14. \A d \in ClientIds : venue[d].id = a => d = c
      BY <1>2, <1>3, <2>5, <2>11, <2>13 DEF TablesInv, NamedRows
    <2>15. IdsInv'
      <3>1. \A d \in ClientIds : venue'[d].id <= Handed'
        BY <2>6, <2>7, <2>12, <2>13 DEF TablesInv, IdsInv
      <3>2. ASSUME NEW d \in ClientIds, NEW e \in ClientIds, venue'[d].id # NoId,
                   venue'[d].id = venue'[e].id
            PROVE  d = e
        BY <2>6, <2>7, <2>14, <3>2 DEF TablesInv, IdsInv
      <3> QED BY <3>1, <3>2 DEF IdsInv
    <2>16. AnswersNamed(venue')
      <3>1. stage \notin Starting
        BY <1>2 DEF Starting
      <3> QED BY <2>9, <3>1, AnswersGrow DEF TablesInv
    <2>17. AllNamed(lane, venue') /\ AllNamed(wire, venue')
      BY <2>9, NamesGrow DEF TablesInv, NamesInv, SyncTyped, EventsTyped
    <2>18. Placed(c)'
      BY <2>6, <2>7 DEF Placed
    <2>19. PICK r \in VenueReports : r = Report(c)' /\ NamedBy(r, venue'[r.client])
      BY <2>18, ReportsTypedLater DEF ReportsFit, Named, SyncTyped
    <2>20. OrderEvent(r) \in Events /\ OrderEvent(r).r = r
      BY EventTypes DEF OrderEvent
    <2>21. AllNamed(<<OrderEvent(r)>>, venue') /\ <<OrderEvent(r)>> \in Seq(Events)
      BY <2>19, <2>20, OneName, OneEvent
    <2>22. wire' = wire \o <<OrderEvent(r)>>
      BY <1>2, <1>7, <2>19, <2>21, SendsTyped
    <2>23. AllNamed(wire', venue')
      BY <2>17, <2>21, <2>22, NamesJoin DEF SyncTyped, EventsTyped
    <2>24. NamesInv'
      BY <1>5, <2>16, <2>17, <2>23 DEF NamesInv, Named, AnswersNamed
    <2> QED BY <2>10, <2>15, <2>24 DEF TablesInv, TablesFit
  <1> QED BY <1>6, <1>7, CancelShape

LEMMA BootTablesStep ==
  ASSUME SyncTyped, SyncTyped', TablesInv, BootInit
  PROVE  TablesInv'
  <1>1. /\ stage = "down" /\ stage' = "initiated" /\ wire' = <<>> /\ lane' = <<>>
        /\ epoch' = epoch + 1 /\ answers' = NoAnswers
        /\ orders' = [id \in OrderIds |-> Absent]
        /\ clientIndex' = [c \in ClientIds |-> NoId]
        /\ venue' = [c \in ClientIds |-> SeenEntry(venue[c])]
    BY BootShape DEF SyncTyped, AnswersTyped, TablesInv
  <1>2. NamesInv'
    BY <1>1, NoNames DEF NamesInv, NoAnswers
  <1>3. PICK p \in Nat : p = epoch * MaxOrders /\ (epoch + 1) * MaxOrders = p + MaxOrders
    BY Products, EpochTyped DEF SyncTyped
  <1>4. MaxOrders \in Nat
    BY ConstantsAssumption
  <1>5. Handed = p + MaxOrders /\ Handed' = p + MaxOrders
    BY <1>1, <1>3 DEF Handed, Starting
  <1>6. SameIds(venue, venue')
    BY <1>1, SeenEntries DEF SyncTyped, VenueTyped, SameIds
  <1>7. IdsInv'
    BY <1>3, <1>4, <1>5, <1>6, IdsKept DEF TablesInv
  <1>8. \A c \in ClientIds : ~(venue'[c].id > epoch' * MaxOrders)
    <2>1. \A c \in ClientIds : venue'[c].id = venue[c].id /\ venue[c].id \in Nat
      BY <1>6, VenueIdsTyped DEF SameIds, SyncTyped
    <2> QED BY <1>1, <1>3, <1>4, <1>5, <2>1 DEF TablesInv, IdsInv
  <1>9. TablesFit'
    BY <1>1, <1>8, TablesCleared
  <1> QED BY <1>2, <1>7, <1>9 DEF TablesInv, TablesFit

LEMMA QueryTablesStep ==
  ASSUME SyncTyped, SyncTyped', TablesInv, QuerySteps
  PROVE  TablesInv'
  <1>1. /\ stage \in Starting /\ stage' # "down"
        /\ UNCHANGED <<epoch, venueVars, bookVars, lane>>
    BY QueryShape DEF Starting
  <1>2. Grows(venue, venue') /\ SameIds(venue, venue') /\ counter' >= counter
    BY <1>1, ConstantsAssumption
       DEF Grows, SameIds, venueVars, bookVars, omsVars, SyncTyped, OmsTyped
  <1>3. TablesFit'
    BY <1>1, <1>2, TablesGrow DEF TablesInv, TablesFit, bookVars, omsVars
  <1>4. IdsInv'
    <2>1. stage # "down"
      BY <1>1 DEF Starting
    <2> QED BY <1>1, <1>2, <2>1, IdsStay DEF TablesInv, venueVars
  <1>5. AnswersNamed(venue)'
    <2>1. AnswersNamed(venue)
      BY DEF TablesInv, NamesInv, AnswersNamed, Named
    <2>2. venue' = venue /\ VenueTyped
      BY <1>1 DEF venueVars, SyncTyped
    <2>3. answers \in [orders : SUBSET VenueReports, trades : SUBSET VenueTrades,
                       rows : SUBSET Row, power : Int]
      BY DEF SyncTyped, AnswersTyped
    <2>4. PICK a, b : /\ a = {Report(c) : c \in {d \in ClientIds : venue[d] # Unplaced}}
                      /\ b = UNION {{VenueTrade(c, k) : k \in 1..venue[c].traded} :
                                    c \in ClientIds}
      OBVIOUS
    <2>5. \A r \in a : NamedBy(r, venue[r.client]) /\ r.order_id = venue[r.client].id
      <3>1. \A c \in ClientIds : Report(c).order_id = venue[c].id
        BY DEF Report
      <3> QED BY <2>2, <2>4, <3>1, ReportTyped DEF Placed, Named
    <2>6. \A r \in b : NamedBy(r, venue[r.client])
      BY <2>2, <2>4, TradesAnswerTyped DEF Named
    <2>7. \/ UNCHANGED answers \/ answers' = [answers EXCEPT !.orders = a]
          \/ answers' = [answers EXCEPT !.trades = b]
          \/ answers' = [answers EXCEPT !.rows = VenueRows]
          \/ answers' = [answers EXCEPT !.power = VenueCash]
      BY <2>4, QueryShape
    <2>8. answers'.orders \in {answers.orders, a} /\ answers'.trades \in {answers.trades, b}
      BY <2>3, <2>7
    <2> QED BY <1>1, <2>1, <2>2, <2>5, <2>6, <2>8 DEF AnswersNamed
  <1>6. NamesInv'
    <2>1. venue' = venue /\ lane' = lane /\ wire' = wire
      BY <1>1 DEF venueVars
    <2> QED BY <1>5, <2>1 DEF TablesInv, NamesInv, AnswersNamed, Named, AllNamed
  <1> QED BY <1>3, <1>4, <1>6 DEF TablesInv, TablesFit

\* An adopted row is new: its identifier is another session's or the next one.
LEMMA TablesAdopt ==
  ASSUME SyncTyped, TablesInv, venue' = venue, epoch' = epoch, stage = "apply",
         NEW r \in VenueReports, Named(r), r.order_id = venue[r.client].id,
         NEW o \in OrderReport, o = OmsReport(r),
         Find(o.order_id, o.client) = NoId, NEW id, RowEnters(id, o)
  PROVE  TablesFit' /\ counter' >= counter
  <1>1. /\ id \in OrderIds /\ id = IF o.order_id = NoId THEN NextId ELSE o.order_id
        /\ o.order_id = NoId => NextId \in LocalIds
        /\ orders' = [orders EXCEPT ![id] = AdoptedEntry(o)]
        /\ clientIndex' = [c \in ClientIds |-> IF c = o.client THEN id ELSE clientIndex[c]]
        /\ counter' = IF o.order_id = NoId THEN NextId ELSE counter
    BY DEF RowEnters
  <1>0. initialized
    <2>1. initialized = (stage # "down")
      BY DEF SyncTyped, ControlTyped
    <2> QED BY <2>1
  <1>2. /\ counter \in Nat /\ NextId = counter + 1 /\ initialized
        /\ clientIndex \in [ClientIds -> OrderIds \cup {NoId}]
    BY <1>0, ConstantsAssumption DEF NextId, SyncTyped, OmsTyped
  <1>3. ~Present(o.order_id) /\ GetOrderByClientId(o.client) = NoId
    BY FindTyped DEF SyncTyped
  <1>4. r.client \in ClientIds /\ venue[r.client] # Unplaced
        /\ r.order_id \in VenueIds \cup {NoId}
    BY DEF VenueReports, Named, NamedBy
  <1>5. o.client = r.client /\ o.order_id = OmsId(r.order_id)
    BY OmsReportTyped, EpochTyped DEF SyncTyped
  <1>6. r.order_id <= epoch * MaxOrders
    <2>1. stage # "down" /\ stage \in Starting
      BY DEF Starting
    <2> QED BY <1>4, <2>1 DEF TablesInv, IdsInv, Handed
  <1>7. o.order_id = NoId <=> r.order_id = NoId
    BY <1>4, <1>5, OmsIdFacts, EpochTyped DEF SyncTyped
  <1>8. o.order_id # NoId => o.order_id \in ForeignIds
    BY <1>4, <1>5, <1>6, <1>7, OmsIdFacts, EpochTyped DEF SyncTyped
  <1>9. ~Present(id) /\ (id \in ForeignIds \/ id <= counter') /\ counter' \in Nat
        /\ counter' >= counter
    <2>1. CASE o.order_id = NoId
      <3>1. id = NextId /\ id \in LocalIds /\ counter' = NextId
        BY <1>1, <2>1
      <3>2. id \notin ForeignIds /\ ~(id <= counter)
        BY <1>2, <3>1, ForeignIdsDisjoint
      <3>3. ~Present(id)
        BY <1>1, <3>2 DEF TablesInv, AllocatedBeforeUse
      <3> QED BY <1>2, <3>1, <3>3
    <2>2. CASE o.order_id # NoId
      BY <1>1, <1>2, <1>3, <1>8, <2>2
    <2> QED BY <2>1, <2>2
  <1>10. IF venue[o.client].id = NoId THEN id \in LocalIds ELSE id = OmsId(venue[o.client].id)
    BY <1>1, <1>5, <1>7
  <1>11. PICK row : row = AdoptedEntry(o)
    OBVIOUS
  <1>12. row \in Entry /\ row.state \in Lifecycle /\ row.client = o.client
         /\ row.client \in ClientIds
    BY <1>4, <1>5, <1>11, AdoptedRow
  <1>13. clientIndex' \in [ClientIds -> OrderIds \cup {NoId}]
         /\ \A c \in ClientIds : clientIndex'[c] = IF c = row.client THEN id ELSE clientIndex[c]
    BY <1>1, <1>2, <1>12
  <1>14. Placed(row.client)' /\ Grows(venue, venue') /\ SameIds(venue, venue')
    BY <1>4, <1>5, <1>12 DEF Placed, Grows, SameIds
  <1>15. TablesFit /\ orders' = [orders EXCEPT ![id] = row]
         /\ GetOrderByClientId(row.client) = NoId
         /\ IF venue[row.client].id = NoId THEN id \in LocalIds
            ELSE id = OmsId(venue[row.client].id)
    BY <1>1, <1>3, <1>10, <1>11, <1>12 DEF TablesInv, TablesFit
  <1>16. /\ id \in OrderIds /\ ~Present(id) /\ row \in Entry /\ row.state \in Lifecycle
         /\ row.client \in ClientIds /\ counter' \in Nat /\ counter' >= counter
         /\ (id \in ForeignIds \/ id <= counter')
    BY <1>1, <1>9, <1>12
  <1>17. TablesFit'
    BY <1>2, <1>13, <1>14, <1>15, <1>16, TablesEnter
  <1> QED BY <1>9, <1>17

LEMMA SyncOrderTablesStep ==
  ASSUME SyncTyped, SyncTyped', TablesInv, SyncOrder
  PROVE  TablesInv'
  <1>1. PICK r \in answers.orders :
           LET o  == OmsReport(r)
               id == Find(o.order_id, o.client)
           IN /\ r \in VenueReports /\ o \in OrderReport /\ stage = "apply"
              /\ \/ id # NoId /\ ~MergeLegal(orders[id], o)
                    /\ UNCHANGED <<initialized, counter, orders, clientIndex>>
                 \/ id # NoId /\ MergeLegal(orders[id], o) /\ RowMoves(id, Merged(orders[id], o))
                 \/ id = NoId /\ \E new \in OrderIds : RowEnters(new, o)
              /\ answers' = [answers EXCEPT !.orders = @ \ {r}]
              /\ UNCHANGED <<stage, epoch, venueVars, lane>>
    BY SyncOrderShape
  <1>2. Named(r) /\ venue' = venue /\ stage = "apply" /\ epoch' = epoch /\ stage' = stage
        /\ UNCHANGED <<lane, wire>> /\ r \in VenueReports /\ r.order_id = venue[r.client].id
    BY <1>1 DEF TablesInv, NamesInv, venueVars, Starting
  <1>3. TablesFit' /\ counter' >= counter
    <2>1. PICK o \in OrderReport : o = OmsReport(r)
      BY <1>1
    <2>2. CASE \/ UNCHANGED <<initialized, counter, orders, clientIndex>>
               \/ \E id, new : RowMoves(id, new)
      BY <1>2, <2>2, TablesMoveOrStay
    <2>3. CASE Find(o.order_id, o.client) = NoId /\ \E new \in OrderIds : RowEnters(new, o)
      BY <1>2, <2>1, <2>3, TablesAdopt
    <2> QED BY <1>1, <2>1, <2>2, <2>3
  <1>4. IdsInv'
    BY <1>2, <1>3, IdsStay DEF TablesInv
  <1>5. NamesInv'
    <2>1. answers'.orders \subseteq answers.orders /\ answers'.trades = answers.trades
      <3>1. answers \in [orders : SUBSET VenueReports, trades : SUBSET VenueTrades,
                         rows : SUBSET Row, power : Int]
        BY DEF SyncTyped, AnswersTyped
      <3> QED BY <1>1, <3>1
    <2> QED BY <1>2, <2>1 DEF TablesInv, NamesInv, Named, AllNamed
  <1> QED BY <1>3, <1>4, <1>5 DEF TablesInv, TablesFit

LEMMA SyncTradeTablesStep ==
  ASSUME SyncTyped, SyncTyped', TablesInv, SyncTrade
  PROVE  TablesInv'
  <1>1. /\ UNCHANGED <<stage, epoch, venueVars, lane>>
        /\ answers'.orders = answers.orders /\ answers'.trades \subseteq answers.trades
        /\ \/ UNCHANGED <<initialized, counter, clientIndex, orders>>
           \/ \E id, new : RowMoves(id, new)
    <2>1. answers \in [orders : SUBSET VenueReports, trades : SUBSET VenueTrades,
                       rows : SUBSET Row, power : Int]
      BY DEF SyncTyped, AnswersTyped
    <2> QED BY <2>1, SyncTradeShape DEF omsVars
  <1>2. TablesFit' /\ counter' >= counter
    BY <1>1, TablesMoveOrStay DEF venueVars
  <1>3. IdsInv'
    BY <1>1, <1>2, IdsStay DEF TablesInv, venueVars
  <1>4. NamesInv'
    BY <1>1 DEF TablesInv, NamesInv, Named, AllNamed, venueVars
  <1> QED BY <1>2, <1>3, <1>4 DEF TablesInv, TablesFit

LEMMA EndsTablesStep ==
  ASSUME SyncTyped, SyncTyped', TablesInv,
         SyncBooks \/ StartEngineModules \/ StopRunning \/ Release
  PROVE  TablesInv'
  <1>1. CASE Release
    <2>1. /\ stage = "stopping" /\ stage' = "down" /\ wire' = <<>> /\ lane' = <<>>
          /\ answers' = NoAnswers /\ venue' = venue /\ epoch' = epoch /\ counter' = counter
          /\ orders' = [id \in OrderIds |-> Absent]
          /\ clientIndex' = [c \in ClientIds |-> NoId] /\ ~initialized'
      BY <1>1 DEF Release, At, Shutdown, ClearTables
    <2>2. TablesFit' /\ NamesInv'
      BY <2>1, TablesCleared, NoNames DEF NamesInv, NoAnswers, Starting
    <2>3. IdsInv'
      <3>1. counter' >= counter /\ "down" \notin Starting
        BY <2>1, ConstantsAssumption DEF SyncTyped, OmsTyped, Starting
      <3> QED BY <2>1, <3>1, IdsStay DEF TablesInv
    <2> QED BY <2>2, <2>3 DEF TablesInv, TablesFit
  <1>2. CASE SyncBooks \/ StartEngineModules \/ StopRunning
    <2>1. /\ UNCHANGED <<epoch, venueVars, omsVars, lane>>
          /\ (answers' = answers \/ answers' = NoAnswers)
          /\ stage # "down" /\ stage' # "down" /\ (stage' \in Starting => stage \in Starting)
      BY <1>2 DEF SyncBooks, StartEngineModules, StopRunning, At, Starting, bookVars
    <2>2. Grows(venue, venue') /\ SameIds(venue, venue') /\ counter' >= counter
      BY <2>1, ConstantsAssumption DEF Grows, SameIds, venueVars, omsVars, SyncTyped, OmsTyped
    <2>3. TablesFit'
      BY <2>1, <2>2, TablesGrow DEF TablesInv, TablesFit, omsVars
    <2>4. IdsInv'
      BY <2>1, <2>2, IdsStay DEF TablesInv, venueVars
    <2>5. NamesInv'
      BY <2>1 DEF TablesInv, NamesInv, Named, AllNamed, venueVars, NoAnswers
    <2> QED BY <2>3, <2>4, <2>5 DEF TablesInv, TablesFit
  <1> QED BY <1>1, <1>2

LEMMA TablesStep ==
  ASSUME SyncTyped, SyncTyped', TablesInv, [SyncNext]_syncVars
  PROVE  TablesInv'
  <1>1. CASE UNCHANGED syncVars
    <2>1. UNCHANGED <<stage, epoch, venue, wire, lane, answers, initialized, counter, orders,
                      clientIndex>>
      BY <1>1 DEF syncVars, controlVars, venueVars, bookVars, omsVars
    <2>2. Grows(venue, venue') /\ SameIds(venue, venue')
      BY <2>1 DEF Grows, SameIds
    <2>3. TablesFit'
      BY <2>1, <2>2, TablesGrow DEF TablesInv, TablesFit
    <2>4. IdsInv' /\ NamesInv'
      BY <2>1 DEF TablesInv, IdsInv, NamesInv, Placed, Handed, Starting, Named, AllNamed
    <2> QED BY <2>3, <2>4 DEF TablesInv, TablesFit
  <1>2. CASE SyncNext
    <2>1. QuerySteps => TablesInv'
      BY QueryTablesStep
    <2> QED BY <1>2, <2>1, VenueTablesStep, CallbackTablesStep, HandleTablesStep,
               SubmitTablesStep, CancelTablesStep, BootTablesStep, SyncOrderTablesStep,
               SyncTradeTablesStep, EndsTablesStep
            DEF SyncNext, Calls, Control, QuerySteps
  <1> QED BY <1>1, <1>2

LEMMA TablesInitially ==
  ASSUME SyncInit, EpochAdvances
  PROVE  TablesInv
  <1>1. /\ stage = "down" /\ epoch = 0 /\ answers = NoAnswers /\ wire = <<>> /\ lane = <<>>
        /\ Init
    BY Zenon DEF SyncInit
  <1>2. \A c \in ClientIds : venue[c].id = NoId
    BY InitialVenue
  <1>3. IdsInv /\ NamedRows
    <2>1. MaxOrders \in Nat \ {0}
      BY ConstantsAssumption, SyncAssumption
    <2>2. Handed = MaxOrders /\ initialized = FALSE
      <3>1. 0 * MaxOrders + MaxOrders = MaxOrders
        BY <2>1
      <3> QED BY <1>1, <3>1 DEF Handed, Starting, Init
    <2> QED BY <1>2, <2>1, <2>2 DEF IdsInv, NamedRows, NoId
  <1>4. NamesInv
    BY <1>1, NoNames DEF NamesInv, NoAnswers, Starting
  <1>5. /\ orders = [id \in OrderIds |-> Absent] /\ clientIndex = [c \in ClientIds |-> NoId]
    BY <1>1 DEF Init, EmptyTables
  <1>6. RowsInv /\ IndexConsistent /\ AllocatedBeforeUse /\ AbsentOwnsNothing
    <2>1. \A id \in OrderIds : ~Present(id) /\ orders[id].client = NoClient
      BY <1>5 DEF Present, Absent
    <2> QED BY <1>5, <2>1 DEF RowsInv, IndexConsistent, AllocatedBeforeUse, AbsentOwnsNothing
  <1> QED BY <1>3, <1>4, <1>6 DEF TablesInv

SyncAndTables == SyncTyped /\ TablesInv

LEMMA TablesInvariant ==
  ASSUME EpochAdvances
  PROVE  SyncSpec => []SyncAndTables
  <1>1. SyncInit => SyncAndTables
    BY TypedInitially, TablesInitially DEF SyncAndTables
  <1>2. SyncAndTables /\ [SyncNext]_syncVars => SyncAndTables'
    BY TypedStep, TablesStep DEF SyncAndTables
  <1> QED BY <1>1, <1>2, PTL DEF SyncSpec

-----------------------------------------------------------------------------
(* What follows from the tables.                                           *)

\* A row that moves or stays keeps its client.
LEMMA ClientsStay ==
  ASSUME SyncTyped,
         \/ UNCHANGED <<initialized, counter, clientIndex, orders>>
         \/ \E id, new : RowMoves(id, new)
  PROVE  \A id \in OrderIds : orders'[id].client = orders[id].client
  BY DEF RowMoves, RowStep, SyncTyped, OmsTyped

RowsKeepClients ==
  \A id \in OrderIds : initialized /\ initialized' /\ Present(id) =>
    orders'[id].client = orders[id].client

LEMMA ClientStep ==
  ASSUME SyncTyped, SyncTyped', TablesInv, [SyncNext]_syncVars
  PROVE  RowsKeepClients
  <1>1. CASE UNCHANGED orders
    BY <1>1 DEF RowsKeepClients
  <1>2. CASE Venue \/ Callback \/ QuerySteps \/ SyncBooks \/ StartEngineModules \/ StopRunning
    <2>1. QuerySteps => UNCHANGED orders
      BY QueryShape DEF bookVars, omsVars
    <2>2. UNCHANGED orders
      BY <1>2, <2>1 DEF Venue, VenueFill, VenueCancel, VenueRepeat, VenueActs, Callback,
                        SyncBooks, StartEngineModules, StopRunning, bookVars, omsVars
    <2> QED BY <1>1, <2>2
  <1>3. CASE Handle \/ SyncTrade
    <2>1. UNCHANGED omsVars => UNCHANGED <<initialized, counter, clientIndex, orders>>
      BY DEF omsVars
    <2> QED BY <1>3, <2>1, HandleShape, SyncTradeShape, ClientsStay DEF RowsKeepClients
  <1>4. ASSUME NEW c \in ClientIds, SubmitOrder(c)
        PROVE  RowsKeepClients
    <2>1. ~Present(NextId)
      <3>1. /\ NextId \in LocalIds /\ NextId \in OrderIds /\ counter \in Nat
            /\ NextId = counter + 1
        BY <1>4, SubmitShape
      <3>2. NextId \notin ForeignIds /\ ~(NextId <= counter)
        BY <3>1, ForeignIdsDisjoint
      <3> QED BY <3>1, <3>2 DEF TablesInv, AllocatedBeforeUse
    <2> QED BY <1>4, <2>1, SubmitShape DEF RowsKeepClients, SyncTyped, OmsTyped
  <1>8. ASSUME NEW c \in ClientIds, Cancel(c)
        PROVE  RowsKeepClients
    BY <1>8, CancelShape DEF RowsKeepClients, SyncTyped, OmsTyped
  <1>5. CASE SyncOrder
    <2>1. PICK r \in answers.orders :
            LET o  == OmsReport(r)
                id == Find(o.order_id, o.client)
            IN /\ r \in VenueReports /\ o \in OrderReport /\ stage = "apply"
               /\ \/ id # NoId /\ ~MergeLegal(orders[id], o)
                     /\ UNCHANGED <<initialized, counter, orders, clientIndex>>
                  \/ id # NoId /\ MergeLegal(orders[id], o) /\ RowMoves(id, Merged(orders[id], o))
                  \/ id = NoId /\ \E new \in OrderIds : RowEnters(new, o)
      BY <1>5, SyncOrderShape
    <2>2. PICK o \in OrderReport : o = OmsReport(r)
      BY <2>1
    <2>3. CASE \/ UNCHANGED <<initialized, counter, orders, clientIndex>>
               \/ \E id, new : RowMoves(id, new)
      BY <2>3, ClientsStay DEF RowsKeepClients
    <2>4. CASE Find(o.order_id, o.client) = NoId /\ \E new \in OrderIds : RowEnters(new, o)
      <3>1. PICK new \in OrderIds : RowEnters(new, o)
        BY <2>4
      <3>2. ~Present(new)
        <4>1. CASE o.order_id = NoId
          <5>1. new = NextId /\ NextId \in LocalIds /\ counter \in Nat /\ NextId = counter + 1
            BY <3>1, <4>1, ConstantsAssumption DEF RowEnters, NextId, SyncTyped, OmsTyped
          <5>2. new \notin ForeignIds /\ ~(new <= counter)
            BY <5>1, ForeignIdsDisjoint
          <5> QED BY <5>2 DEF TablesInv, AllocatedBeforeUse
        <4>2. CASE o.order_id # NoId
          <5>1. new = o.order_id
            BY <3>1, <4>2 DEF RowEnters
          <5> QED BY <2>4, <5>1, FindTyped DEF SyncTyped
        <4> QED BY <4>1, <4>2
      <3>3. \A j \in OrderIds : j # new => orders'[j] = orders[j]
        BY <3>1 DEF RowEnters, SyncTyped, OmsTyped
      <3> QED BY <3>2, <3>3 DEF RowsKeepClients
    <2> QED BY <2>1, <2>2, <2>3, <2>4
  <1>6. CASE BootInit \/ Release
    <2>1. ~initialized \/ ~initialized'
      BY <1>6 DEF BootInit, Release, Initialize, Shutdown
    <2> QED BY <2>1 DEF RowsKeepClients
  <1>7. UNCHANGED syncVars => UNCHANGED orders
    BY DEF syncVars, bookVars, omsVars
  <1> QED BY <1>1, <1>2, <1>3, <1>4, <1>5, <1>6, <1>7, <1>8
          DEF SyncNext, Calls, Control, QuerySteps

\* Within a session no row of the OMS ever passes to another client's order, if
\* no two starts share an epoch: an adopted identifier is of an earlier session
\* and a new one beyond all that were handed out.
THEOREM RowsNeverChangeClient ==
  ASSUME EpochAdvances
  PROVE  SyncSpec => RowKeepsItsClient
  <1>1. SyncAndTables /\ [SyncNext]_syncVars => RowsKeepClients
    BY TypedStep, ClientStep DEF SyncAndTables
  <1>2. RowsKeepClients =>
          [\A id \in OrderIds : initialized /\ initialized' /\ Present(id) =>
             orders'[id].client = orders[id].client]_syncVars
    BY DEF RowsKeepClients
  <1> QED BY <1>1, <1>2, TablesInvariant, PTL DEF SyncSpec, RowKeepsItsClient

\* Under the same condition the client index and the table agree in both
\* directions, across adoption, submission and every report of the venue.
THEOREM TablesAgreeInSync ==
  ASSUME EpochAdvances
  PROVE  SyncSpec => []IndexConsistent
  <1>1. SyncAndTables => IndexConsistent
    BY DEF SyncAndTables, TablesInv
  <1> QED BY <1>1, TablesInvariant, PTL

-----------------------------------------------------------------------------
(* The keys of trades.                                                     *)

LEMMA NumbersDiffer ==
  ASSUME NEW n \in Nat \ {0}, NEW c \in Nat, NEW d \in Nat, NEW k \in 1..n, NEW j \in 1..n,
         c * n + k = d * n + j
  PROVE  c = d
  <1>1. ASSUME NEW a \in Nat, NEW b \in Nat, a < b
        PROVE  a * n + n <= b * n
    <2>1. PICK m \in Nat : b = a + 1 + m
      <3>1. b - a - 1 \in Nat
        BY <1>1
      <3> QED BY <1>1, <3>1
    <2>2. b * n = a * n + n + m * n
      BY <2>1
    <2>3. m * n \in Nat /\ a * n \in Nat
      OBVIOUS
    <2> QED BY <2>2, <2>3
  <1>2. PICK p \in Nat, q \in Nat : p = c * n /\ q = d * n
    OBVIOUS
  <1>3. c < d => p + n <= q
    BY <1>1, <1>2
  <1>4. d < c => q + n <= p
    BY <1>1, <1>2
  <1>5. p + k = q + j
    BY <1>2
  <1> QED BY <1>3, <1>4, <1>5

LEMMA KeyValue ==
  ASSUME NEW c \in ClientIds, NEW k \in 1..OrderVolume
  PROVE  /\ VenueNumbersTrades => TradeKey(c, k) = <<c * OrderVolume + k>>
         /\ ~VenueNumbersTrades => TradeKey(c, k) = <<NoId, c, k, TheInstrument>>
  <1>1. c \in Nat /\ OrderVolume \in Nat \ {0} /\ k \in Nat \ {0}
    BY SyncAssumption, ConstantsAssumption
  <1>2. c * OrderVolume \in Nat
    BY <1>1
  <1>3. c * OrderVolume + k # 0
    BY <1>1, <1>2
  <1> QED BY <1>3 DEF TradeKey, GenerateTradeDedupKey, VenueTrade

\* No two trades of the venue share a key, numbered by the exchange or not.
KeysDiffer ==
  \A c, d \in ClientIds : \A k, j \in 1..OrderVolume : TradeKey(c, k) = TradeKey(d, j) => c = d /\ k = j

LEMMA KeysAlwaysDiffer == KeysDiffer
  <1> SUFFICES ASSUME NEW c \in ClientIds, NEW d \in ClientIds, NEW k \in 1..OrderVolume,
                      NEW j \in 1..OrderVolume, TradeKey(c, k) = TradeKey(d, j)
               PROVE  c = d /\ k = j
    BY DEF KeysDiffer
  <1>1. c \in Nat /\ d \in Nat /\ OrderVolume \in Nat \ {0}
    BY SyncAssumption, ConstantsAssumption
  <1>2. CASE VenueNumbersTrades
    <2>1. c * OrderVolume + k = d * OrderVolume + j
      BY <1>2, KeyValue
    <2>2. c = d
      BY <1>1, <2>1, NumbersDiffer
    <2> QED BY <1>1, <2>1, <2>2
  <1>3. CASE ~VenueNumbersTrades
    BY <1>3, KeyValue
  <1> QED BY <1>2, <1>3

-----------------------------------------------------------------------------
(* Events under way: what taking the first and adding one last change.     *)

LEMMA LevelTyped ==
  ASSUME NEW e \in Events
  PROVE  /\ Level(e) \in 0..OrderVolume /\ OrderVolume \in Nat \ {0}
         /\ e.type = "order" => Level(e) = e.r.traded
         /\ e.type = "trade" => Level(e) = e.r.report_index /\ Level(e) # 0
         /\ e.type \in {"order", "trade"} /\ e.r.client \in ClientIds
  <1>1. OrderVolume \in Nat \ {0}
    BY SyncAssumption
  <1>2. CASE e.type = "order" /\ e.r \in VenueReports
    BY <1>1, <1>2 DEF Level, VenueReports
  <1>3. CASE e.type = "trade" /\ e.r \in VenueTrades
    BY <1>1, <1>3 DEF Level, VenueTrades
  <1> QED BY <1>2, <1>3, EventTypes

LEMMA AboutTyped ==
  ASSUME NEW q \in Seq(Events), NEW c, NEW i \in About(q, c)
  PROVE  i \in Nat /\ i >= 1 /\ i \in 1..Len(q) /\ q[i] \in Events /\ q[i].r.client = c
  BY LenProperties, ElementOfSeq DEF About

LEMMA AboutTail ==
  ASSUME NEW q \in Seq(Events), q # <<>>, NEW c
  PROVE  /\ Tail(q) \in Seq(Events)
         /\ \A i \in About(Tail(q), c) :
              i \in Nat /\ i >= 1 /\ i + 1 \in About(q, c) /\ Tail(q)[i] = q[i + 1]
         /\ \A i \in About(q, c) : i \in Nat /\ i >= 1 /\
              (i > 1 => i - 1 \in About(Tail(q), c) /\ Tail(q)[i - 1] = q[i])
  <1>1. /\ Len(Tail(q)) = Len(q) - 1 /\ Len(q) \in Nat \ {0} /\ Tail(q) \in Seq(Events)
        /\ \A i \in 1..Len(Tail(q)) : Tail(q)[i] = q[i + 1]
    BY Ends
  <1>2. PICK t : t = Tail(q)
    OBVIOUS
  <1>n. PICK n \in Nat \ {0} : n = Len(q)
    BY <1>1
  <1>3. Len(t) = n - 1 /\ \A i \in 1..(n - 1) : t[i] = q[i + 1]
    BY <1>1, <1>2, <1>n
  <1>4. ASSUME NEW i \in About(t, c)
        PROVE  i \in Nat /\ i >= 1 /\ i + 1 \in About(q, c) /\ t[i] = q[i + 1]
    <2>1. i \in 1..(n - 1) /\ t[i].r.client = c
      BY <1>3, <1>4 DEF About
    <2>2. t[i] = q[i + 1] /\ i + 1 \in 1..n
      BY <1>3, <2>1
    <2> QED BY <1>2, <1>n, <2>1, <2>2 DEF About
  <1>5. ASSUME NEW i \in About(q, c)
        PROVE  i \in Nat /\ i >= 1 /\ (i > 1 => i - 1 \in About(t, c) /\ t[i - 1] = q[i])
    <2>1. i \in 1..n /\ q[i].r.client = c
      BY <1>2, <1>n, <1>5 DEF About
    <2>2. ASSUME i > 1
          PROVE  i - 1 \in About(t, c) /\ t[i - 1] = q[i]
      <3>1. i - 1 \in 1..(n - 1) /\ (i - 1) + 1 = i
        BY <2>1, <2>2
      <3>2. t[i - 1] = q[i]
        BY <1>3, <3>1
      <3> QED BY <1>3, <2>1, <3>1, <3>2 DEF About
    <2> QED BY <2>1, <2>2
  <1> QED BY <1>1, <1>2, <1>n, <1>4, <1>5

LEMMA AboutAppend ==
  ASSUME NEW q \in Seq(Events), NEW x \in Events, NEW c
  PROVE  /\ Append(q, x) \in Seq(Events) /\ Len(q) \in Nat
         /\ Append(q, x)[Len(q) + 1] = x
         /\ \A i \in About(q, c) : i \in About(Append(q, x), c) /\ Append(q, x)[i] = q[i]
                                   /\ i \in Nat /\ i >= 1 /\ i <= Len(q)
         /\ \A i \in About(Append(q, x), c) :
              i \in About(q, c) \/ (i = Len(q) + 1 /\ x.r.client = c)
         /\ x.r.client = c => Len(q) + 1 \in About(Append(q, x), c)
  <1>1. /\ Append(q, x) \in Seq(Events) /\ Len(Append(q, x)) = Len(q) + 1 /\ Len(q) \in Nat
        /\ \A i \in 1..Len(q) : Append(q, x)[i] = q[i]
        /\ Append(q, x)[Len(q) + 1] = x
    BY AppendProperties, LenProperties
  <1>2. PICK p : p = Append(q, x)
    OBVIOUS
  <1>n. PICK n \in Nat : n = Len(q)
    BY <1>1
  <1>3. Len(p) = n + 1 /\ p[n + 1] = x /\ \A i \in 1..n : p[i] = q[i]
    BY <1>1, <1>2, <1>n
  <1>4. ASSUME NEW i \in About(q, c)
        PROVE  i \in About(p, c) /\ p[i] = q[i] /\ i \in Nat /\ i >= 1 /\ i <= n
    <2>1. i \in 1..n /\ q[i].r.client = c
      BY <1>2, <1>n, <1>4 DEF About
    <2>2. p[i] = q[i] /\ i \in 1..(n + 1)
      BY <1>3, <2>1
    <2> QED BY <1>3, <2>1, <2>2 DEF About
  <1>5. ASSUME NEW i \in About(p, c)
        PROVE  i \in About(q, c) \/ (i = n + 1 /\ x.r.client = c)
    <2>1. i \in 1..(n + 1) /\ p[i].r.client = c
      BY <1>3, <1>5 DEF About
    <2>2. CASE i = n + 1
      BY <1>3, <2>1, <2>2
    <2>3. CASE i # n + 1
      <3>1. i \in 1..n
        BY <2>1, <2>3
      <3> QED BY <1>2, <1>n, <1>3, <2>1, <3>1 DEF About
    <2> QED BY <2>2, <2>3
  <1>6. x.r.client = c => n + 1 \in About(p, c)
    BY <1>3 DEF About
  <1> QED BY <1>1, <1>2, <1>n, <1>3, <1>4, <1>5, <1>6

\* What comes after the first event is under way when that has left.
LEMMA ComingShifts ==
  ASSUME NEW q \in Seq(Events), q # <<>>, NEW c, NEW m, NEW n, NEW p \in Nat,
         Coming(q, c, m, n, p + 1)
  PROVE  Coming(Tail(q), c, m, n, p)
  <1> SUFFICES ASSUME NEW k \in (m + 1)..n
               PROVE  \E i \in About(Tail(q), c) :
                        i > p /\ Tail(q)[i].type = "trade" /\ Tail(q)[i].r.report_index = k
    BY DEF Coming
  <1>1. PICK i \in About(q, c) : i > p + 1 /\ q[i].type = "trade" /\ q[i].r.report_index = k
    BY DEF Coming
  <1>2. i \in Nat /\ i > 1
    BY <1>1, AboutTyped
  <1>3. i - 1 \in About(Tail(q), c) /\ Tail(q)[i - 1] = q[i]
    BY <1>2, AboutTail
  <1>4. i - 1 > p
    BY <1>1, <1>2
  <1> QED BY <1>1, <1>3, <1>4

\* The first event is not among those to come.
LEMMA ComingLater ==
  ASSUME NEW q \in Seq(Events), q # <<>>, NEW c, NEW m, NEW n, Coming(q, c, m, n, 0),
         q[1].r.client # c \/ q[1].type # "trade" \/ q[1].r.report_index \notin (m + 1)..n
  PROVE  Coming(Tail(q), c, m, n, 0)
  <1>1. Coming(q, c, m, n, 0 + 1)
    <2> SUFFICES ASSUME NEW k \in (m + 1)..n
                 PROVE  \E i \in About(q, c) :
                          i > 0 + 1 /\ q[i].type = "trade" /\ q[i].r.report_index = k
      BY DEF Coming
    <2>1. PICK i \in About(q, c) : i > 0 /\ q[i].type = "trade" /\ q[i].r.report_index = k
      BY DEF Coming
    <2>2. i # 1 /\ i \in Nat
      BY <2>1, AboutTyped
    <2>3. i > 0 + 1
      BY <2>2, <2>1
    <2> QED BY <2>1, <2>3
  <1> QED BY <1>1, ComingShifts

\* What is to come stays under way when an event joins, and a trade that is
\* the next one joins what is to come.
LEMMA ComingStays ==
  ASSUME NEW q \in Seq(Events), NEW x \in Events, NEW c, NEW m, NEW n, NEW p,
         Coming(q, c, m, n, p)
  PROVE  Coming(Append(q, x), c, m, n, p)
  <1> SUFFICES ASSUME NEW k \in (m + 1)..n
               PROVE  \E i \in About(Append(q, x), c) :
                        i > p /\ Append(q, x)[i].type = "trade"
                        /\ Append(q, x)[i].r.report_index = k
    BY DEF Coming
  <1>1. PICK i \in About(q, c) : i > p /\ q[i].type = "trade" /\ q[i].r.report_index = k
    BY DEF Coming
  <1>2. i \in About(Append(q, x), c) /\ Append(q, x)[i] = q[i]
    BY AboutAppend
  <1> QED BY <1>1, <1>2

LEMMA ComingGrows ==
  ASSUME NEW q \in Seq(Events), NEW x \in Events, NEW c, NEW m \in Nat, NEW n \in Nat,
         NEW p \in Nat, p <= Len(q), Coming(q, c, m, n, p),
         x.r.client = c, x.type = "trade", x.r.report_index = n + 1
  PROVE  Coming(Append(q, x), c, m, n + 1, p)
  <1> SUFFICES ASSUME NEW k \in (m + 1)..(n + 1)
               PROVE  \E i \in About(Append(q, x), c) :
                        i > p /\ Append(q, x)[i].type = "trade"
                        /\ Append(q, x)[i].r.report_index = k
    BY DEF Coming
  <1>1. CASE k \in (m + 1)..n
    <2>1. Coming(Append(q, x), c, m, n, p)
      BY ComingStays
    <2> QED BY <1>1, <2>1 DEF Coming
  <1>2. CASE k \notin (m + 1)..n
    <2>1. k = n + 1
      BY <1>2
    <2>2. Len(q) + 1 \in About(Append(q, x), c) /\ Append(q, x)[Len(q) + 1] = x /\ Len(q) \in Nat
      BY <2>1, AboutAppend
    <2>3. Len(q) + 1 > p
      BY <2>2
    <2> QED BY <2>1, <2>2, <2>3
  <1> QED BY <1>1, <1>2

LEMMA QueueTail ==
  ASSUME NEW q \in Seq(Events), q # <<>>, NEW c, NEW v, QueueFits(q, c, v)
  PROVE  QueueFits(Tail(q), c, v)
  <1>1. PICK t : t = Tail(q)
    OBVIOUS
  <1>2. \A i \in About(t, c) : i \in Nat /\ i >= 1 /\ i + 1 \in About(q, c) /\ t[i] = q[i + 1]
    BY <1>1, AboutTail
  <1>3. \A i \in About(t, c) : EventFits(t[i], v)
    BY <1>2 DEF QueueFits
  <1>4. ASSUME NEW i \in About(t, c), NEW j \in About(t, c), i <= j
        PROVE  Level(t[i]) <= Level(t[j])
    <2>1. i + 1 <= j + 1
      BY <1>2, <1>4
    <2> QED BY <1>2, <2>1 DEF QueueFits
  <1>5. ASSUME NEW i \in About(t, c), t[i].type = "order"
        PROVE  Coming(t, c, t[i].r.traded, v.traded, i)
    <2>1. Coming(q, c, t[i].r.traded, v.traded, i + 1)
      BY <1>2, <1>5 DEF QueueFits
    <2> QED BY <1>1, <1>2, <2>1, ComingShifts
  <1>6. ASSUME NEW i \in About(t, c), NEW j \in About(t, c), Says(t[i], "New")
        PROVE  i <= j
    <2>1. i + 1 <= j + 1
      BY <1>2, <1>6 DEF QueueFits
    <2> QED BY <1>2, <2>1
  <1>7. QueueFits(t, c, v)
    BY <1>3, <1>4, <1>5, <1>6 DEF QueueFits
  <1> QED BY <1>1, <1>7

\* An event about another order leaves.
LEMMA OtherLeaves ==
  ASSUME NEW q \in Seq(Events), q # <<>>, NEW c, NEW e, NEW v, NEW a, NEW b,
         ClientFits(q, c, e, v, a), q[1].r.client # c,
         \A k \in 1..OrderVolume : TradeKey(c, k) \in b => TradeKey(c, k) \in a
  PROVE  ClientFits(Tail(q), c, e, v, b)
  <1>1. QueueFits(Tail(q), c, v)
    BY QueueTail DEF ClientFits
  <1>2. PICK t : t = Tail(q)
    OBVIOUS
  <1>3. /\ \A i \in About(t, c) : i + 1 \in About(q, c) /\ t[i] = q[i + 1]
        /\ \A i \in About(q, c) : i > 1 => i - 1 \in About(t, c) /\ t[i - 1] = q[i]
    BY <1>2, AboutTail
  <1>4. Coming(t, c, e.traded, v.traded, 0)
    BY <1>2, ComingLater DEF ClientFits, RowFollows
  <1>5. \A i \in About(q, c) : i > 1
    <2>1. ASSUME NEW i \in About(q, c)
          PROVE  i > 1
      <3>1. i \in Nat /\ i >= 1 /\ i # 1
        BY AboutTyped
      <3> QED BY <3>1
    <2> QED BY <2>1
  <1>6. RowFollows(t, c, e, v)
    <2>1. \A i \in About(t, c) : Says(t[i], "New") =>
            e.state \in {"Working", "CancelPending"} /\ e.traded = 0
      BY <1>3 DEF ClientFits, RowFollows
    <2>2. v.status = "Canceled" =>
            e.state \in Terminal \/ \E i \in About(t, c) : Says(t[i], "Canceled")
      BY <1>3, <1>5 DEF ClientFits, RowFollows
    <2> QED BY <1>4, <2>1, <2>2 DEF ClientFits, RowFollows
  <1>7. Counted(t, c, e, b)
    BY <1>3 DEF ClientFits, Counted
  <1> QED BY <1>1, <1>2, <1>6, <1>7 DEF ClientFits

\* An event about another order joins.
LEMMA OtherJoins ==
  ASSUME NEW q \in Seq(Events), NEW x \in Events, NEW c, NEW e, NEW v, NEW a,
         ClientFits(q, c, e, v, a), x.r.client # c
  PROVE  ClientFits(Append(q, x), c, e, v, a)
  <1>1. PICK p : p = Append(q, x)
    OBVIOUS
  <1>2. About(p, c) = About(q, c) /\ \A i \in About(q, c) : p[i] = q[i] /\ i \in Nat /\ i <= Len(q)
    <2>1. \A i \in About(q, c) : i \in About(p, c) /\ p[i] = q[i] /\ i \in Nat /\ i <= Len(q)
      BY <1>1, AboutAppend
    <2>2. \A i \in About(p, c) : i \in About(q, c)
      BY <1>1, AboutAppend
    <2> QED BY <2>1, <2>2
  <1>4. ASSUME NEW i \in About(q, c), q[i].type = "order"
        PROVE  Coming(p, c, q[i].r.traded, v.traded, i)
    BY <1>1, <1>4, ComingStays DEF ClientFits, QueueFits
  <1>5. Coming(p, c, e.traded, v.traded, 0)
    BY <1>1, ComingStays DEF ClientFits, RowFollows
  <1>6. QueueFits(p, c, v)
    BY <1>2, <1>4 DEF ClientFits, QueueFits
  <1>7. RowFollows(p, c, e, v) /\ Counted(p, c, e, a)
    BY <1>2, <1>5 DEF ClientFits, RowFollows, Counted
  <1> QED BY <1>1, <1>6, <1>7 DEF ClientFits

\* The venue's next event about an order joins those under way.
LEMMA EventJoins ==
  ASSUME NEW q \in Seq(Events), NEW x \in Events, NEW c \in ClientIds, NEW e \in Entry,
         NEW v \in VenueEntry, NEW w \in VenueEntry, NEW a, ClientFits(q, c, e, v, a),
         x.r.client = c, EventFits(x, w), Level(x) = w.traded, ~Says(x, "New"),
         \/ w.traded = v.traded /\ w.status = v.status
         \/ w.traded = v.traded /\ v.status = "queued" /\ w.status = "Canceled"
            /\ Says(x, "Canceled")
         \/ w.traded = v.traded + 1 /\ v.status = "queued" /\ w.status # "Canceled"
            /\ x.type = "trade",
         \A k \in 1..OrderVolume : TradeKey(c, k) \in a => k <= v.traded
  PROVE  ClientFits(Append(q, x), c, e, w, a)
  <1>1. PICK p : p = Append(q, x)
    OBVIOUS
  <1>2. /\ p[Len(q) + 1] = x /\ Len(q) \in Nat
        /\ \A i \in About(q, c) : i \in About(p, c) /\ p[i] = q[i] /\ i \in Nat /\ i >= 1
                                  /\ i <= Len(q)
        /\ \A i \in About(p, c) : i \in About(q, c) \/ i = Len(q) + 1
        /\ Len(q) + 1 \in About(p, c)
    BY <1>1, AboutAppend
  <1>3. PICK n \in Nat : n = Len(q)
    BY <1>2
  <1>4. /\ p[n + 1] = x /\ n + 1 \in About(p, c)
        /\ \A i \in About(q, c) : i \in About(p, c) /\ p[i] = q[i] /\ i \in Nat /\ i >= 1 /\ i <= n
        /\ \A i \in About(p, c) : i \in About(q, c) \/ i = n + 1
    BY <1>2, <1>3
  <1>5. /\ OrderVolume \in Nat \ {0} /\ e.traded \in Nat /\ v.traded \in Nat /\ w.traded \in Nat
        /\ v.traded <= w.traded /\ (w.traded = v.traded \/ w.traded = v.traded + 1)
        /\ w.traded <= OrderVolume
    BY SyncAssumption DEF Entry, VenueEntry
  <1>6. QueueFits(q, c, v) /\ RowFollows(q, c, e, v) /\ Counted(q, c, e, a)
    BY DEF ClientFits
  <1>7. ASSUME NEW i \in About(q, c)
        PROVE  EventFits(q[i], w) /\ Level(q[i]) <= v.traded /\ Level(q[i]) \in Nat
    <2>1. PICK y \in Events : y = q[i]
      BY AboutTyped
    <2>2. EventFits(y, v)
      BY <1>6, <2>1 DEF QueueFits
    <2>3. Level(y) \in 0..OrderVolume /\ y.type \in {"order", "trade"}
          /\ (y.type = "order" => Level(y) = y.r.traded)
          /\ (y.type = "trade" => Level(y) = y.r.report_index)
      BY LevelTyped
    <2>4. CASE y.type = "order"
      BY <1>5, <2>2, <2>3, <2>4, <2>1 DEF EventFits, ReportFits
    <2>5. CASE y.type = "trade"
      BY <1>5, <2>2, <2>3, <2>5, <2>1 DEF EventFits, TradeFits
    <2> QED BY <2>3, <2>4, <2>5
  <1>8. \A i \in About(p, c) : EventFits(p[i], w)
    BY <1>4, <1>7
  <1>9. ASSUME NEW i \in About(p, c), NEW j \in About(p, c), i <= j
        PROVE  Level(p[i]) <= Level(p[j])
    <2>1. CASE i = n + 1
      <3>1. j = n + 1
        BY <1>4, <1>9, <2>1
      <3> QED BY <1>4, <1>5, <2>1, <3>1
    <2>2. CASE i \in About(q, c) /\ j = n + 1
      <3>1. p[i] = q[i] /\ p[j] = x
        BY <1>4, <2>2
      <3>2. Level(q[i]) <= v.traded /\ Level(q[i]) \in Nat
        BY <1>7, <2>2
      <3> QED BY <1>5, <3>1, <3>2
    <2>3. CASE i \in About(q, c) /\ j \in About(q, c)
      BY <1>4, <1>6, <1>9, <2>3 DEF QueueFits
    <2> QED BY <1>4, <2>1, <2>2, <2>3
  <1>10. ASSUME NEW m \in Nat, NEW i \in Nat, i <= n, Coming(q, c, m, v.traded, i)
         PROVE  Coming(p, c, m, w.traded, i)
    <2>1. CASE w.traded = v.traded
      BY <1>1, <1>10, <2>1, ComingStays
    <2>2. CASE w.traded # v.traded
      <3>1. w.traded = v.traded + 1 /\ x.type = "trade" /\ x.r.report_index = v.traded + 1
        BY <1>5, <2>2, LevelTyped
      <3>2. Coming(Append(q, x), c, m, v.traded + 1, i)
        BY <1>3, <1>5, <1>10, <3>1, ComingGrows
      <3> QED BY <1>1, <3>1, <3>2
    <2> QED BY <2>1, <2>2
  <1>11. ASSUME NEW i \in About(p, c), p[i].type = "order"
         PROVE  Coming(p, c, p[i].r.traded, w.traded, i)
    <2>1. CASE i = n + 1
      <3>1. p[i].r.traded = w.traded
        BY <1>4, <1>11, <2>1, LevelTyped
      <3>2. (w.traded + 1)..w.traded = {}
        BY <1>5
      <3> QED BY <3>1, <3>2 DEF Coming
    <2>2. CASE i \in About(q, c)
      <3>1. Coming(q, c, q[i].r.traded, v.traded, i) /\ p[i] = q[i] /\ i \in Nat /\ i <= n
        BY <1>4, <1>6, <1>11, <2>2 DEF QueueFits
      <3>2. q[i].r.traded \in Nat
        <4>1. Level(q[i]) \in Nat /\ q[i] \in Events
          BY <1>7, <2>2, AboutTyped
        <4> QED BY <1>11, <3>1, <4>1, LevelTyped
      <3> QED BY <1>10, <3>1, <3>2
    <2> QED BY <1>4, <2>1, <2>2
  <1>12. ASSUME NEW i \in About(p, c), NEW j \in About(p, c), Says(p[i], "New")
         PROVE  i <= j
    <2>1. i # n + 1
      BY <1>4, <1>12
    <2>2. i \in About(q, c) /\ Says(q[i], "New") /\ i <= n /\ i \in Nat
      BY <1>4, <1>12, <2>1
    <2>3. CASE j = n + 1
      BY <2>2, <2>3
    <2>4. CASE j \in About(q, c)
      BY <1>6, <2>2, <2>4 DEF QueueFits
    <2> QED BY <1>4, <2>3, <2>4
  <1>13. QueueFits(p, c, w)
    BY <1>8, <1>9, <1>11, <1>12 DEF QueueFits
  <1>14. RowFits(e, w)
    BY <1>5, <1>6 DEF RowFollows, RowFits
  <1>15. Coming(p, c, e.traded, w.traded, 0)
    <2>1. Coming(q, c, e.traded, v.traded, 0)
      BY <1>6 DEF RowFollows
    <2> QED BY <1>5, <1>10, <2>1
  <1>16. \A i \in About(p, c) : Says(p[i], "New") =>
           e.state \in {"Working", "CancelPending"} /\ e.traded = 0
    BY <1>4, <1>6 DEF RowFollows
  <1>17. w.status = "Canceled" =>
           e.state \in Terminal \/ \E i \in About(p, c) : Says(p[i], "Canceled")
    <2>1. CASE v.status = "Canceled"
      BY <1>4, <1>6, <2>1 DEF RowFollows
    <2>2. CASE v.status # "Canceled"
      BY <1>4, <2>2
    <2> QED BY <2>1, <2>2
  <1>18. Counted(p, c, e, a)
    <2> SUFFICES ASSUME NEW k \in 1..OrderVolume, TradeKey(c, k) \in a
                 PROVE  k <= e.traded /\ \A i \in About(p, c) : k <= Level(p[i])
      BY DEF Counted
    <2>1. k <= e.traded /\ (\A i \in About(q, c) : k <= Level(q[i])) /\ k <= v.traded
      BY <1>6 DEF Counted
    <2>2. k <= Level(x)
      BY <1>5, <2>1
    <2> QED BY <1>4, <2>1, <2>2
  <1> QED BY <1>1, <1>13, <1>14, <1>15, <1>16, <1>17, <1>18 DEF ClientFits, RowFollows

\* The first event about an order is that it is queued.
LEMMA FirstJoins ==
  ASSUME NEW q \in Seq(Events), NEW x \in Events, NEW c, NEW e, NEW v, NEW a,
         \A i \in 1..Len(q) : q[i].r.client # c, x.r.client = c, x.type = "order",
         EventFits(x, v), RowFits(e, v), e.state = "Working", e.traded = 0, v.traded = 0,
         x.r.traded = 0, v.status = "queued",
         \A k \in 1..OrderVolume : TradeKey(c, k) \notin a
  PROVE  ClientFits(Append(q, x), c, e, v, a)
  <1>1. PICK p : p = Append(q, x)
    OBVIOUS
  <1>2. About(q, c) = {}
    BY DEF About
  <1>3. PICK n \in Nat : n = Len(q)
    BY LenProperties
  <1>4. p[n + 1] = x /\ \A i \in About(p, c) : i = n + 1
    BY <1>1, <1>2, <1>3, AboutAppend
  <1>5. (0 + 1)..0 = {}
    OBVIOUS
  <1>6. \A i : Coming(p, c, 0, 0, i)
    BY <1>5 DEF Coming
  <1>7. QueueFits(p, c, v)
    <2>1. \A i \in About(p, c) : EventFits(p[i], v)
      BY <1>4
    <2>2. \A i, j \in About(p, c) : i <= j => Level(p[i]) <= Level(p[j])
      <3>1. Level(x) <= Level(x)
        BY LevelTyped
      <3> QED BY <1>4, <3>1
    <2>3. \A i \in About(p, c) : p[i].type = "order" => Coming(p, c, p[i].r.traded, v.traded, i)
      BY <1>4, <1>6
    <2>4. \A i, j \in About(p, c) : Says(p[i], "New") => i <= j
      BY <1>4
    <2> QED BY <2>1, <2>2, <2>3, <2>4 DEF QueueFits
  <1>8. RowFollows(p, c, e, v)
    BY <1>6 DEF RowFollows
  <1>9. Counted(p, c, e, a)
    BY DEF Counted
  <1> QED BY <1>1, <1>7, <1>8, <1>9 DEF ClientFits

-----------------------------------------------------------------------------
(* Rows: what a report, a trade and an adoption make of one.               *)

Reported == {"New", "PartiallyFilled", "Filled", "Canceled"}

LEMMA MergedFields ==
  ASSUME NEW e \in Entry, NEW o \in OrderReport, MergeLegal(e, o), o.volume > 0
  PROVE  /\ Merged(e, o).state = MergeTarget(e, o) /\ Merged(e, o).status = o.status
         /\ Merged(e, o).volume = o.volume /\ Merged(e, o).traded = o.traded
         /\ Merged(e, o).left = o.left /\ Merged(e, o).client = e.client
  <1>1. PICK p : p = MergeSnapshot(e, o)
    OBVIOUS
  <1>2. /\ p.status = o.status /\ p.volume = o.volume /\ p.left = o.left
        /\ p.traded = o.traded /\ p.client = e.client
        /\ DOMAIN p = {"state", "status", "client", "volume", "left", "traded", "broker"}
    BY <1>1 DEF MergeSnapshot, Entry
  <1>3. PICK s : s = MergeTarget(e, o)
    OBVIOUS
  <1>4. Merged(e, o) = [p EXCEPT !.state = s]
    BY <1>1, <1>3 DEF Merged
  <1>5. [p EXCEPT !.state = s].state = s
    BY <1>2
  <1>6. /\ [p EXCEPT !.state = s].status = p.status /\ [p EXCEPT !.state = s].volume = p.volume
        /\ [p EXCEPT !.state = s].left = p.left /\ [p EXCEPT !.state = s].traded = p.traded
        /\ [p EXCEPT !.state = s].client = p.client
    BY <1>2
  <1> QED BY <1>2, <1>3, <1>4, <1>5, <1>6

\* A row that is still open takes every report the venue made of it; one that
\* is not keeps what it has.
LEMMA MergedOutcome ==
  ASSUME NEW e \in Entry, NEW v, NEW o \in OrderReport, RowFits(e, v), o.volume = OrderVolume,
         o.status \in Reported
  PROVE  \/ e.state \in Terminal /\ Merged(e, o) = e
         \/ /\ Merged(e, o).state = (IF o.status = "New" THEN e.state ELSE o.status)
            /\ Merged(e, o).traded = o.traded /\ Merged(e, o).volume = OrderVolume
            /\ Merged(e, o).left = o.left /\ Merged(e, o).status = o.status
            /\ e.state \in Terminal => Merged(e, o).state = e.state
  <1>1. OrderVolume \in Nat \ {0}
    BY SyncAssumption
  <1>2. MergeTarget(e, o) = IF o.status = "New" THEN e.state ELSE o.status
    BY DEF MergeTarget, LifecycleFromStatus, Terminal, Reported, RowFits
  <1>3. CASE MergeLegal(e, o)
    <2>1. e.state \in Terminal => MergeTarget(e, o) = e.state
      BY <1>3 DEF MergeLegal, CanTransition, Successors, Terminal
    <2> QED BY <1>1, <1>2, <1>3, <2>1, MergedFields
  <1>4. CASE ~MergeLegal(e, o)
    <2>1. Merged(e, o) = e
      BY <1>4 DEF Merged
    <2>2. e.state \in Terminal
      BY <1>2, <1>4 DEF MergeLegal, CanTransition, Successors, Terminal, RowFits, Reported
    <2> QED BY <2>1, <2>2
  <1> QED BY <1>3, <1>4

LEMMA MergedFits ==
  ASSUME NEW e \in Entry, NEW v \in VenueEntry, NEW o \in OrderReport, RowFits(e, v),
         ReportFits(o, v), o.volume = OrderVolume, o.status \in Reported,
         o.status = "New" => e.state \in {"Working", "CancelPending"}
  PROVE  RowFits(Merged(e, o), v)
  <1>1. OrderVolume \in Nat \ {0} /\ v.traded \in 0..OrderVolume /\ o.traded \in Nat
        /\ e.traded \in Nat
    BY SyncAssumption DEF VenueEntry, OrderReport, Entry
  <1>2. PICK n : n = Merged(e, o)
    OBVIOUS
  <1>3. CASE n = e
    BY <1>2, <1>3
  <1>4. CASE /\ n.state = (IF o.status = "New" THEN e.state ELSE o.status)
             /\ n.traded = o.traded /\ n.volume = OrderVolume
    <2>1. RowFits(n, v)
      BY <1>1, <1>4 DEF RowFits, ReportFits, Reported, Terminal
    <2> QED BY <1>2, <2>1
  <1> QED BY <1>2, <1>3, <1>4, MergedOutcome

LEMMA TradedFields ==
  ASSUME NEW e \in Entry, NEW v, NEW t, t.volume = 1, RowFits(e, v)
  PROVE  /\ Traded(e, t).traded = e.traded + 1 /\ e.traded \in Nat
         /\ Traded(e, t).state = TradeState(e, t) /\ Traded(e, t).volume = OrderVolume
         /\ Traded(e, t).client = e.client
         /\ TradeState(e, t) = IF e.traded + 1 >= OrderVolume THEN "Filled" ELSE "PartiallyFilled"
  <1>1. OrderVolume \in Nat \ {0} /\ e.traded \in Nat /\ TradeTotal(e, t) = e.traded + 1
    BY SyncAssumption DEF Entry, TradeTotal
  <1>2. PICK k : k = TradeTotal(e, t)
    OBVIOUS
  <1>3. PICK s : s = TradeState(e, t)
    OBVIOUS
  <1>4. PICK l : l = IF TradeTotal(e, t) >= e.volume THEN 0 ELSE e.volume - TradeTotal(e, t)
    OBVIOUS
  <1>5. Traded(e, t) = [e EXCEPT !.traded = k, !.left = l, !.status = s, !.state = s]
    BY <1>2, <1>3, <1>4 DEF Traded
  <1>6. /\ Traded(e, t).state = s /\ Traded(e, t).traded = k
        /\ Traded(e, t).volume = e.volume /\ Traded(e, t).client = e.client
    BY <1>5 DEF Entry
  <1>7. e.volume = OrderVolume
    BY DEF RowFits
  <1>8. s = IF e.traded + 1 >= OrderVolume THEN "Filled" ELSE "PartiallyFilled"
    BY <1>1, <1>3, <1>7 DEF TradeState
  <1> QED BY <1>1, <1>2, <1>3, <1>6, <1>7, <1>8

LEMMA TradedFits ==
  ASSUME NEW e \in Entry, NEW v \in VenueEntry, NEW t, t.volume = 1, RowFits(e, v),
         v.traded # 0, CanTransition(e.state, TradeState(e, t))
  PROVE  /\ RowFits(Traded(e, t), v)
         /\ e.state \in Terminal => Traded(e, t).state \in Terminal
         /\ UpToDate(e, v) => UpToDate(Traded(e, t), v)
  <1>1. OrderVolume \in Nat \ {0} /\ v.traded \in 0..OrderVolume /\ e.traded \in Nat
    BY SyncAssumption DEF VenueEntry, Entry
  <1>2. PICK n : n = Traded(e, t)
    OBVIOUS
  <1>3. /\ n.traded = e.traded + 1 /\ n.volume = OrderVolume
        /\ n.state = IF e.traded + 1 >= OrderVolume THEN "Filled" ELSE "PartiallyFilled"
        /\ CanTransition(e.state, n.state)
    BY <1>2, TradedFields
  <1>4. e.state \in Terminal => n.state \in Terminal
    BY <1>3 DEF CanTransition, Successors, Terminal
  <1>5. RowFits(n, v)
    BY <1>1, <1>3 DEF RowFits, Terminal
  <1>6. UpToDate(e, v) => UpToDate(n, v)
    BY <1>1, <1>3, <1>4 DEF UpToDate
  <1> QED BY <1>2, <1>4, <1>5, <1>6

LEMMA AdoptedFits ==
  ASSUME NEW v \in VenueEntry, NEW o \in OrderReport, o.volume = OrderVolume,
         o.status \in Reported, IsLastWord(o, v)
  PROVE  RowFits(AdoptedEntry(o), v) /\ UpToDate(AdoptedEntry(o), v)
         /\ AdoptedEntry(o).client = o.client /\ AdoptedEntry(o).traded = v.traded
  <1>1. OrderVolume \in Nat \ {0} /\ v.traded \in 0..OrderVolume
    BY SyncAssumption DEF VenueEntry
  <1>2. LifecycleFromStatus(o.status, "Working") =
          IF o.status = "New" THEN "Working" ELSE o.status
    BY DEF LifecycleFromStatus, Terminal, Reported
  <1>3. PICK n : /\ n = AdoptedEntry(o) /\ n.volume = OrderVolume /\ n.traded = o.traded
                 /\ n.state = (IF o.status = "New" THEN "Working" ELSE o.status)
                 /\ n.client = o.client
    <2>1. PICK l : l = LifecycleFromStatus(o.status, "Working")
      OBVIOUS
    <2>2. /\ AdoptedEntry(o).volume = o.volume /\ AdoptedEntry(o).traded = o.traded
          /\ AdoptedEntry(o).state = l /\ AdoptedEntry(o).client = o.client
      BY <2>1 DEF AdoptedEntry
    <2> QED BY <1>2, <2>1, <2>2
  <1>4. RowFits(n, v)
    BY <1>1, <1>3 DEF RowFits, IsLastWord, ReportFits, Reported, Terminal
  <1>5. UpToDate(n, v)
    BY <1>1, <1>3 DEF UpToDate, IsLastWord, Reported, Terminal
  <1>6. n.traded = v.traded
    BY <1>3 DEF IsLastWord
  <1> QED BY <1>3, <1>4, <1>5, <1>6

\* A row that is closed lacks nothing of the order's volume.
LEMMA ClosedLacksNothing ==
  ASSUME NEW q, NEW c, NEW e \in Entry, NEW v \in VenueEntry, RowFits(e, v), e.state \in Terminal
  PROVE  Coming(q, c, e.traded, v.traded, 0)
  <1>1. OrderVolume \in Nat /\ v.traded \in 0..OrderVolume /\ e.traded \in Nat
    BY SyncAssumption DEF VenueEntry, Entry
  <1>2. e.traded >= v.traded
    BY <1>1 DEF RowFits, Terminal
  <1>3. (e.traded + 1)..v.traded = {}
    BY <1>1, <1>2
  <1> QED BY <1>3 DEF Coming

-----------------------------------------------------------------------------
(* One order and the events under way: an event is handled.                *)

LEMMA OrderHandled ==
  ASSUME NEW q \in Seq(Events), q # <<>>, NEW c, NEW e \in Entry, NEW v \in VenueEntry, NEW a,
         ClientFits(q, c, e, v, a), q[1].type = "order", q[1].r.client = c,
         NEW o \in OrderReport, o.status = q[1].r.status, o.traded = q[1].r.traded,
         o.left = q[1].r.left, o.volume = OrderVolume, o.status \in Reported
  PROVE  ClientFits(Tail(q), c, Merged(e, o), v, a)
  <1>1. 1 \in About(q, c)
    BY Ends DEF About
  <1>2. PICK t, n : t = Tail(q) /\ n = Merged(e, o)
    OBVIOUS
  <1>3. /\ \A i \in About(t, c) : i \in Nat /\ i >= 1 /\ i + 1 \in About(q, c) /\ t[i] = q[i + 1]
        /\ \A i \in About(q, c) : i \in Nat /\ i >= 1 /\
              (i > 1 => i - 1 \in About(t, c) /\ t[i - 1] = q[i])
    BY <1>2, AboutTail
  <1>4. QueueFits(q, c, v) /\ RowFollows(q, c, e, v) /\ Counted(q, c, e, a) /\ RowFits(e, v)
    BY DEF ClientFits, RowFollows
  <1>5. o.status = "New" => e.state \in {"Working", "CancelPending"} /\ e.traded = 0
    BY <1>1, <1>4 DEF RowFollows, Says
  <1>6. ReportFits(o, v)
    BY <1>1, <1>4, SyncAssumption DEF QueueFits, EventFits, ReportFits
  <1>7. RowFits(n, v)
    BY <1>2, <1>4, <1>5, <1>6, MergedFits
  <1>8. \/ e.state \in Terminal /\ n = e
        \/ /\ n.state = (IF o.status = "New" THEN e.state ELSE o.status)
           /\ n.traded = o.traded
           /\ e.state \in Terminal => n.state = e.state
    BY <1>2, <1>4, MergedOutcome
  <1>9. QueueFits(t, c, v)
    BY <1>2, <1>4, QueueTail
  <1>10. Coming(t, c, n.traded, v.traded, 0)
    <2>1. CASE n = e /\ e.state \in Terminal
      BY <1>4, <2>1, ClosedLacksNothing
    <2>2. CASE n.traded = o.traded
      <3>1. Coming(q, c, q[1].r.traded, v.traded, 0 + 1)
        BY <1>1, <1>4 DEF QueueFits
      <3>2. Coming(t, c, q[1].r.traded, v.traded, 0)
        BY <1>2, <3>1, ComingShifts
      <3> QED BY <2>2, <3>2
    <2> QED BY <1>8, <2>1, <2>2
  <1>11. \A i \in About(t, c) : ~Says(t[i], "New")
    <2> SUFFICES ASSUME NEW i \in About(t, c), Says(t[i], "New") PROVE FALSE
      OBVIOUS
    <2>1. i \in Nat /\ i >= 1 /\ i + 1 \in About(q, c) /\ Says(q[i + 1], "New")
      BY <1>3
    <2>2. i + 1 <= 1
      BY <1>1, <1>4, <2>1 DEF QueueFits
    <2> QED BY <2>1, <2>2
  <1>12. v.status = "Canceled" =>
           n.state \in Terminal \/ \E i \in About(t, c) : Says(t[i], "Canceled")
    <2> SUFFICES ASSUME v.status = "Canceled"
                 PROVE  n.state \in Terminal \/ \E i \in About(t, c) : Says(t[i], "Canceled")
      OBVIOUS
    <2>1. CASE e.state \in Terminal
      BY <1>8, <2>1
    <2>2. CASE e.state \notin Terminal
      <3>1. PICK i \in About(q, c) : Says(q[i], "Canceled")
        BY <1>4, <2>2 DEF RowFollows
      <3>2. CASE i = 1
        BY <1>8, <2>2, <3>1, <3>2 DEF Says, Terminal
      <3>3. CASE i # 1
        <4>1. i > 1
          BY <1>3, <3>1, <3>3
        <4> QED BY <1>3, <3>1, <4>1
      <3> QED BY <3>2, <3>3
    <2> QED BY <2>1, <2>2
  <1>13. Counted(t, c, n, a)
    <2> SUFFICES ASSUME NEW k \in 1..OrderVolume, TradeKey(c, k) \in a
                 PROVE  k <= n.traded /\ \A i \in About(t, c) : k <= Level(t[i])
      BY DEF Counted
    <2>1. k <= e.traded /\ \A i \in About(q, c) : k <= Level(q[i])
      BY <1>4 DEF Counted
    <2>2. k <= o.traded
      BY <1>1, <2>1 DEF Level
    <2> QED BY <1>3, <1>8, <2>1, <2>2
  <1>14. RowFollows(t, c, n, v)
    BY <1>7, <1>10, <1>11, <1>12 DEF RowFollows
  <1> QED BY <1>2, <1>9, <1>13, <1>14 DEF ClientFits

\* Whether the OMS takes the trade or has it, the row then lacks only what
\* comes after.
LEMMA TradeHandled ==
  ASSUME NEW q \in Seq(Events), q # <<>>, NEW c \in ClientIds, NEW e \in Entry,
         NEW v \in VenueEntry, NEW a, ClientFits(q, c, e, v, a), q[1].type = "trade",
         q[1].r.client = c, NEW t, t.volume = 1, NEW k \in 1..OrderVolume, k = q[1].r.report_index,
         NEW n, NEW b,
         \/ n = e /\ b = a /\ (TradeKey(c, k) \in a \/ ~CanTransition(e.state, TradeState(e, t)))
         \/ n = Traded(e, t) /\ b = a \cup {TradeKey(c, k)}
            /\ CanTransition(e.state, TradeState(e, t))
  PROVE  ClientFits(Tail(q), c, n, v, b)
  <1>1. 1 \in About(q, c)
    BY Ends DEF About
  <1>2. PICK s : s = Tail(q)
    OBVIOUS
  <1>3. /\ \A i \in About(s, c) : i \in Nat /\ i >= 1 /\ i + 1 \in About(q, c) /\ s[i] = q[i + 1]
        /\ \A i \in About(q, c) : i \in Nat /\ i >= 1 /\
              (i > 1 => i - 1 \in About(s, c) /\ s[i - 1] = q[i])
    BY <1>2, AboutTail
  <1>4. QueueFits(q, c, v) /\ RowFollows(q, c, e, v) /\ Counted(q, c, e, a) /\ RowFits(e, v)
    BY DEF ClientFits, RowFollows
  <1>5. /\ OrderVolume \in Nat \ {0} /\ v.traded \in Nat /\ e.traded \in Nat /\ k \in Nat /\ k >= 1
        /\ k <= v.traded
    <2>1. TradeFits(q[1].r, v)
      BY <1>1, <1>4 DEF QueueFits, EventFits
    <2> QED BY <2>1, SyncAssumption DEF TradeFits, VenueEntry, Entry
  <1>6. \A i \in About(q, c) : k <= Level(q[i])
    <2>1. ASSUME NEW i \in About(q, c)
          PROVE  Level(q[1]) <= Level(q[i])
      <3>1. 1 <= i
        BY <1>3
      <3> QED BY <1>1, <1>4, <3>1 DEF QueueFits
    <2> QED BY <2>1 DEF Level
  <1>7. k <= e.traded + 1
    <2> SUFFICES ASSUME ~(k <= e.traded + 1) PROVE FALSE
      OBVIOUS
    <2>1. k - 1 \in (e.traded + 1)..v.traded
      BY <1>5
    <2>2. PICK i \in About(q, c) : q[i].type = "trade" /\ q[i].r.report_index = k - 1
      BY <1>4, <2>1 DEF RowFollows, Coming
    <2>3. Level(q[i]) = k - 1
      BY <2>2 DEF Level
    <2> QED BY <1>5, <1>6, <2>3
  <1>8. \A i \in About(s, c) : ~Says(s[i], "New")
    <2> SUFFICES ASSUME NEW i \in About(s, c), Says(s[i], "New") PROVE FALSE
      OBVIOUS
    <2>1. i \in Nat /\ i >= 1 /\ i + 1 \in About(q, c) /\ Says(q[i + 1], "New")
      BY <1>3
    <2>2. i + 1 <= 1
      BY <1>1, <1>4, <2>1 DEF QueueFits
    <2> QED BY <2>1, <2>2
  <1>9. \/ n = e
        \/ /\ n.traded = e.traded + 1 /\ RowFits(n, v) /\ (e.state \in Terminal => n.state \in Terminal)
    BY <1>4, <1>5, TradedFields, TradedFits
  <1>10. RowFits(n, v) /\ (e.state \in Terminal => n.state \in Terminal)
    BY <1>4, <1>9
  <1>11. Coming(s, c, n.traded, v.traded, 0)
    <2>1. CASE n = e /\ TradeKey(c, k) \in a
      <3>1. k \notin (e.traded + 1)..v.traded
        BY <1>4, <1>5, <2>1 DEF Counted
      <3>2. Coming(q, c, e.traded, v.traded, 0)
        BY <1>4 DEF RowFollows
      <3> QED BY <1>2, <2>1, <3>1, <3>2, ComingLater
    <2>2. CASE n = e /\ ~CanTransition(e.state, TradeState(e, t))
      <3>1. TradeState(e, t) \in {"Filled", "PartiallyFilled"}
        BY DEF TradeState
      <3>2. e.state \in Terminal
        BY <1>4, <2>2, <3>1 DEF CanTransition, Successors, RowFits, Terminal
      <3> QED BY <1>4, <2>2, <3>2, ClosedLacksNothing
    <2>3. CASE n = Traded(e, t)
      <3>1. n.traded = e.traded + 1
        BY <1>4, <2>3, TradedFields
      <3>2. Coming(q, c, e.traded + 1, v.traded, 0)
        <4>1. \A j \in ((e.traded + 1) + 1)..v.traded : j \in (e.traded + 1)..v.traded
          BY <1>5
        <4> QED BY <1>4, <4>1 DEF RowFollows, Coming
      <3>3. k \notin ((e.traded + 1) + 1)..v.traded
        BY <1>5, <1>7
      <3>4. Coming(s, c, e.traded + 1, v.traded, 0)
        BY <1>2, <3>2, <3>3, ComingLater
      <3> QED BY <3>1, <3>4
    <2> QED BY <2>1, <2>2, <2>3
  <1>12. v.status = "Canceled" =>
           n.state \in Terminal \/ \E i \in About(s, c) : Says(s[i], "Canceled")
    <2> SUFFICES ASSUME v.status = "Canceled", e.state \notin Terminal
                 PROVE  \E i \in About(s, c) : Says(s[i], "Canceled")
      BY <1>10
    <2>1. PICK i \in About(q, c) : Says(q[i], "Canceled")
      BY <1>4 DEF RowFollows
    <2>2. i # 1
      BY <2>1 DEF Says
    <2>3. i > 1
      BY <1>3, <2>1, <2>2
    <2> QED BY <1>3, <2>1, <2>3
  <1>13. Counted(s, c, n, b)
    <2> SUFFICES ASSUME NEW j \in 1..OrderVolume, TradeKey(c, j) \in b
                 PROVE  j <= n.traded /\ \A i \in About(s, c) : j <= Level(s[i])
      BY DEF Counted
    <2>1. CASE TradeKey(c, j) \in a
      <3>1. j <= e.traded /\ \A i \in About(q, c) : j <= Level(q[i])
        BY <1>4, <2>1 DEF Counted
      <3>2. j <= n.traded
        BY <1>5, <1>9, <3>1
      <3> QED BY <1>3, <3>1, <3>2
    <2>2. CASE TradeKey(c, j) \notin a
      <3>1. n = Traded(e, t) /\ TradeKey(c, j) = TradeKey(c, k)
        BY <2>2
      <3>2. j = k
        BY <3>1, KeysAlwaysDiffer DEF KeysDiffer
      <3>3. n.traded = e.traded + 1
        BY <1>4, <3>1, TradedFields
      <3> QED BY <1>3, <1>6, <1>7, <3>2, <3>3
    <2> QED BY <2>1, <2>2
  <1>14. RowFollows(s, c, n, v)
    BY <1>8, <1>10, <1>11, <1>12 DEF RowFollows
  <1>15. QueueFits(s, c, v)
    BY <1>2, <1>4, QueueTail
  <1> QED BY <1>2, <1>13, <1>14, <1>15 DEF ClientFits

\* A request to cancel moves an open row among the open states.
LEMMA StateMoves ==
  ASSUME NEW q, NEW c, NEW e \in Entry, NEW f, NEW v \in VenueEntry, NEW a,
         ClientFits(q, c, e, v, a), e.state \notin Terminal, f.state \in OpenStates,
         f.traded = e.traded, f.volume = e.volume, f.state = "PartiallyFilled" => e.traded > 0
  PROVE  ClientFits(q, c, f, v, a)
  <1>1. OrderVolume \in Nat \ {0} /\ v.traded \in 0..OrderVolume /\ e.traded \in Nat
    BY SyncAssumption DEF VenueEntry, Entry
  <1>2. RowFits(f, v)
    BY <1>1 DEF ClientFits, RowFollows, RowFits, OpenStates, Terminal
  <1>3. RowFollows(q, c, f, v)
    BY <1>1, <1>2 DEF ClientFits, RowFollows, OpenStates
  <1> QED BY <1>3 DEF ClientFits, Counted

-----------------------------------------------------------------------------
(* The row of a client.                                                    *)

RowsFound ==
  \A c \in ClientIds :
    /\ RowOf(c) = clientIndex[c]
    /\ RowOf(c) # NoId => /\ RowOf(c) \in OrderIds /\ Present(RowOf(c))
                          /\ orders[RowOf(c)] \in Entry /\ orders[RowOf(c)].client = c

RowsKnown == OmsTyped /\ IndexConsistent

LEMMA RowsAreFound == RowsKnown => RowsFound
  <1> SUFFICES ASSUME RowsKnown, NEW c \in ClientIds
               PROVE  /\ RowOf(c) = clientIndex[c]
                      /\ RowOf(c) # NoId => /\ RowOf(c) \in OrderIds /\ Present(RowOf(c))
                                            /\ orders[RowOf(c)] \in Entry
                                            /\ orders[RowOf(c)].client = c
    BY DEF RowsFound
  <1>1. clientIndex[c] \in OrderIds \cup {NoId}
    BY DEF RowsKnown, OmsTyped
  <1>2. RowOf(c) = clientIndex[c]
    BY <1>1 DEF RowsKnown, RowOf, GetOrderByClientId, IndexConsistent
  <1> QED BY <1>1, <1>2 DEF RowsKnown, OmsTyped, IndexConsistent

LEMMA RowsAreFoundLater == RowsKnown' => RowsFound'
  BY RowsAreFound, PTL

LEMMA RowsAround ==
  ASSUME SyncTyped, SyncTyped', TablesInv, TablesInv'
  PROVE  RowsFound /\ RowsFound'
  <1>1. RowsKnown /\ RowsKnown'
    BY DEF RowsKnown, SyncTyped, TablesInv
  <1> QED BY <1>1, RowsAreFound, RowsAreFoundLater

LEMMA RowsMove ==
  ASSUME RowsFound, RowsFound', OmsTyped, NEW c \in ClientIds, NEW new, RowMoves(RowOf(c), new)
  PROVE  \A d \in ClientIds :
           /\ RowOf(d)' = RowOf(d)
           /\ RowOf(d) # NoId => orders'[RowOf(d)] = IF d = c THEN new ELSE orders[RowOf(d)]
  <1> SUFFICES ASSUME NEW d \in ClientIds
               PROVE  /\ RowOf(d)' = RowOf(d)
                      /\ RowOf(d) # NoId =>
                           orders'[RowOf(d)] = IF d = c THEN new ELSE orders[RowOf(d)]
    OBVIOUS
  <1>1. RowOf(d)' = RowOf(d)
    BY DEF RowsFound, RowMoves
  <1>2. RowOf(c) \in OrderIds /\ orders' = [orders EXCEPT ![RowOf(c)] = new]
    BY DEF RowMoves
  <1>3. ASSUME RowOf(d) # NoId
        PROVE  orders'[RowOf(d)] = IF d = c THEN new ELSE orders[RowOf(d)]
    <2>1. RowOf(d) \in OrderIds /\ orders[RowOf(d)].client = d
          /\ orders[RowOf(c)].client = c
      BY <1>2, <1>3, IdFacts DEF RowsFound
    <2> QED BY <1>2, <2>1 DEF OmsTyped
  <1> QED BY <1>1, <1>3

\* A report or trade finds the row of its client, or none if there is none.
LEMMA LookUp ==
  ASSUME SyncTyped, TablesInv, initialized, NEW r, r.client \in ClientIds, Named(r)
  PROVE  Find(OmsId(r.order_id), r.client) = RowOf(r.client)
  <1>1. PICK c \in ClientIds : c = r.client
    OBVIOUS
  <1>2. venue[c] \in VenueEntry /\ r.order_id \in {NoId, venue[c].id}
    BY <1>1 DEF SyncTyped, VenueTyped, Named, NamedBy
  <1>3. epoch \in 0..MaxSessions
    BY EpochTyped DEF SyncTyped
  <1>4. CASE r.order_id = NoId
    <2>1. OmsId(NoId) = NoId
      BY <1>3, OmsIdFacts
    <2> QED BY <1>4, <2>1, IdFacts DEF Find, Present, RowOf
  <1>5. CASE r.order_id # NoId
    <2>1. PICK a \in VenueIds \cup {NoId} : a = venue[c].id /\ a # NoId /\ r.order_id = a
      BY <1>2, <1>5 DEF VenueEntry
    <2>2. CASE ~Present(OmsId(a))
      BY <2>1, <2>2 DEF Find, RowOf
    <2>3. CASE Present(OmsId(a))
      <3>1. PICK x \in OrderIds : x = OmsId(a) /\ Present(x)
        BY <2>3 DEF Present
      <3>2. PICK d \in ClientIds :
              /\ d = orders[x].client
              /\ IF venue[d].id = NoId THEN x \in LocalIds ELSE x = OmsId(venue[d].id)
        BY <3>1 DEF TablesInv, RowsInv
      <3>3. c = d
        <4>1. CASE venue[d].id # NoId
          <5>1. PICK b \in VenueIds \cup {NoId} : b = venue[d].id
            BY DEF SyncTyped, VenueTyped, VenueEntry
          <5>2. a = b
            BY <1>3, <2>1, <3>1, <3>2, <4>1, <5>1, OmsIdFacts
          <5> QED BY <2>1, <5>1, <5>2 DEF TablesInv, IdsInv
        <4>2. CASE venue[d].id = NoId
          <5>1. x \in LocalIds
            BY <3>2, <4>2
          <5>2. a = epoch * MaxOrders + x
            BY <1>3, <2>1, <3>1, <5>1, OmsIdFacts, AbsIdFacts
          <5>3. a > epoch * MaxOrders
            <6>1. x \in Nat /\ x > 0 /\ epoch * MaxOrders \in Nat
              BY <1>3, <5>1, Products DEF LocalIds
            <6> QED BY <5>2, <6>1
          <5> QED BY <2>1, <3>1, <3>2, <5>3 DEF TablesInv, NamedRows
        <4> QED BY <4>1, <4>2
      <3>4. clientIndex[c] = x
        BY <3>1, <3>2, <3>3, IdFacts DEF TablesInv, IndexConsistent
      <3>5. RowOf(c) = x
        BY <3>1, <3>4 DEF RowOf, GetOrderByClientId
      <3> QED BY <1>1, <2>1, <3>1, <3>5 DEF Find
    <2> QED BY <2>2, <2>3
  <1> QED BY <1>4, <1>5

LEMMA ConcatTail ==
  ASSUME NEW s \in Seq(Events), NEW t \in Seq(Events), s # <<>>
  PROVE  /\ s \o t \in Seq(Events) /\ s \o t # <<>>
         /\ Tail(s \o t) = Tail(s) \o t /\ (s \o t)[1] = Head(s)
  <1>1. /\ Len(s) \in Nat \ {0} /\ Tail(s) \in Seq(Events) /\ Len(Tail(s)) = Len(s) - 1
        /\ Head(s) = s[1] /\ \A i \in 1..Len(Tail(s)) : Tail(s)[i] = s[i + 1]
    BY Ends
  <1>2. /\ s \o t \in Seq(Events) /\ Len(s \o t) = Len(s) + Len(t) /\ Len(t) \in Nat
        /\ \A i \in 1..Len(s) : (s \o t)[i] = s[i]
        /\ \A i \in 1..Len(t) : (s \o t)[Len(s) + i] = t[i]
    BY Joined
  <1>3. s \o t # <<>>
    <2>1. Len(s \o t) # 0
      BY <1>1, <1>2
    <2> QED BY <2>1, EmptyEvents
  <1>4. (s \o t)[1] = Head(s)
    BY <1>1, <1>2
  <1>5. Tail(s \o t) = Tail(s) \o t
    <2>1. /\ Tail(s \o t) \in Seq(Events) /\ Len(Tail(s \o t)) = Len(s \o t) - 1
          /\ \A i \in 1..Len(Tail(s \o t)) : Tail(s \o t)[i] = (s \o t)[i + 1]
      BY <1>2, <1>3, Ends
    <2>2. /\ Tail(s) \o t \in Seq(Events) /\ Len(Tail(s) \o t) = Len(Tail(s)) + Len(t)
          /\ \A i \in 1..Len(Tail(s)) : (Tail(s) \o t)[i] = Tail(s)[i]
          /\ \A i \in 1..Len(t) : (Tail(s) \o t)[Len(Tail(s)) + i] = t[i]
      BY <1>1, Joined
    <2>3. ASSUME NEW i \in 1..Len(Tail(s \o t))
          PROVE  Tail(s \o t)[i] = (Tail(s) \o t)[i]
      <3>1. CASE i <= Len(Tail(s))
        <4>1. i \in 1..Len(Tail(s)) /\ i + 1 \in 1..Len(s)
          BY <1>1, <3>1
        <4> QED BY <1>1, <1>2, <2>1, <2>2, <4>1
      <3>2. CASE ~(i <= Len(Tail(s)))
        <4>1. PICK n \in Nat, m \in Nat : n = Len(Tail(s)) /\ m = Len(t) /\ Len(s) = n + 1
          <5>1. Len(Tail(s)) \in Nat /\ Len(s) = Len(Tail(s)) + 1 /\ Len(t) \in Nat
            BY <1>1, <1>2
          <5> QED BY <5>1
        <4>2. i \in Int /\ i > n /\ i <= n + m
          BY <1>2, <2>1, <3>2, <4>1
        <4>3. PICK k \in 1..m : k = i - n
          BY <4>2
        <4>4. i = n + k /\ i + 1 = (n + 1) + k
          BY <4>2, <4>3
        <4>5. i + 1 = Len(s) + k /\ i = Len(Tail(s)) + k /\ k \in 1..Len(t)
          BY <4>1, <4>3, <4>4
        <4> QED BY <1>2, <2>1, <2>2, <4>5
      <3> QED BY <3>1, <3>2
    <2>4. Len(Tail(s \o t)) = Len(Tail(s) \o t)
      BY <1>1, <1>2, <2>1, <2>2
    <2> QED BY <2>1, <2>2, <2>3, <2>4, SeqEqual
  <1> QED BY <1>2, <1>3, <1>4, <1>5

-----------------------------------------------------------------------------
(* The books follow the venue: one lemma per action.                       *)

\* An order of the venue: what the invariants say of it at once.
LEMMA PlacedFacts ==
  ASSUME SyncTyped, NEW c \in ClientIds, Placed(c)
  PROVE  /\ venue[c] \in VenueEntry /\ EntryFits(venue[c])
         /\ Report(c) \in VenueReports /\ IsLastWord(Report(c), venue[c]) /\ Report(c).client = c
  <1>1. VenueTyped
    BY DEF SyncTyped
  <1>2. venue[c] \in VenueEntry /\ EntryFits(venue[c])
    BY <1>1 DEF VenueTyped
  <1> QED BY <1>1, <1>2, ReportTyped

\* The trades of the OMS were made, if every one it takes was.
LEMMA AppliedKept ==
  ASSUME SyncTyped, SyncTyped', AppliedInv,
         stage' \in Starting \cup {"running"} => stage \in Starting \cup {"running"},
         \A c \in ClientIds : venue[c].traded <= venue'[c].traded,
         \A x \in applied' : \/ x \in applied
                             \/ \E c \in ClientIds : \E k \in 1..OrderVolume :
                                  x = TradeKey(c, k) /\ k <= venue[c].traded
  PROVE  AppliedInv'
  <1> SUFFICES ASSUME stage' \in Starting \cup {"running"}, NEW c \in ClientIds,
                      NEW k \in 1..OrderVolume, TradeKey(c, k) \in applied'
               PROVE  k <= venue'[c].traded
    BY DEF AppliedInv, Starting
  <1>1. OrderVolume \in Nat /\ venue[c].traded \in Nat /\ venue'[c].traded \in Nat
        /\ venue[c].traded <= venue'[c].traded
    BY SyncAssumption DEF SyncTyped, VenueTyped, VenueEntry
  <1>2. k <= venue[c].traded
    <2>1. CASE TradeKey(c, k) \in applied
      BY <2>1 DEF AppliedInv
    <2>2. CASE TradeKey(c, k) \notin applied
      <3>1. PICK d \in ClientIds, j \in 1..OrderVolume :
              TradeKey(c, k) = TradeKey(d, j) /\ j <= venue[d].traded
        BY <2>2
      <3>2. c = d /\ k = j
        BY <3>1, KeysAlwaysDiffer DEF KeysDiffer
      <3> QED BY <3>1, <3>2
    <2> QED BY <2>1, <2>2
  <1> QED BY <1>1, <1>2

\* The trade that a trade t of the venue is to the OMS.
LEMMA OmsTradeFields ==
  ASSUME NEW t \in VenueTrades, NEW v, TradeFits(t, v)
  PROVE  /\ OmsTrade(t).order_id = OmsId(t.order_id) /\ OmsTrade(t).client = t.client
         /\ OmsTrade(t).volume = 1 /\ OmsTrade(t).key = TradeKey(t.client, t.report_index)
         /\ t.client \in ClientIds /\ t.report_index \in 1..OrderVolume
         /\ t.report_index <= v.traded
  <1>1. t.client \in ClientIds /\ t.report_index \in 1..OrderVolume /\ t.volume = 1
    BY DEF VenueTrades
  <1>2. t = VenueTrade(t.client, t.report_index) /\ t.report_index <= v.traded
    BY DEF TradeFits
  <1> QED BY <1>1, <1>2 DEF OmsTrade, TradeKey

\* A handled order report leaves the OMS's trades alone.
LEMMA HandledReport ==
  ASSUME Handle, Head(lane).type = "order"
  PROVE  applied' = applied
  BY DEF Handle, OnTraderOrderReport, ApplyOrderReport, OnlyOrders

\* A handled event leaves the events after it under way.
LEMMA HandleAgreeStep ==
  ASSUME SyncTyped, SyncTyped', TablesInv, TablesInv', AgreeInv, Handle
  PROVE  AgreeInv'
  <1>1. /\ lane \in Seq(Events) /\ wire \in Seq(Events) /\ lane # <<>>
        /\ lane' = Tail(lane) /\ wire' = wire /\ venue' = venue
        /\ stage' = stage /\ stage \in {"running", "stopping"}
    BY HandleShape DEF SyncTyped, EventsTyped, controlVars, venueVars
  <1>2. StartInv'
    BY <1>1 DEF StartInv, Starting
  <1>3. CASE stage = "stopping"
    BY <1>1, <1>2, <1>3 DEF AgreeInv, RunInv, AppliedInv, Starting
  <1>4. CASE stage = "running"
    <2>0. initialized
      <3>1. initialized = (stage # "down")
        BY DEF SyncTyped, ControlTyped
      <3> QED BY <1>4, <3>1
    <2>1. PICK q \in Seq(Events) :
            q = InFlight /\ q # <<>> /\ Tail(q) = Tail(lane) \o wire /\ q[1] = Head(lane)
      BY <1>1, ConcatTail DEF InFlight
    <2>2. InFlight' = Tail(q)
      BY <1>1, <2>1 DEF InFlight
    <2>3. PICK e \in Events : e = q[1]
      BY <2>1, HandleShape
    <2>4. PICK c \in ClientIds : c = e.r.client
      BY EventTypes DEF VenueReports, VenueTrades
    <2>5. Named(e.r) /\ Placed(c)
      <3>1. NamedBy(Head(lane).r, venue[Head(lane).r.client])
        BY <1>1, NamesLeave DEF TablesInv, NamesInv
      <3> QED BY <2>1, <2>3, <2>4, <3>1 DEF Named, NamedBy, Placed
    <2>6. \A d \in ClientIds : Placed(d) =>
            RowOf(d) # NoId /\ ClientFits(q, d, orders[RowOf(d)], venue[d], applied)
      BY <1>4, <2>1 DEF AgreeInv, RunInv
    <2>7. EventFits(e, venue[c])
      <3>1. 1 \in About(q, c)
        BY <2>1, <2>3, <2>4, Ends DEF About
      <3> QED BY <2>3, <2>5, <2>6, <3>1 DEF ClientFits, QueueFits
    <2>8. RowsFound /\ RowsFound' /\ OmsTyped
      BY RowsAround DEF SyncTyped
    <2>9. /\ RowOf(c) # NoId /\ RowOf(c) \in OrderIds /\ orders[RowOf(c)] \in Entry
          /\ venue[c] \in VenueEntry
          /\ ClientFits(q, c, orders[RowOf(c)], venue[c], applied)
      BY <2>5, <2>6, <2>8, PlacedFacts DEF RowsFound
    <2>10. Find(OmsId(e.r.order_id), c) = RowOf(c)
      BY <2>0, <2>4, <2>5, LookUp
    <2>11. /\ \E new : /\ ClientFits(Tail(q), c, new, venue[c], applied')
                       /\ \/ new = orders[RowOf(c)] /\ UNCHANGED <<initialized, counter, clientIndex, orders>>
                          \/ RowMoves(RowOf(c), new)
           /\ \/ applied' = applied
              \/ \E k \in 1..OrderVolume : applied' = applied \cup {TradeKey(c, k)} /\ k <= venue[c].traded
      <3>1. CASE e.type = "order"
        <4>1. PICK o \in OrderReport :
                /\ o = OmsReport(e.r)
                /\ LET id == Find(o.order_id, o.client)
                   IN \/ id = NoId /\ UNCHANGED <<initialized, counter, clientIndex, orders>>
                      \/ RowMoves(id, Merged(orders[id], o))
          BY <2>1, <2>3, <3>1, HandleShape
        <4>2. /\ e.r \in VenueReports /\ o.order_id = OmsId(e.r.order_id) /\ o.client = c
              /\ o.status = e.r.status /\ o.traded = e.r.traded /\ o.volume = OrderVolume
              /\ o.left = e.r.left
          BY <2>4, <3>1, <4>1, EventTypes, OmsReportTyped, EpochTyped DEF SyncTyped
        <4>3. o.status \in Reported
          BY <4>2 DEF VenueReports, Reported
        <4>4. RowMoves(RowOf(c), Merged(orders[RowOf(c)], o))
          BY <2>9, <2>10, <4>1, <4>2
        <4>5. ClientFits(Tail(q), c, Merged(orders[RowOf(c)], o), venue[c], applied)
          BY <2>1, <2>3, <2>4, <2>9, <3>1, <4>2, <4>3, OrderHandled
        <4>6. applied' = applied
          BY <2>1, <2>3, <3>1, HandledReport
        <4> QED BY <4>4, <4>5, <4>6
      <3>2. CASE e.type # "order"
        <4>1. e.type = "trade" /\ e.r \in VenueTrades /\ TradeFits(e.r, venue[c])
          BY <2>7, <3>2, EventTypes DEF EventFits
        <4>2. PICK o : /\ o = OmsTrade(e.r) /\ o.order_id = OmsId(e.r.order_id) /\ o.client = c
                       /\ o.volume = 1 /\ o.key = TradeKey(c, e.r.report_index)
          BY <2>4, <4>1, OmsTradeFields
        <4>3. PICK k \in 1..OrderVolume : k = e.r.report_index /\ k <= venue[c].traded
          BY <2>4, <4>1, OmsTradeFields
        <4>4. \/ ~TradeAccepted(RowOf(c), o) /\ UNCHANGED omsVars
              \/ /\ TradeAccepted(RowOf(c), o) /\ RowMoves(RowOf(c), Traded(orders[RowOf(c)], o))
                 /\ applied' = applied \cup {o.key}
          BY <2>1, <2>3, <2>10, <4>1, <4>2, HandleShape
        <4>5. CASE ~TradeAccepted(RowOf(c), o) /\ UNCHANGED omsVars
          <5>1. TradeKey(c, k) \in applied
                \/ ~CanTransition(orders[RowOf(c)].state, TradeState(orders[RowOf(c)], o))
            BY <2>9, <4>2, <4>3, <4>5 DEF TradeAccepted
          <5>2. applied' = applied /\ UNCHANGED <<initialized, counter, clientIndex, orders>>
            BY <4>5 DEF omsVars
          <5>3. ClientFits(Tail(q), c, orders[RowOf(c)], venue[c], applied)
            BY <2>1, <2>3, <2>4, <2>9, <4>1, <4>2, <4>3, <5>1, TradeHandled
          <5> QED BY <5>2, <5>3
        <4>6. CASE /\ TradeAccepted(RowOf(c), o) /\ RowMoves(RowOf(c), Traded(orders[RowOf(c)], o))
                   /\ applied' = applied \cup {o.key}
          <5>1. CanTransition(orders[RowOf(c)].state, TradeState(orders[RowOf(c)], o))
            BY <4>6 DEF TradeAccepted
          <5>2. applied' = applied \cup {TradeKey(c, k)}
            BY <4>2, <4>3, <4>6
          <5>3. ClientFits(Tail(q), c, Traded(orders[RowOf(c)], o), venue[c], applied')
            BY <2>1, <2>3, <2>4, <2>9, <4>1, <4>2, <4>3, <5>1, <5>2, TradeHandled
          <5> QED BY <4>3, <4>6, <5>2, <5>3
        <4> QED BY <4>4, <4>5, <4>6
      <3> QED BY <3>1, <3>2
    <2>12. PICK new : /\ ClientFits(Tail(q), c, new, venue[c], applied')
                      /\ \/ new = orders[RowOf(c)] /\ UNCHANGED <<initialized, counter, clientIndex, orders>>
                         \/ RowMoves(RowOf(c), new)
      BY <2>11
    <2>13. \A d \in ClientIds :
             /\ RowOf(d)' = RowOf(d)
             /\ RowOf(d) # NoId => orders'[RowOf(d)] = IF d = c THEN new ELSE orders[RowOf(d)]
      <3>1. CASE new = orders[RowOf(c)] /\ UNCHANGED <<initialized, counter, clientIndex, orders>>
        BY <2>8, <3>1 DEF RowsFound
      <3>2. CASE RowMoves(RowOf(c), new)
        BY <2>8, <3>2, RowsMove
      <3> QED BY <2>12, <3>1, <3>2
    <2>14. \A d \in ClientIds : Placed(d) =>
             /\ RowOf(d)' = RowOf(d) /\ RowOf(d) # NoId
             /\ ClientFits(Tail(q), d, orders'[RowOf(d)], venue[d], applied')
      <3> SUFFICES ASSUME NEW d \in ClientIds, Placed(d)
                   PROVE  /\ RowOf(d)' = RowOf(d) /\ RowOf(d) # NoId
                          /\ ClientFits(Tail(q), d, orders'[RowOf(d)], venue[d], applied')
        OBVIOUS
      <3>1. CASE d = c
        BY <2>9, <2>12, <2>13, <3>1
      <3>2. CASE d # c
        <4>1. RowOf(d) # NoId /\ ClientFits(q, d, orders[RowOf(d)], venue[d], applied)
          BY <2>6
        <4>2. \A k \in 1..OrderVolume : TradeKey(d, k) \in applied' => TradeKey(d, k) \in applied
          BY <2>11, <3>2, KeysAlwaysDiffer DEF KeysDiffer
        <4>3. ClientFits(Tail(q), d, orders[RowOf(d)], venue[d], applied')
          BY <2>1, <2>3, <2>4, <3>2, <4>1, <4>2, OtherLeaves
        <4> QED BY <2>13, <3>2, <4>1, <4>3
      <3> QED BY <3>1, <3>2
    <2>15. RunInv'
      <3>1. \A d \in ClientIds : Placed(d)' <=> Placed(d)
        BY <1>1 DEF Placed
      <3> QED BY <1>1, <2>2, <2>14, <3>1 DEF RunInv
    <2>16. AppliedInv'
      <3>1. \A d \in ClientIds : venue[d].traded <= venue'[d].traded
        BY <1>1, SyncAssumption DEF SyncTyped, VenueTyped, VenueEntry
      <3>2. \A x \in applied' : \/ x \in applied
                                \/ \E d \in ClientIds : \E k \in 1..OrderVolume :
                                     x = TradeKey(d, k) /\ k <= venue[d].traded
        BY <2>11
      <3> QED BY <1>1, <3>1, <3>2, AppliedKept DEF AgreeInv
    <2> QED BY <1>2, <2>15, <2>16 DEF AgreeInv
  <1> QED BY <1>1, <1>3, <1>4

\* The lane has room for what is on the wire, and every report is valid.
LEMMA CallbackMoves ==
  ASSUME SyncTyped, LaneRoom >= MaxInFlight, Callback, stage = "running"
  PROVE  InFlight' = InFlight
  <1>1. /\ lane \in Seq(Events) /\ wire \in Seq(Events) /\ wire # <<>>
        /\ UNCHANGED <<controlVars, venue, connected, bookVars>> /\ wire' = Tail(wire)
    BY DEF Callback, SyncTyped, EventsTyped
  <1>2. PICK e \in Events : e = Head(wire)
    BY <1>1, Ends
  <1>3. IF e.type = "order" THEN IsValidOrder(e.r) ELSE IsValidTrade(e.r)
    <2>1. CASE e.type = "order"
      <3>1. e.r \in VenueReports /\ OrderVolume \in Nat
        BY <2>1, EventTypes, SyncAssumption
      <3>2. e.r.client # 0 /\ e.r.volume = OrderVolume /\ e.r.left \in 0..OrderVolume
            /\ e.r.traded \in 0..OrderVolume
        BY <3>1, ConstantsAssumption DEF VenueReports, NoClient
      <3> QED BY <2>1, <3>1, <3>2 DEF IsValidOrder, HasOrder
    <2>2. CASE e.type # "order"
      <3>1. e.r \in VenueTrades
        BY <2>2, EventTypes
      <3>2. e.r.client # 0 /\ e.r.volume = 1
        BY <3>1, ConstantsAssumption DEF VenueTrades, NoClient
      <3> QED BY <2>2, <3>2 DEF IsValidTrade
    <2> QED BY <2>1, <2>2
  <1>4. Len(lane) < LaneRoom
    <2>1. Len(lane) \in Nat /\ Len(wire) \in Nat \ {0} /\ MaxInFlight \in Nat /\ LaneRoom \in Nat
          /\ Len(wire) + Len(lane) <= MaxInFlight
      BY <1>1, Ends, LenProperties, SyncAssumption DEF SyncTyped, EventsTyped
    <2> QED BY <2>1
  <1>5. running
    BY Zenon DEF SyncTyped, ControlTyped
  <1>6. lane' = Append(lane, e)
    BY <1>2, <1>3, <1>4, <1>5 DEF Callback
  <1>7. wire = <<e>> \o Tail(wire) /\ lane' = lane \o <<e>>
    BY <1>1, <1>2, <1>6, HeadTailProperties, AppendIsConcat
  <1>8. (lane \o <<e>>) \o Tail(wire) = lane \o (<<e>> \o Tail(wire))
    BY <1>1, Ends, OneEvent, ConcatAssociative
  <1> QED BY <1>1, <1>7, <1>8 DEF InFlight

LEMMA CallbackAgreeStep ==
  ASSUME SyncTyped, SyncTyped', TablesInv, TablesInv', AgreeInv, Callback
  PROVE  AgreeInv'
  <1>1. UNCHANGED <<stage, venue, answers, orders, clientIndex, applied>>
    BY DEF Callback, controlVars, bookVars, omsVars
  <1>2. stage \notin Starting
    BY DEF Callback, AgreeInv, StartInv
  <1>3. StartInv' /\ AppliedInv'
    BY <1>1, <1>2 DEF AgreeInv, StartInv, AppliedInv, Starting
  <1>4. CASE stage # "running"
    BY <1>1, <1>3, <1>4 DEF AgreeInv, RunInv
  <1>5. CASE stage = "running"
    <2>1. InFlight' = InFlight
      BY <1>5, CallbackMoves DEF AgreeInv
    <2>2. \A d \in ClientIds : (Placed(d)' <=> Placed(d)) /\ RowOf(d)' = RowOf(d)
      BY <1>1 DEF Placed, RowOf, GetOrderByClientId, Present
    <2>3. RunInv'
      BY <1>1, <2>1, <2>2 DEF AgreeInv, RunInv
    <2> QED BY <1>3, <2>3 DEF AgreeInv
  <1> QED BY <1>4, <1>5

\* While the engine runs, every event the venue sends joins those under way.
LEMMA Joins ==
  ASSUME SyncTyped, stage = "running", NEW events \in Seq(Events), Sends(events), lane' = lane
  PROVE  InFlight' = InFlight \o events /\ InFlight \in Seq(Events)
  <1>1. wire' = wire \o events
    BY SendsTyped
  <1>2. lane \in Seq(Events) /\ wire \in Seq(Events)
    BY DEF SyncTyped, EventsTyped
  <1>3. (lane \o wire) \o events = lane \o (wire \o events)
    BY <1>2, ConcatAssociative
  <1>4. lane \o wire \in Seq(Events)
    BY <1>2, ConcatProperties
  <1> QED BY <1>1, <1>3, <1>4 DEF InFlight

\* The report of an order the venue holds, as an event.
LEMMA ReportEvent ==
  ASSUME VenueTyped', NEW c \in ClientIds, Placed(c)'
  PROVE  LET x == OrderEvent(Report(c)')
             w == venue'[c]
         IN /\ x \in Events /\ x.type = "order" /\ x.r.client = c /\ x.r = Report(c)'
            /\ EventFits(x, w) /\ Level(x) = w.traded
            /\ w.traded # 0 => ~Says(x, "New")
            /\ w.status = "Canceled" => Says(x, "Canceled") /\ ~Says(x, "New")
  <1>1. PICK rep \in VenueReports : rep = Report(c)' /\ IsLastWord(rep, venue'[c]) /\ rep.client = c
    BY ReportsTypedLater DEF ReportsFit
  <1>2. PICK w : w = venue'[c]
    OBVIOUS
  <1>3. PICK x \in Events : x = OrderEvent(rep) /\ x.type = "order" /\ x.r = rep
    <2>1. OrderEvent(rep).type = "order" /\ OrderEvent(rep).r = rep
      BY DEF OrderEvent
    <2> QED BY <2>1, EventTypes
  <1>4. EventFits(x, w) /\ Level(x) = w.traded /\ (w.traded # 0 => ~Says(x, "New"))
    BY <1>1, <1>2, <1>3 DEF EventFits, Level, IsLastWord, ReportFits, Says
  <1>5. w.status = "Canceled" => rep.status = "Canceled"
    BY <1>1, <1>2 DEF Report
  <1>6. w.status = "Canceled" => Says(x, "Canceled") /\ ~Says(x, "New")
    BY <1>3, <1>5 DEF Says
  <1> QED BY <1>1, <1>2, <1>3, <1>4, <1>6

\* A trade of an order the venue holds as w, as an event.
LEMMA TradeAsEvent ==
  ASSUME VenueTyped, NEW c \in ClientIds, NEW w \in VenueEntry, w.traded \in 1..OrderVolume
  PROVE  LET y == TradeEvent(VenueTrade(c, w.traded))
         IN /\ y \in Events /\ y.type = "trade" /\ y.r.client = c
            /\ EventFits(y, w) /\ Level(y) = w.traded /\ ~Says(y, "New")
  <1>1. PICK k \in 1..OrderVolume : k = w.traded
    OBVIOUS
  <1>2. PICK t \in VenueTrades : t = VenueTrade(c, k) /\ t.client = c /\ t.report_index = k
    BY TradeTyped
  <1>3. PICK y \in Events : y = TradeEvent(t) /\ y.type = "trade" /\ y.r = t
    <2>1. TradeEvent(t).type = "trade" /\ TradeEvent(t).r = t
      BY DEF TradeEvent
    <2> QED BY <2>1, EventTypes
  <1>4. EventFits(y, w) /\ Level(y) = w.traded /\ ~Says(y, "New")
    BY <1>1, <1>2, <1>3 DEF EventFits, TradeFits, Level, Says
  <1> QED BY <1>1, <1>2, <1>3, <1>4

LEMMA VenueAgreeStep ==
  ASSUME SyncTyped, SyncTyped', TablesInv, TablesInv', AgreeInv, Venue
  PROVE  AgreeInv'
  <1>1. PICK c \in ClientIds : VenueFill(c) \/ VenueCancel(c) \/ VenueRepeat(c)
    BY DEF Venue
  <1>2. PICK w \in VenueEntry :
          /\ EntryFits(w) /\ EntryMoves(venue[c], w)
          /\ w.traded \in 1..OrderVolume \/ w.status # venue[c].status
          /\ venue' = [venue EXCEPT ![c] = w] /\ venue'[c] = w
          /\ (\E es \in EventsOf(c, w) : Sends(es)) /\ VenueActs
    BY <1>1, VenueShape
  <1>3. /\ UNCHANGED <<controlVars, bookVars, lane, connected>>
        /\ UNCHANGED <<stage, answers, orders, clientIndex, lane, applied>>
        /\ stage \notin Starting
    BY <1>2 DEF VenueActs, AgreeInv, controlVars, bookVars, omsVars
  <1>4. VenueTyped /\ VenueTyped' /\ Placed(c) /\ Placed(c)'
    BY <1>2 DEF SyncTyped, Placed, EntryMoves
  <1>5. PICK v \in VenueEntry : v = venue[c]
    BY <1>4 DEF VenueTyped
  <1>6. \A d \in ClientIds : d # c => venue'[d] = venue[d] /\ (Placed(d)' <=> Placed(d))
    BY <1>2, <1>4 DEF VenueTyped, Placed
  <1>7. \A d \in ClientIds : venue[d].traded <= venue'[d].traded
    <2>1. v.traded <= w.traded
      BY <1>2, <1>5, SyncAssumption DEF EntryMoves, VenueEntry
    <2>2. \A d \in ClientIds : venue[d].traded \in Nat
      BY <1>4, SyncAssumption DEF VenueTyped, VenueEntry
    <2> QED BY <1>2, <1>5, <1>6, <2>1, <2>2
  <1>8. StartInv' /\ AppliedInv'
    <2>1. AppliedInv'
      BY <1>3, <1>7, AppliedKept DEF AgreeInv
    <2> QED BY <1>3, <2>1 DEF StartInv, Starting
  <1>9. CASE stage # "running"
    BY <1>3, <1>8, <1>9 DEF AgreeInv, RunInv
  <1>10. CASE stage = "running"
    <2>1. PICK q \in Seq(Events) : q = InFlight
      BY ConcatProperties DEF InFlight, SyncTyped, EventsTyped
    <2>2. PICK es \in Seq(Events) : es \in EventsOf(c, w) /\ InFlight' = q \o es
      <3>1. EventsOf(c, w) \subseteq Seq(Events)
        BY <1>2, <1>4, EventsOfTyped
      <3>2. PICK es \in Seq(Events) : es \in EventsOf(c, w) /\ Sends(es)
        BY <1>2, <3>1
      <3>3. InFlight' = q \o es
        BY <1>3, <1>10, <2>1, <3>2, Joins
      <3> QED BY <3>2, <3>3
    <2>3. \A d \in ClientIds : Placed(d) =>
            RowOf(d) # NoId /\ ClientFits(q, d, orders[RowOf(d)], venue[d], applied)
      BY <1>10, <2>1 DEF AgreeInv, RunInv
    <2>4. \A d \in ClientIds : RowOf(d)' = RowOf(d)
      BY <1>3 DEF RowOf, GetOrderByClientId, Present
    <2>5. PICK e \in Entry : e = orders[RowOf(c)] /\ ClientFits(q, c, e, v, applied)
      <3>1. RowsFound
        BY RowsAround
      <3> QED BY <1>4, <1>5, <2>3, <3>1 DEF RowsFound
    <2>6. /\ \A k \in 1..OrderVolume : TradeKey(c, k) \in applied => k <= v.traded
          /\ \A k \in 1..OrderVolume : TradeKey(c, k) \in applied => k <= w.traded
      <3>1. \A k \in 1..OrderVolume : TradeKey(c, k) \in applied => k <= v.traded
        BY <1>5, <1>10 DEF AgreeInv, AppliedInv
      <3>2. \A k \in 1..OrderVolume : TradeKey(c, k) \in applied => k <= w.traded
        BY <1>2, <1>3, <1>8, <1>10 DEF AppliedInv
      <3> QED BY <3>1, <3>2
    <2>7. PICK x \in Events :
            /\ x = OrderEvent(Report(c)') /\ x.type = "order" /\ x.r.client = c
            /\ EventFits(x, w) /\ Level(x) = w.traded
            /\ w.traded # 0 => ~Says(x, "New")
            /\ w.status = "Canceled" => Says(x, "Canceled") /\ ~Says(x, "New")
      BY <1>2, <1>4, ReportEvent
    <2>8. w.traded \in 1..OrderVolume =>
            \E y \in Events : /\ y = TradeEvent(VenueTrade(c, w.traded)) /\ y.type = "trade"
                              /\ y.r.client = c /\ EventFits(y, w) /\ Level(y) = w.traded
                              /\ ~Says(y, "New")
      BY <1>4, TradeAsEvent
    <2>9. \A d \in ClientIds : d # c /\ Placed(d) =>
            RowOf(d) # NoId /\ ClientFits(q, d, orders[RowOf(d)], venue'[d], applied)
      BY <1>6, <2>3
    <2> DEFINE AllJoin(p) ==
                 /\ ClientFits(p, c, e, w, applied)
                 /\ \A d \in ClientIds : d # c /\ Placed(d) =>
                      ClientFits(p, d, orders[RowOf(d)], venue'[d], applied)
    <2>10. ASSUME w.traded = v.traded, w.status = v.status
           PROVE  AllJoin(InFlight')
      <3>1. w.traded \in 1..OrderVolume
        BY <1>2, <1>5, <2>10
      <3>2. PICK y \in Events : /\ y = TradeEvent(VenueTrade(c, w.traded)) /\ y.r.client = c
                                /\ EventFits(y, w) /\ Level(y) = w.traded /\ ~Says(y, "New")
        BY <2>8, <3>1
      <3>3. InFlight' = Append(q, y)
        <4>1. es = <<y>>
          BY <1>5, <2>2, <2>10, <3>2 DEF EventsOf
        <4> QED BY <2>2, <4>1, AppendIsConcat
      <3>4. ClientFits(Append(q, y), c, e, w, applied)
        BY <2>5, <2>6, <2>10, <3>2, EventJoins
      <3> QED BY <2>9, <3>2, <3>3, <3>4, OtherJoins
    <2>11. ASSUME w.traded = v.traded, w.status # v.status
           PROVE  AllJoin(InFlight')
      <3>1. InFlight' = Append(q, x)
        <4>1. es = <<x>>
          BY <1>5, <2>2, <2>7, <2>11 DEF EventsOf
        <4> QED BY <2>2, <4>1, AppendIsConcat
      <3>2. v.status = "queued" /\ w.status = "Canceled"
        BY <1>2, <1>5, <2>11, SyncAssumption DEF EntryMoves, VenueEntry
      <3>3. ClientFits(Append(q, x), c, e, w, applied)
        BY <2>5, <2>6, <2>7, <2>11, <3>2, EventJoins
      <3> QED BY <2>7, <2>9, <3>1, <3>3, OtherJoins
    <2>12. ASSUME w.traded # v.traded
           PROVE  AllJoin(InFlight')
      <3>1. /\ w.traded \in 1..OrderVolume /\ w.traded = v.traded + 1 /\ v.status = "queued"
            /\ w.status # "Canceled" /\ w.traded # 0
        BY <1>2, <1>5, <2>12, SyncAssumption DEF EntryMoves, VenueEntry
      <3>2. PICK y \in Events : /\ y = TradeEvent(VenueTrade(c, w.traded)) /\ y.r.client = c
                                /\ EventFits(y, w) /\ Level(y) = w.traded /\ ~Says(y, "New")
                                /\ y.type = "trade"
        BY <2>8, <3>1
      <3>3. PICK p \in Seq(Events) : p = Append(q, y)
        BY AppendProperties
      <3>4. InFlight' = p \/ InFlight' = Append(p, x)
        <4>1. es = <<y>> \/ es = <<y, x>>
          BY <1>5, <2>2, <2>7, <2>12, <3>2 DEF EventsOf
        <4>2. q \o <<y, x>> = Append(Append(q, y), x)
          OBVIOUS
        <4> QED BY <2>2, <3>3, <4>1, <4>2, AppendIsConcat
      <3>5. AllJoin(p)
        <4>1. ClientFits(Append(q, y), c, e, w, applied)
          BY <2>5, <2>6, <3>1, <3>2, EventJoins
        <4> QED BY <2>9, <3>2, <3>3, <4>1, OtherJoins
      <3>6. AllJoin(Append(p, x))
        <4>1. ClientFits(Append(p, x), c, e, w, applied)
          BY <2>6, <2>7, <3>1, <3>5, EventJoins
        <4> QED BY <2>7, <3>5, <4>1, OtherJoins
      <3> QED BY <3>4, <3>5, <3>6
    <2>13. AllJoin(InFlight')
      BY <2>10, <2>11, <2>12
    <2>14. RunInv'
      <3>1. RowOf(c) # NoId
        BY <1>4, <2>3
      <3> QED BY <1>2, <1>3, <1>6, <2>4, <2>5, <2>9, <2>13, <3>1 DEF RunInv
    <2> QED BY <1>8, <2>14 DEF AgreeInv
  <1> QED BY <1>9, <1>10

\* Nothing is under way about an order the venue does not know.
LEMMA NothingUnderWay ==
  ASSUME SyncTyped, TablesInv, NEW c \in ClientIds, ~Placed(c)
  PROVE  \A i \in 1..Len(InFlight) : InFlight[i].r.client # c
  <1>1. lane \in Seq(Events) /\ wire \in Seq(Events)
    BY DEF SyncTyped, EventsTyped
  <1>2. /\ Len(lane) \in Nat /\ Len(wire) \in Nat /\ Len(lane \o wire) = Len(lane) + Len(wire)
        /\ \A i \in 1..Len(lane) : (lane \o wire)[i] = lane[i]
        /\ \A i \in 1..Len(wire) : (lane \o wire)[Len(lane) + i] = wire[i]
    BY <1>1, Joined
  <1>3. /\ \A i \in 1..Len(lane) : lane[i].r.client # c
        /\ \A i \in 1..Len(wire) : wire[i].r.client # c
    BY DEF TablesInv, NamesInv, AllNamed, NamedBy, Placed
  <1> SUFFICES ASSUME NEW i \in 1..Len(lane \o wire)
               PROVE  (lane \o wire)[i].r.client # c
    BY DEF InFlight
  <1>4. CASE i \in 1..Len(lane)
    BY <1>2, <1>3, <1>4
  <1>5. CASE i \notin 1..Len(lane)
    <2>1. PICK n \in Nat, m \in Nat : n = Len(lane) /\ m = Len(wire)
      BY <1>2
    <2>2. i \in 1..(n + m) /\ i \notin 1..n
      BY <1>2, <1>5, <2>1
    <2>3. PICK k \in 1..m : i = n + k
      <3>1. i - n \in 1..m /\ i = n + (i - n)
        BY <2>2
      <3> QED BY <3>1
    <2> QED BY <1>2, <1>3, <2>1, <2>3
  <1> QED BY <1>4, <1>5

LEMMA SubmitAgreeStep ==
  ASSUME SyncTyped, SyncTyped', TablesInv, TablesInv', AgreeInv, NEW c \in ClientIds,
         SubmitOrder(c)
  PROVE  AgreeInv'
  <1>1. /\ stage = "running" /\ stage' = stage /\ lane' = lane /\ applied' = applied
        /\ venue[c] = Unplaced /\ NextId \in OrderIds
        /\ orders' = [orders EXCEPT ![NextId] = SubmittedRow(c)]
        /\ clientIndex' = [clientIndex EXCEPT ![c] = NextId]
        /\ venue' = [venue EXCEPT ![c] = SubmittedEntry] /\ venue'[c] = SubmittedEntry
        /\ Sends(<<OrderEvent(Report(c)')>>)
    BY SubmitShape DEF controlVars
  <1>2. VenueTyped /\ VenueTyped' /\ RowsFound /\ RowsFound' /\ OmsTyped
    BY RowsAround DEF SyncTyped
  <1>3. PICK w \in VenueEntry : /\ w = venue'[c] /\ w # Unplaced /\ w.traded = 0
                                /\ w.status = "queued"
    BY <1>1, SubmittedEntries
  <1>4. Placed(c)'
    BY <1>3 DEF Placed
  <1>5. PICK x \in Events : /\ x = OrderEvent(Report(c)') /\ x.type = "order" /\ x.r.client = c
                            /\ EventFits(x, w) /\ x.r.traded = 0
    <2>1. PICK x \in Events : /\ x = OrderEvent(Report(c)') /\ x.type = "order" /\ x.r.client = c
                              /\ EventFits(x, w) /\ Level(x) = w.traded
      BY <1>2, <1>3, <1>4, ReportEvent
    <2> QED BY <1>3, <2>1 DEF Level
  <1>6. PICK q \in Seq(Events) : q = InFlight /\ InFlight' = Append(q, x)
    <2>1. <<x>> \in Seq(Events)
      BY OneEvent
    <2>2. InFlight \in Seq(Events) /\ InFlight' = InFlight \o <<x>>
      BY <1>1, <1>5, <2>1, Joins
    <2> QED BY <2>2, AppendIsConcat
  <1>7. \A i \in 1..Len(q) : q[i].r.client # c
    BY <1>1, <1>6, NothingUnderWay DEF Placed
  <1>8. \A d \in ClientIds : Placed(d) =>
          RowOf(d) # NoId /\ ClientFits(q, d, orders[RowOf(d)], venue[d], applied)
    BY <1>1, <1>6 DEF AgreeInv, RunInv
  <1>9. \A d \in ClientIds : d # c => venue'[d] = venue[d] /\ (Placed(d)' <=> Placed(d))
    BY <1>1, <1>2 DEF VenueTyped, Placed
  <1>10. RowOf(c)' = NextId /\ NextId # NoId /\ orders'[NextId] = SubmittedRow(c)
    BY <1>1, <1>2, IdFacts DEF RowsFound, OmsTyped
  <1>11. ClientFits(Append(q, x), c, SubmittedRow(c), w, applied)
    <2>1. PICK e \in Entry : /\ e = SubmittedRow(c) /\ e.state = "Working"
                             /\ e.volume = OrderVolume /\ e.traded = 0
      BY SubmittedRows
    <2>2. RowFits(e, w)
      BY <1>3, <2>1, SyncAssumption DEF RowFits
    <2>3. \A k \in 1..OrderVolume : TradeKey(c, k) \notin applied
      <3>1. venue[c].traded = 0
        BY <1>1 DEF Unplaced
      <3> QED BY <1>1, <3>1 DEF AgreeInv, AppliedInv
    <2>4. ClientFits(Append(q, x), c, e, w, applied)
      BY <1>3, <1>5, <1>7, <2>1, <2>2, <2>3, FirstJoins
    <2> QED BY <2>1, <2>4
  <1>12. \A d \in ClientIds : d # c /\ Placed(d) =>
           /\ RowOf(d)' # NoId
           /\ ClientFits(Append(q, x), d, orders'[RowOf(d)'], venue'[d], applied)
    <2> SUFFICES ASSUME NEW d \in ClientIds, d # c, Placed(d)
                 PROVE  /\ RowOf(d)' # NoId
                        /\ ClientFits(Append(q, x), d, orders'[RowOf(d)'], venue'[d], applied)
      OBVIOUS
    <2>1. RowOf(d)' = RowOf(d)
      BY <1>1, <1>2 DEF RowsFound, OmsTyped
    <2>2. RowOf(d) # NoId /\ RowOf(d) \in OrderIds
      BY <1>2, <1>8 DEF RowsFound
    <2>3. RowOf(d) # NextId
      <3>1. orders'[RowOf(d)].client = d
        BY <1>2, <2>1, <2>2 DEF RowsFound
      <3>2. orders'[NextId].client = c
        BY <1>10, SubmittedRows
      <3> QED BY <3>1, <3>2
    <2>4. orders'[RowOf(d)] = orders[RowOf(d)]
      BY <1>1, <1>2, <2>2, <2>3 DEF OmsTyped
    <2>5. ClientFits(Append(q, x), d, orders[RowOf(d)], venue[d], applied)
      BY <1>5, <1>8, OtherJoins
    <2> QED BY <1>9, <2>1, <2>2, <2>4, <2>5
  <1>13. RunInv'
    BY <1>1, <1>3, <1>6, <1>9, <1>10, <1>11, <1>12 DEF RunInv
  <1>14. AppliedInv'
    <2>1. \A d \in ClientIds : venue[d].traded <= venue'[d].traded
      <3>1. \A d \in ClientIds : venue[d].traded \in Nat
        BY <1>2, SyncAssumption DEF VenueTyped, VenueEntry
      <3>2. venue[c].traded = 0
        BY <1>1 DEF Unplaced
      <3> QED BY <1>3, <1>9, <3>1, <3>2
    <2> QED BY <1>1, <2>1, AppliedKept DEF AgreeInv
  <1>15. StartInv'
    BY <1>1 DEF StartInv, Starting
  <1> QED BY <1>13, <1>14, <1>15 DEF AgreeInv

\* A cancellation moves an open row among the open states, and if the venue
\* obeys, its report of the end joins what is under way.
LEMMA CancelAgreeStep ==
  ASSUME SyncTyped, SyncTyped', TablesInv, TablesInv', AgreeInv, NEW c \in ClientIds,
         Cancel(c)
  PROVE  AgreeInv'
  <1>1. PICK f \in Entry :
          /\ stage = "running" /\ stage' = stage /\ lane' = lane /\ applied' = applied
          /\ RowOf(c) # NoId /\ RowOf(c) \in OrderIds /\ Present(RowOf(c))
          /\ orders[RowOf(c)] \in Entry /\ orders[RowOf(c)].state \notin Terminal
          /\ orders' = [orders EXCEPT ![RowOf(c)] = f] /\ clientIndex' = clientIndex
          /\ f.volume = orders[RowOf(c)].volume /\ f.traded = orders[RowOf(c)].traded
          /\ f.state \in OpenStates /\ (f.state = "PartiallyFilled" => orders[RowOf(c)].traded > 0)
          /\ \/ UNCHANGED <<venue, wire>>
             \/ /\ VenueLive(c)
                /\ venue' = [venue EXCEPT ![c] = CanceledEntry(venue[c], AbsId(RowOf(c)))]
                /\ Sends(<<OrderEvent(Report(c)')>>)
    BY CancelShape DEF controlVars
  <1>2. VenueTyped /\ VenueTyped' /\ RowsFound /\ RowsFound' /\ OmsTyped
    BY RowsAround DEF SyncTyped
  <1>3. Placed(c)
    <2>1. orders[RowOf(c)].client = c
      BY <1>1, <1>2 DEF RowsFound
    <2> QED BY <1>1, <2>1 DEF TablesInv, RowsInv
  <1>4. PICK e \in Entry, v \in VenueEntry : e = orders[RowOf(c)] /\ v = venue[c] /\ EntryFits(v)
    BY <1>1, <1>2 DEF VenueTyped
  <1>5. PICK q \in Seq(Events) : q = InFlight
    BY ConcatProperties DEF InFlight, SyncTyped, EventsTyped
  <1>6. \A d \in ClientIds : Placed(d) =>
          RowOf(d) # NoId /\ ClientFits(q, d, orders[RowOf(d)], venue[d], applied)
    BY <1>1, <1>5 DEF AgreeInv, RunInv
  <1>7. ClientFits(q, c, f, v, applied)
    BY <1>1, <1>3, <1>4, <1>6, StateMoves
  <1>8. \A d \in ClientIds :
          /\ RowOf(d)' = RowOf(d)
          /\ RowOf(d) # NoId => orders'[RowOf(d)] = IF d = c THEN f ELSE orders[RowOf(d)]
    <2> SUFFICES ASSUME NEW d \in ClientIds
                 PROVE  /\ RowOf(d)' = RowOf(d)
                        /\ RowOf(d) # NoId =>
                             orders'[RowOf(d)] = IF d = c THEN f ELSE orders[RowOf(d)]
      OBVIOUS
    <2>1. RowOf(d)' = RowOf(d)
      BY <1>1, <1>2 DEF RowsFound
    <2>2. ASSUME RowOf(d) # NoId
          PROVE  orders'[RowOf(d)] = IF d = c THEN f ELSE orders[RowOf(d)]
      <3>1. RowOf(d) \in OrderIds /\ orders[RowOf(d)].client = d /\ orders[RowOf(c)].client = c
        BY <1>1, <1>2, <2>2 DEF RowsFound
      <3> QED BY <1>1, <1>2, <3>1 DEF OmsTyped
    <2> QED BY <2>1, <2>2
  <1>9. StartInv'
    BY <1>1 DEF StartInv, Starting
  <1>10. CASE UNCHANGED <<venue, wire>>
    <2>1. InFlight' = q /\ \A d \in ClientIds : Placed(d)' <=> Placed(d)
      BY <1>1, <1>5, <1>10 DEF InFlight, Placed
    <2>2. RunInv'
      BY <1>1, <1>4, <1>6, <1>7, <1>8, <1>10, <2>1 DEF RunInv
    <2>3. AppliedInv'
      BY <1>1, <1>10 DEF AgreeInv, AppliedInv
    <2> QED BY <1>9, <2>2, <2>3 DEF AgreeInv
  <1>11. CASE /\ VenueLive(c)
              /\ venue' = [venue EXCEPT ![c] = CanceledEntry(venue[c], AbsId(RowOf(c)))]
              /\ Sends(<<OrderEvent(Report(c)')>>)
    <2>1. v.status = "queued"
      BY <1>4, <1>11 DEF VenueLive
    <2>2. PICK w \in VenueEntry : w = venue'[c]
      BY <1>2 DEF VenueTyped
    <2>3. w.traded = v.traded /\ w.status = "Canceled"
      <3>1. w = CanceledEntry(v, AbsId(RowOf(c)))
        BY <1>2, <1>4, <1>11, <2>2 DEF VenueTyped
      <3>2. PICK id : id = AbsId(RowOf(c))
        OBVIOUS
      <3>3. w = [[v EXCEPT !.id = id] EXCEPT !.status = "Canceled"]
        BY <3>1, <3>2 DEF CanceledEntry
      <3>4. PICK u : u = [v EXCEPT !.id = id]
        OBVIOUS
      <3>5. u.traded = v.traded /\ DOMAIN u = {"id", "traded", "status", "seen", "again"}
        BY <3>4 DEF VenueEntry
      <3>6. w = [u EXCEPT !.status = "Canceled"]
        BY <3>3, <3>4
      <3> QED BY <3>5, <3>6
    <2>4. Placed(c)'
      BY <2>2, <2>3 DEF Placed, Unplaced
    <2>5. PICK x \in Events :
            /\ x = OrderEvent(Report(c)') /\ x.type = "order" /\ x.r.client = c
            /\ EventFits(x, w) /\ Level(x) = w.traded /\ Says(x, "Canceled") /\ ~Says(x, "New")
      BY <1>2, <2>2, <2>3, <2>4, ReportEvent
    <2>6. InFlight' = Append(q, x)
      <3>1. <<x>> \in Seq(Events)
        BY OneEvent
      <3>2. InFlight' = InFlight \o <<x>>
        BY <1>1, <1>11, <2>5, <3>1, Joins
      <3> QED BY <1>5, <3>2, AppendIsConcat
    <2>7. \A k \in 1..OrderVolume : TradeKey(c, k) \in applied => k <= v.traded
      BY <1>1, <1>4 DEF AgreeInv, AppliedInv
    <2>8. ClientFits(Append(q, x), c, f, w, applied)
      BY <1>7, <2>1, <2>3, <2>5, <2>7, EventJoins
    <2>9. \A d \in ClientIds : d # c => venue'[d] = venue[d] /\ (Placed(d)' <=> Placed(d))
      BY <1>2, <1>11 DEF VenueTyped, Placed
    <2>10. \A d \in ClientIds : d # c /\ Placed(d) =>
             ClientFits(Append(q, x), d, orders[RowOf(d)], venue'[d], applied)
      BY <1>6, <2>5, <2>9, OtherJoins
    <2>11. RunInv'
      BY <1>1, <1>6, <1>8, <2>2, <2>6, <2>8, <2>9, <2>10 DEF RunInv
    <2>12. AppliedInv'
      <3>1. \A d \in ClientIds : venue[d].traded <= venue'[d].traded
        <4>1. \A d \in ClientIds : venue[d].traded \in Nat
          BY <1>2, SyncAssumption DEF VenueTyped, VenueEntry
        <4> QED BY <1>4, <2>2, <2>3, <2>9, <4>1
      <3> QED BY <1>1, <3>1, AppliedKept DEF AgreeInv
    <2> QED BY <1>9, <2>11, <2>12 DEF AgreeInv
  <1> QED BY <1>1, <1>10, <1>11

-----------------------------------------------------------------------------
(* The books follow the venue: the start.                                  *)

LEMMA ReportsStay ==
  ASSUME venue' = venue
  PROVE  \A c \in ClientIds : Report(c)' = Report(c) /\ (Placed(c)' <=> Placed(c))
  BY DEF Report, Placed

LEMMA BootAgreeStep ==
  ASSUME SyncTyped, SyncTyped', TablesInv, TablesInv', AgreeInv, BootInit
  PROVE  AgreeInv'
  <1>1. /\ stage = "down" /\ stage' = "initiated" /\ wire = <<>> /\ wire' = wire
        /\ answers' = answers /\ clientIndex' = [c \in ClientIds |-> NoId]
    BY BootShape
  <1>2. answers' = NoAnswers
    BY <1>1 DEF SyncTyped, AnswersTyped
  <1>3. \A c \in ClientIds : RowOf(c)' = NoId
    BY <1>1, RowsAround DEF RowsFound
  <1>4. answers'.orders = {} /\ answers'.trades = {}
    BY <1>2 DEF NoAnswers
  <1>5. StartInv'
    BY <1>1, <1>3, <1>4 DEF StartInv
  <1>6. applied' = {}
    BY DEF BootInit, Initialize, ClearTables
  <1>7. AppliedInv'
    BY <1>6 DEF AppliedInv
  <1> QED BY <1>1, <1>5, <1>7 DEF AgreeInv, RunInv

LEMMA QueryAgreeStep ==
  ASSUME SyncTyped, SyncTyped', TablesInv, TablesInv', AgreeInv, QuerySteps
  PROVE  AgreeInv'
  <1>1. /\ stage \in Starting /\ stage' \in (Starting \ {"synced", "initiated"}) \cup {"failed"}
        /\ venue' = venue /\ wire' = wire /\ UNCHANGED <<orders, clientIndex, applied>>
    BY QueryShape DEF venueVars, bookVars, omsVars
  <1>2. /\ wire = <<>>
        /\ \A r \in answers.orders : r = Report(r.client)
        /\ \A t \in answers.trades : TradeFits(t, venue[t.client])
        /\ \A c \in ClientIds : RowOf(c) # NoId =>
             RowFits(orders[RowOf(c)], venue[c]) /\ UpToDate(orders[RowOf(c)], venue[c])
        /\ stage = "initiated" => \A c \in ClientIds : RowOf(c) = NoId
        /\ stage # "initiated" => \A c \in ClientIds : Placed(c) =>
             (RowOf(c) = NoId <=> Report(c) \in answers.orders)
    BY <1>1 DEF AgreeInv, StartInv
  <1>3. RunInv' /\ stage' # "initiated"
    BY <1>1 DEF RunInv, Starting
  <1>4. \A c \in ClientIds : RowOf(c)' = RowOf(c)
    BY <1>1 DEF RowOf, GetOrderByClientId, Present
  <1>5. \A c \in ClientIds : Report(c)' = Report(c) /\ (Placed(c)' <=> Placed(c))
    BY <1>1, ReportsStay
  <1>6. /\ \A r \in VenueReports : r.client \in ClientIds
        /\ answers.orders \in SUBSET VenueReports /\ answers'.orders \in SUBSET VenueReports
        /\ answers \in [orders : SUBSET VenueReports, trades : SUBSET VenueTrades,
                        rows : SUBSET Row, power : Int]
    BY DEF VenueReports, SyncTyped, AnswersTyped
  <1>7. stage' = "failed" \/
          /\ \A r \in answers'.orders : r = Report(r.client)
          /\ \A t \in answers'.trades : TradeFits(t, venue[t.client])
          /\ \A c \in ClientIds : Placed(c) => (RowOf(c) = NoId <=> Report(c) \in answers'.orders)
    <2>1. CASE stage' = "failed"
      BY <2>1
    <2>2. CASE /\ stage = "initiated" /\ stage' = "trades"
               /\ answers' = [answers EXCEPT !.orders =
                                {Report(c) : c \in {d \in ClientIds : venue[d] # Unplaced}}]
      <3>1. PICK a : a = {Report(c) : c \in {d \in ClientIds : venue[d] # Unplaced}}
        OBVIOUS
      <3>2. answers' = [answers EXCEPT !.orders = a]
        BY <2>2, <3>1
      <3>3. answers'.orders = a /\ answers'.trades = answers.trades
        BY <1>6, <3>2
      <3>4. \A c \in ClientIds : Placed(c) => Report(c) \in a
        BY <3>1 DEF Placed
      <3>5. \A r \in a : r = Report(r.client)
        BY <3>1, PlacedFacts DEF Placed
      <3> QED BY <1>2, <2>2, <3>3, <3>4, <3>5
    <2>3. CASE /\ stage = "trades" /\ stage' = "positions"
               /\ answers' = [answers EXCEPT !.trades =
                    UNION {{VenueTrade(c, k) : k \in 1..venue[c].traded} : c \in ClientIds}]
      <3>1. PICK a : a = UNION {{VenueTrade(c, k) : k \in 1..venue[c].traded} : c \in ClientIds}
        OBVIOUS
      <3>2. answers' = [answers EXCEPT !.trades = a]
        BY <2>3, <3>1
      <3>3. answers'.orders = answers.orders /\ answers'.trades = a
        BY <1>6, <3>2
      <3>4. ASSUME NEW t \in a
            PROVE  TradeFits(t, venue[t.client])
        <4>1. VenueTyped
          BY DEF SyncTyped
        <4>2. /\ t \in VenueTrades /\ t.report_index \in 1..venue[t.client].traded
              /\ t = VenueTrade(t.client, t.report_index)
          BY <3>1, <4>1, TradesAnswerTyped
        <4>3. venue[t.client].traded \in Nat
          BY <4>1, <4>2, SyncAssumption DEF VenueTyped, VenueEntry, VenueTrades
        <4> QED BY <4>2, <4>3 DEF TradeFits
      <3> QED BY <1>2, <2>3, <3>3, <3>4
    <2>4. CASE /\ stage # "initiated" /\ answers'.orders = answers.orders
               /\ answers'.trades = answers.trades
      BY <1>2, <2>4
    <2>5. CASE stage = "positions" /\ answers' = [answers EXCEPT !.rows = VenueRows]
      BY <1>6, <2>4, <2>5
    <2>6. CASE stage = "asset" /\ answers' = [answers EXCEPT !.power = VenueCash]
      BY <1>6, <2>4, <2>6
    <2> QED BY <2>1, <2>2, <2>3, <2>5, <2>6, QueryShape
  <1>8. StartInv'
    <2>1. CASE stage' = "failed"
      BY <2>1 DEF StartInv, Starting
    <2>2. CASE stage' # "failed"
      <3>1. \A r \in answers'.orders : r = Report(r.client)'
        BY <1>5, <1>6, <1>7, <2>2
      <3>2. \A t \in answers'.trades : TradeFits(t, venue'[t.client])
        BY <1>1, <1>7, <2>2
      <3>3. \A c \in ClientIds : RowOf(c)' # NoId =>
              RowFits(orders'[RowOf(c)'], venue'[c]) /\ UpToDate(orders'[RowOf(c)'], venue'[c])
        BY <1>1, <1>2, <1>4
      <3>4. \A c \in ClientIds : Placed(c)' => (RowOf(c)' = NoId <=> Report(c)' \in answers'.orders)
        BY <1>4, <1>5, <1>7, <2>2
      <3> QED BY <1>1, <1>2, <1>3, <3>1, <3>2, <3>3, <3>4 DEF StartInv
    <2> QED BY <2>1, <2>2
  <1>9. AppliedInv'
    BY <1>1 DEF AgreeInv, AppliedInv, Starting
  <1> QED BY <1>3, <1>8, <1>9 DEF AgreeInv

\* With nothing under way a row that is up to date lacks nothing.
LEMMA NothingToCome ==
  ASSUME NEW c, NEW e \in Entry, NEW v \in VenueEntry, NEW a, RowFits(e, v), UpToDate(e, v),
         \A k \in 1..OrderVolume : TradeKey(c, k) \in a => k <= v.traded
  PROVE  ClientFits(<<>>, c, e, v, a)
  <1>1. OrderVolume \in Nat /\ v.traded \in Nat /\ e.traded \in Nat /\ v.traded <= e.traded
    BY SyncAssumption DEF VenueEntry, Entry, UpToDate
  <1>2. About(<<>>, c) = {}
    BY DEF About
  <1>3. (e.traded + 1)..v.traded = {}
    BY <1>1
  <1>4. QueueFits(<<>>, c, v)
    BY <1>2 DEF QueueFits
  <1>5. RowFollows(<<>>, c, e, v)
    BY <1>2, <1>3 DEF RowFollows, Coming, UpToDate
  <1>6. Counted(<<>>, c, e, a)
    BY <1>1, <1>2 DEF Counted
  <1> QED BY <1>4, <1>5, <1>6 DEF ClientFits

LEMMA EndsAgreeStep ==
  ASSUME SyncTyped, SyncTyped', TablesInv, TablesInv', AgreeInv,
         SyncBooks \/ StartEngineModules \/ StopRunning \/ Release
  PROVE  AgreeInv'
  <1>1. CASE SyncBooks
    <2>1. /\ stage = "apply" /\ stage' \in {"synced", "failed"} /\ answers' = NoAnswers
          /\ answers.orders = {} /\ venue' = venue /\ wire' = wire
          /\ UNCHANGED <<orders, clientIndex, applied>>
      BY <1>1 DEF SyncBooks, At, venueVars, omsVars
    <2>2. /\ wire = <<>>
          /\ \A c \in ClientIds : RowOf(c) # NoId =>
               RowFits(orders[RowOf(c)], venue[c]) /\ UpToDate(orders[RowOf(c)], venue[c])
          /\ \A c \in ClientIds : Placed(c) => (RowOf(c) = NoId <=> Report(c) \in answers.orders)
      BY <2>1 DEF AgreeInv, StartInv, Starting
    <2>3. answers'.orders = {} /\ answers'.trades = {}
      BY <2>1 DEF NoAnswers
    <2>4. \A c \in ClientIds : /\ RowOf(c)' = RowOf(c) /\ Report(c)' = Report(c)
                               /\ (Placed(c)' <=> Placed(c))
      BY <2>1, ReportsStay DEF RowOf, GetOrderByClientId, Present
    <2>5. StartInv' /\ AppliedInv'
      BY <2>1, <2>2, <2>3, <2>4 DEF AgreeInv, StartInv, AppliedInv, Starting
    <2> QED BY <2>1, <2>5 DEF AgreeInv, RunInv
  <1>2. CASE StartEngineModules
    <2>1. /\ stage = "synced" /\ stage' = "running" /\ venue' = venue /\ wire' = wire
          /\ lane' = lane /\ UNCHANGED <<orders, clientIndex, applied>>
      BY <1>2 DEF StartEngineModules, At, venueVars, bookVars, omsVars
    <2>2. /\ wire = <<>>
          /\ \A c \in ClientIds : RowOf(c) # NoId =>
               RowFits(orders[RowOf(c)], venue[c]) /\ UpToDate(orders[RowOf(c)], venue[c])
          /\ \A c \in ClientIds : Placed(c) => (RowOf(c) = NoId <=> Report(c) \in answers.orders)
      BY <2>1 DEF AgreeInv, StartInv, Starting
    <2>3. answers.orders = {} /\ lane = <<>>
      BY <2>1 DEF SyncTyped, AnswersTyped, EventsTyped, NoAnswers
    <2>4. InFlight' = <<>>
      BY <2>1, <2>2, <2>3 DEF InFlight
    <2>5. \A c \in ClientIds : RowOf(c)' = RowOf(c) /\ (Placed(c)' <=> Placed(c))
      BY <2>1, ReportsStay DEF RowOf, GetOrderByClientId, Present
    <2>6. AppliedInv'
      BY <2>1 DEF AgreeInv, AppliedInv, Starting
    <2>7. RowsFound
      BY RowsAround
    <2>8. ASSUME NEW c \in ClientIds, Placed(c)
          PROVE  RowOf(c) # NoId /\ ClientFits(<<>>, c, orders[RowOf(c)], venue[c], applied)
      <3>1. RowOf(c) # NoId
        BY <2>2, <2>3, <2>8
      <3>2. PICK e \in Entry : e = orders[RowOf(c)] /\ RowFits(e, venue[c]) /\ UpToDate(e, venue[c])
        BY <2>2, <2>7, <3>1 DEF RowsFound
      <3>3. PICK v \in VenueEntry : v = venue[c]
        BY DEF SyncTyped, VenueTyped
      <3>4. \A k \in 1..OrderVolume : TradeKey(c, k) \in applied => k <= v.traded
        BY <2>1, <3>3 DEF AgreeInv, AppliedInv, Starting
      <3>5. ClientFits(<<>>, c, e, v, applied)
        BY <3>2, <3>3, <3>4, NothingToCome
      <3> QED BY <3>1, <3>2, <3>3, <3>5
    <2>9. RunInv'
      BY <2>1, <2>4, <2>5, <2>8 DEF RunInv
    <2>10. StartInv'
      BY <2>1 DEF StartInv, Starting
    <2> QED BY <2>6, <2>9, <2>10 DEF AgreeInv
  <1>3. CASE StopRunning \/ Release
    <2>1. stage' \in {"stopping", "down"}
      BY <1>3 DEF StopRunning, Release, At
    <2> QED BY <2>1 DEF AgreeInv, RunInv, StartInv, AppliedInv, Starting
  <1> QED BY <1>1, <1>2, <1>3

\* An order of the answer is not a trade.
LEMMA AdoptionKeepsApplied ==
  ASSUME SyncOrder
  PROVE  applied' = applied
  BY DEF SyncOrder, MarkReconciled, ReconcileBrokerOrder, ReconcileKnown, Adopt

\* What an order of the answer becomes: its client had no row and has one now.
LEMMA SyncOrderAgreeStep ==
  ASSUME SyncTyped, SyncTyped', TablesInv, TablesInv', AgreeInv, SyncOrder
  PROVE  AgreeInv'
  <1>1. PICK r \in answers.orders :
           LET o  == OmsReport(r)
               id == Find(o.order_id, o.client)
           IN /\ r \in VenueReports /\ o \in OrderReport /\ stage = "apply"
              /\ \/ id # NoId
                 \/ id = NoId /\ \E new \in OrderIds : RowEnters(new, o)
              /\ answers' = [answers EXCEPT !.orders = @ \ {r}]
              /\ UNCHANGED <<stage, venueVars>>
    BY SyncOrderShape
  <1>2. /\ stage = "apply" /\ stage' = stage /\ venue' = venue /\ wire' = wire
    BY <1>1 DEF venueVars
  <1>3. /\ wire = <<>>
        /\ \A s \in answers.orders : s = Report(s.client)
        /\ \A t \in answers.trades : TradeFits(t, venue[t.client])
        /\ \A d \in ClientIds : RowOf(d) # NoId =>
             RowFits(orders[RowOf(d)], venue[d]) /\ UpToDate(orders[RowOf(d)], venue[d])
        /\ \A d \in ClientIds : Placed(d) => (RowOf(d) = NoId <=> Report(d) \in answers.orders)
    BY <1>2 DEF AgreeInv, StartInv, Starting
  <1>4. PICK c \in ClientIds : c = r.client /\ r = Report(c) /\ Placed(c) /\ RowOf(c) = NoId
    <2>1. r.client \in ClientIds /\ Named(r)
      BY <1>1 DEF VenueReports, TablesInv, NamesInv
    <2> QED BY <1>3, <2>1 DEF Named, NamedBy, Placed
  <1>5. PICK o \in OrderReport :
          /\ o = OmsReport(r) /\ o.order_id = OmsId(r.order_id) /\ o.client = c
          /\ o.status = r.status /\ o.traded = r.traded /\ o.volume = OrderVolume
          /\ o.left = r.left
    BY <1>1, <1>4, OmsReportTyped, EpochTyped DEF SyncTyped
  <1>6. Find(o.order_id, o.client) = NoId
    <2>1. Named(r)
      BY <1>1 DEF TablesInv, NamesInv
    <2>2. initialized = (stage # "down")
      BY DEF SyncTyped, ControlTyped
    <2>3. initialized
      BY <1>2, <2>2
    <2> QED BY <1>4, <1>5, <2>1, <2>3, LookUp
  <1>7. PICK new \in OrderIds : RowEnters(new, o)
    BY <1>1, <1>5, <1>6
  <1>8. /\ orders' = [orders EXCEPT ![new] = AdoptedEntry(o)]
        /\ clientIndex' = [d \in ClientIds |-> IF d = c THEN new ELSE clientIndex[d]]
    BY <1>5, <1>7 DEF RowEnters
  <1>9. RowsFound /\ RowsFound' /\ OmsTyped
    BY RowsAround DEF SyncTyped
  <1>10. RowFits(AdoptedEntry(o), venue[c]) /\ UpToDate(AdoptedEntry(o), venue[c])
    <2>1. venue[c] \in VenueEntry /\ IsLastWord(r, venue[c])
      BY <1>4, PlacedFacts
    <2>2. o.status \in Reported /\ IsLastWord(o, venue[c])
      BY <1>1, <1>5, <2>1 DEF VenueReports, Reported, IsLastWord, ReportFits
    <2> QED BY <1>5, <2>1, <2>2, AdoptedFits
  <1>11. RowOf(c)' = new /\ new # NoId /\ orders'[new] = AdoptedEntry(o)
    BY <1>8, <1>9, IdFacts DEF RowsFound, OmsTyped
  <1>12. \A d \in ClientIds : d # c =>
           /\ RowOf(d)' = RowOf(d)
           /\ RowOf(d) # NoId => orders'[RowOf(d)] = orders[RowOf(d)]
    <2> SUFFICES ASSUME NEW d \in ClientIds, d # c
                 PROVE  /\ RowOf(d)' = RowOf(d)
                        /\ RowOf(d) # NoId => orders'[RowOf(d)] = orders[RowOf(d)]
      OBVIOUS
    <2>1. RowOf(d)' = RowOf(d)
      BY <1>8, <1>9 DEF RowsFound
    <2>2. ASSUME RowOf(d) # NoId
          PROVE  orders'[RowOf(d)] = orders[RowOf(d)]
      <3>1. orders'[RowOf(d)].client = d /\ orders'[new].client = c /\ RowOf(d) \in OrderIds
        BY <1>9, <1>11, <2>1, <2>2 DEF RowsFound
      <3> QED BY <1>8, <1>9, <3>1 DEF OmsTyped
    <2> QED BY <2>1, <2>2
  <1>13. answers'.orders = answers.orders \ {r} /\ answers'.trades = answers.trades
    BY <1>1 DEF SyncTyped, AnswersTyped
  <1>14. \A d \in ClientIds : Report(d)' = Report(d) /\ (Placed(d)' <=> Placed(d))
    BY <1>2, ReportsStay
  <1>15. /\ \A s \in answers'.orders : s = Report(s.client)'
         /\ \A t \in answers'.trades : TradeFits(t, venue'[t.client])
    <2>1. \A s \in answers.orders : s.client \in ClientIds
      BY DEF SyncTyped, AnswersTyped, VenueReports
    <2> QED BY <1>2, <1>3, <1>13, <1>14, <2>1
  <1>16. \A d \in ClientIds : RowOf(d)' # NoId =>
           RowFits(orders'[RowOf(d)'], venue'[d]) /\ UpToDate(orders'[RowOf(d)'], venue'[d])
    BY <1>2, <1>3, <1>10, <1>11, <1>12
  <1>17. \A d \in ClientIds : Placed(d)' => (RowOf(d)' = NoId <=> Report(d)' \in answers'.orders)
    <2> SUFFICES ASSUME NEW d \in ClientIds, Placed(d)
                 PROVE  RowOf(d)' = NoId <=> Report(d) \in answers'.orders
      BY <1>14
    <2>1. CASE d = c
      BY <1>4, <1>11, <1>13, <2>1
    <2>2. CASE d # c
      <3>1. Report(d) # r
        BY <1>4, <2>2, PlacedFacts
      <3> QED BY <1>3, <1>12, <1>13, <2>2, <3>1
    <2> QED BY <2>1, <2>2
  <1>18. StartInv' /\ RunInv'
    BY <1>2, <1>3, <1>15, <1>16, <1>17 DEF StartInv, RunInv
  <1>19. AppliedInv'
    BY <1>2, AdoptionKeepsApplied DEF AgreeInv, AppliedInv
  <1> QED BY <1>18, <1>19 DEF AgreeInv

\* A trade of the answer, if the OMS takes it, leaves the row as up to date.
LEMMA SyncTradeAgreeStep ==
  ASSUME SyncTyped, SyncTyped', TablesInv, TablesInv', AgreeInv, SyncTrade
  PROVE  AgreeInv'
  <1>1. PICK t \in answers.trades :
          LET o == OmsTrade(t)
              id == Find(o.order_id, o.client)
          IN /\ t \in VenueTrades
             /\ answers' = [answers EXCEPT !.trades = @ \ {t}]
             /\ \/ UNCHANGED omsVars
                \/ TradeAccepted(id, o) /\ RowMoves(id, Traded(orders[id], o))
                   /\ applied' = applied \cup {o.key}
    BY SyncTradeShape
  <1>2. stage = "apply" /\ stage' = stage /\ venue' = venue /\ wire' = wire
    BY SyncTradeShape DEF venueVars
  <1>3. /\ wire = <<>>
        /\ \A s \in answers.orders : s = Report(s.client)
        /\ \A u \in answers.trades : TradeFits(u, venue[u.client])
        /\ \A d \in ClientIds : RowOf(d) # NoId =>
             RowFits(orders[RowOf(d)], venue[d]) /\ UpToDate(orders[RowOf(d)], venue[d])
        /\ \A d \in ClientIds : Placed(d) => (RowOf(d) = NoId <=> Report(d) \in answers.orders)
    BY <1>2 DEF AgreeInv, StartInv, Starting
  <1>4. PICK c \in ClientIds : c = t.client
    BY <1>1 DEF VenueTrades
  <1>5. PICK o : o = OmsTrade(t) /\ o.order_id = OmsId(t.order_id) /\ o.client = c
                 /\ o.volume = 1 /\ t.report_index \in 1..OrderVolume
                 /\ o.key = TradeKey(c, t.report_index) /\ t.report_index <= venue[c].traded
    BY <1>1, <1>3, <1>4, OmsTradeFields
  <1>6. Find(o.order_id, o.client) = RowOf(c)
    <2>1. Named(t)
      BY <1>1 DEF TablesInv, NamesInv
    <2>2. initialized = (stage # "down")
      BY DEF SyncTyped, ControlTyped
    <2>3. initialized
      BY <1>2, <2>2
    <2> QED BY <1>4, <1>5, <2>1, <2>3, LookUp
  <1>7. RowsFound /\ RowsFound' /\ OmsTyped
    BY RowsAround DEF SyncTyped
  <1>8. \A d \in ClientIds :
          /\ RowOf(d)' = RowOf(d)
          /\ RowOf(d) # NoId => RowFits(orders'[RowOf(d)], venue[d])
                                /\ UpToDate(orders'[RowOf(d)], venue[d])
    <2>1. CASE UNCHANGED omsVars
      BY <1>3, <1>7, <2>1 DEF omsVars, RowsFound
    <2>2. CASE TradeAccepted(RowOf(c), o) /\ RowMoves(RowOf(c), Traded(orders[RowOf(c)], o))
      <3>1. PICK new : new = Traded(orders[RowOf(c)], o) /\ RowMoves(RowOf(c), new)
        BY <2>2
      <3>2. RowOf(c) \in OrderIds /\ RowOf(c) # NoId
        BY <3>1, IdFacts DEF RowMoves
      <3>3. PICK e \in Entry : /\ e = orders[RowOf(c)] /\ RowFits(e, venue[c])
                               /\ UpToDate(e, venue[c]) /\ CanTransition(e.state, TradeState(e, o))
        BY <1>3, <1>7, <2>2, <3>2 DEF TradeAccepted, RowsFound
      <3>4. venue[c] \in VenueEntry /\ venue[c].traded # 0
        <4>1. venue[c] \in VenueEntry
          BY DEF SyncTyped, VenueTyped
        <4>2. t.report_index \in 1..OrderVolume /\ t.report_index <= venue[c].traded
          BY <1>5
        <4>3. venue[c].traded \in 0..OrderVolume /\ OrderVolume \in Nat
          BY <4>1, SyncAssumption DEF VenueEntry
        <4> QED BY <4>1, <4>2, <4>3
      <3>5. RowFits(new, venue[c]) /\ UpToDate(new, venue[c])
        BY <1>5, <3>1, <3>3, <3>4, TradedFits
      <3> QED BY <1>3, <1>7, <3>1, <3>5, RowsMove
    <2> QED BY <1>1, <1>5, <1>6, <2>1, <2>2
  <1>9. answers'.orders = answers.orders /\ answers'.trades \subseteq answers.trades
    BY <1>1 DEF SyncTyped, AnswersTyped
  <1>10. \A d \in ClientIds : Report(d)' = Report(d) /\ (Placed(d)' <=> Placed(d))
    BY <1>2, ReportsStay
  <1>11. /\ \A s \in answers'.orders : s = Report(s.client)'
         /\ \A u \in answers'.trades : TradeFits(u, venue'[u.client])
    <2>1. \A s \in answers.orders : s.client \in ClientIds
      BY DEF SyncTyped, AnswersTyped, VenueReports
    <2> QED BY <1>2, <1>3, <1>9, <1>10, <2>1
  <1>12. StartInv' /\ RunInv'
    BY <1>2, <1>3, <1>8, <1>9, <1>10, <1>11 DEF StartInv, RunInv
  <1>13. AppliedInv'
    <2>1. applied' = applied \/ applied' = applied \cup {TradeKey(c, t.report_index)}
      BY <1>1, <1>5 DEF omsVars
    <2>2. \A d \in ClientIds : venue[d].traded <= venue'[d].traded
      BY <1>2, SyncAssumption DEF SyncTyped, VenueTyped, VenueEntry
    <2>3. \A x \in applied' : \/ x \in applied
                              \/ \E d \in ClientIds : \E k \in 1..OrderVolume :
                                   x = TradeKey(d, k) /\ k <= venue[d].traded
      BY <1>5, <2>1
    <2> QED BY <1>2, <2>2, <2>3, AppliedKept DEF AgreeInv
  <1> QED BY <1>12, <1>13 DEF AgreeInv

LEMMA AgreeStep ==
  ASSUME SyncTyped, SyncTyped', TablesInv, TablesInv', AgreeInv, [SyncNext]_syncVars
  PROVE  AgreeInv'
  <1>1. CASE UNCHANGED syncVars
    <2>1. UNCHANGED <<stage, answers, venue, wire, lane, orders, clientIndex, applied>>
      BY <1>1 DEF syncVars, controlVars, venueVars, bookVars, omsVars
    <2>2. \A c \in ClientIds : /\ Report(c)' = Report(c) /\ (Placed(c)' <=> Placed(c))
                               /\ RowOf(c)' = RowOf(c)
      BY <2>1, ReportsStay DEF RowOf, GetOrderByClientId, Present
    <2>3. \A r \in answers.orders : r.client \in ClientIds
      BY DEF SyncTyped, AnswersTyped, VenueReports
    <2>4. RunInv' /\ AppliedInv'
      BY <2>1, <2>2 DEF AgreeInv, RunInv, AppliedInv, InFlight
    <2>5. StartInv'
      BY <2>1, <2>2, <2>3 DEF AgreeInv, StartInv
    <2> QED BY <2>4, <2>5 DEF AgreeInv
  <1>2. CASE SyncNext
    <2>1. QuerySteps => AgreeInv'
      BY QueryAgreeStep
    <2>2. Calls => AgreeInv'
      BY SubmitAgreeStep, CancelAgreeStep DEF Calls
    <2> QED BY <1>2, <2>1, <2>2, VenueAgreeStep, CallbackAgreeStep, HandleAgreeStep,
               BootAgreeStep, SyncOrderAgreeStep, SyncTradeAgreeStep, EndsAgreeStep
            DEF SyncNext, Control, QuerySteps
  <1> QED BY <1>1, <1>2

LEMMA AgreeInvariant ==
  ASSUME EpochAdvances, VenueQuietInStart, LaneRoom >= MaxInFlight
  PROVE  SyncSpec => [](SyncAndTables /\ AgreeInv)
  <1>1. SyncInit => AgreeInv
    <2> SUFFICES ASSUME SyncInit PROVE AgreeInv
      OBVIOUS
    <2>1. stage = "down"
      BY Zenon DEF SyncInit
    <2> QED BY <2>1 DEF AgreeInv, RunInv, StartInv, AppliedInv, Starting
  <1>2. SyncAndTables /\ SyncAndTables' /\ AgreeInv /\ [SyncNext]_syncVars => AgreeInv'
    BY AgreeStep DEF SyncAndTables
  <1> QED BY <1>1, <1>2, TablesInvariant, PTL DEF SyncSpec

\* A row that lacks only what is under way is up to date when nothing is.
LEMMA NothingMissing ==
  ASSUME NEW c, NEW e \in Entry, NEW v \in VenueEntry, EntryFits(v), v # Unplaced, NEW a,
         ClientFits(<<>>, c, e, v, a)
  PROVE  UpToDate(e, v)
  <1>1. OrderVolume \in Nat \ {0} /\ v.traded \in Nat /\ e.traded \in Nat
    BY SyncAssumption DEF VenueEntry, Entry
  <1>2. About(<<>>, c) = {}
    BY DEF About
  <1>3. RowFits(e, v) /\ Coming(<<>>, c, e.traded, v.traded, 0)
        /\ (v.status = "Canceled" => e.state \in Terminal)
    BY <1>2 DEF ClientFits, RowFollows
  <1>4. (e.traded + 1)..v.traded = {}
    BY <1>2, <1>3 DEF Coming
  <1>5. v.traded <= e.traded
    BY <1>1, <1>4
  <1>6. v.status \in {"queued", "Filled", "Canceled"}
    BY DEF VenueEntry, VenueStatuses, EntryFits
  <1>7. v.status = "Filled" => e.state \in Terminal
    BY <1>1, <1>3, <1>5 DEF EntryFits, RowFits
  <1> QED BY <1>1, <1>3, <1>5, <1>6, <1>7 DEF UpToDate

\* In a running engine an order without a fill that is live at the venue is
\* active in the OMS, and with nothing in flight every outcome is known there,
\* over any number of starts, lost lanes and repeated trades.
THEOREM OrdersAlwaysAgree ==
  ASSUME EpochAdvances, VenueQuietInStart, LaneRoom >= MaxInFlight
  PROVE  SyncSpec => []OrdersAgree
  <1>1. SyncTyped /\ TablesInv /\ AgreeInv => UntouchedOrderIsActive /\ OutcomeKnownWhenQuiet
    <2> SUFFICES ASSUME SyncTyped, TablesInv, AgreeInv, running
                 PROVE  UntouchedOrderIsActive /\ OutcomeKnownWhenQuiet
      BY DEF UntouchedOrderIsActive, OutcomeKnownWhenQuiet, Quiet
    <2>1. stage = "running"
      BY Zenon DEF SyncTyped, ControlTyped
    <2>2. \A c \in ClientIds : Placed(c) =>
            RowOf(c) # NoId /\ ClientFits(InFlight, c, orders[RowOf(c)], venue[c], applied)
      BY <2>1 DEF AgreeInv, RunInv
    <2>3. RowsFound
      BY RowsAreFound DEF RowsKnown, SyncTyped, TablesInv
    <2>4. UntouchedOrderIsActive
      <3> SUFFICES ASSUME NEW c \in ClientIds, VenueLive(c), venue[c].traded = 0
                   PROVE  RowOf(c) \in Active
        BY DEF UntouchedOrderIsActive, RowOf
      <3>1. Placed(c)
        BY DEF Placed, VenueLive, Unplaced
      <3>2. orders[RowOf(c)].state \in {"Working", "CancelPending"} /\ RowOf(c) \in OrderIds
        BY <2>2, <2>3, <3>1 DEF ClientFits, RowFollows, RowFits, VenueLive, RowsFound
      <3> QED BY <3>2 DEF Active, Terminal, Present
    <2>5. ASSUME wire = <<>>, lane = <<>>
          PROVE  OutcomeKnownWhenQuiet
      <3> SUFFICES ASSUME NEW c \in ClientIds, Placed(c)
                   PROVE  /\ RowOf(c) # NoId
                          /\ orders[RowOf(c)].traded >= venue[c].traded
                          /\ ~VenueLive(c) => RowOf(c) \notin Active
        BY DEF OutcomeKnownWhenQuiet, RowOf, Placed
      <3>1. InFlight = <<>>
        BY <2>5 DEF InFlight
      <3>2. PICK e \in Entry, v \in VenueEntry :
              e = orders[RowOf(c)] /\ v = venue[c] /\ EntryFits(v) /\ v # Unplaced
        BY <2>2, <2>3 DEF RowsFound, SyncTyped, VenueTyped, Placed
      <3>3. ClientFits(<<>>, c, e, v, applied)
        BY <2>2, <3>1, <3>2
      <3>4. UpToDate(e, v)
        BY <3>2, <3>3, NothingMissing
      <3> QED BY <2>2, <3>2, <3>4 DEF UpToDate, VenueLive, Active
    <2> QED BY <2>4, <2>5 DEF OutcomeKnownWhenQuiet, Quiet
  <1>2. SyncAndTables /\ AgreeInv => UntouchedOrderIsActive /\ OutcomeKnownWhenQuiet
    BY <1>1 DEF SyncAndTables
  <1>3. UntouchedOrderIsActive /\ OutcomeKnownWhenQuiet /\ SyncTypeOK => OrdersAgree
    BY DEF OrdersAgree
  <1> QED BY <1>2, <1>3, AgreeInvariant, SyncTypeCorrect, PTL

-----------------------------------------------------------------------------
(* The two books: which of the venue's trades they have.                   *)

\* Orders open the long position or close it, and sell no more than there is.
OrdersAreSound ==
  /\ \A c \in ClientIds :
       /\ SideOf[c] = "Buy" => EffectOf[c] \in {"Init", "Open"}
       /\ SideOf[c] = "Sell" => EffectOf[c] \notin {"Open", "CloseToday", "CloseYesterday"}
  /\ SumFunctionOnSet([c \in ClientIds |-> OrderVolume], {c \in ClientIds : SideOf[c] = "Sell"})
       <= Base

\* A trade the venue made.
MadeBy(t, v) == t.report_index \in 1..v.traded /\ t = VenueTrade(t.client, t.report_index)

AllMade(q, vs) == \A i \in 1..Len(q) : q[i].type = "trade" => MadeBy(q[i].r, vs[q[i].r.client])

AppliedMade ==
  \A x \in positionApplied :
    \E c \in ClientIds : \E k \in 1..venue[c].traded : x = TradeKey(c, k)

KeysInv ==
  /\ AllMade(lane, venue) /\ AllMade(wire, venue) /\ AppliedMade
  /\ accountApplied = positionApplied

\* The trades of a client in this session that the books do not have yet, and
\* how many of its trades they count.
Missing(c) == {k \in (venue[c].seen + 1)..venue[c].traded : TradeKey(c, k) \notin positionApplied}

Booked == [c \in ClientIds |-> venue[c].traded - Cardinality(Missing(c))]

CountedBy(sides) == SumFunctionOnSet(Booked, {c \in ClientIds : SideOf[c] \in sides})

\* They are under way, and no trade is that the books had from the venue's answers.
MissingUnderWay ==
  /\ \A i \in 1..Len(InFlight) : InFlight[i].type = "trade" =>
       InFlight[i].r.report_index > venue[InFlight[i].r.client].seen
  /\ \A c \in ClientIds : \A k \in Missing(c) :
       \E i \in 1..Len(InFlight) : InFlight[i] = TradeEvent(VenueTrade(c, k))

QuietStart ==
  stage \in Starting =>
    /\ wire = <<>> /\ \A c \in ClientIds : venue[c].seen = venue[c].traded
    /\ stage \in {"asset", "apply"} => answers.rows = VenueRows
    /\ stage = "apply" => answers.power = VenueCash

LongSlot == <<TheInstrument, "Long">>

\* The table holds the venue's first position and the trades counted.
TableInv ==
  OrdersAreSound =>
    /\ positions[LongSlot].total = Base + CountedBy({"Buy"}) - CountedBy({"Sell"})
    /\ positions[LongSlot].total > 0 => positions[LongSlot].present
    /\ positions[<<TheInstrument, "Short">>].total = 0
    /\ ~positions[<<TheInstrument, "Net">>].present

CashInv == buyingPower + netCashFlow = Base - CountedBy(Outflow) + CountedBy(Inflow)

BooksInv ==
  /\ VenueQuietInStart /\ LaneRoom >= MaxInFlight
  /\ KeysInv /\ QuietStart
  /\ stage \in {"synced", "running"} => TableInv /\ CashInv
  /\ stage = "running" => MissingUnderWay

-----------------------------------------------------------------------------
(* What a step of the venue changes in the account of the trades.          *)

EntryNat ==
  \A c \in ClientIds :
    /\ venue[c].traded \in 0..OrderVolume /\ venue[c].seen \in Nat
    /\ venue[c].seen <= venue[c].traded

LEMMA EntriesNat == VenueTyped => EntryNat
  <1> SUFFICES ASSUME VenueTyped, NEW c \in ClientIds
               PROVE  /\ venue[c].traded \in 0..OrderVolume /\ venue[c].seen \in Nat
                      /\ venue[c].seen <= venue[c].traded
    BY DEF EntryNat
  <1>1. venue[c] \in VenueEntry /\ EntryFits(venue[c]) /\ OrderVolume \in Nat
    BY SyncAssumption DEF VenueTyped
  <1> QED BY <1>1 DEF VenueEntry, EntryFits

LEMMA MissingFinite ==
  ASSUME VenueTyped, NEW c \in ClientIds
  PROVE  /\ IsFiniteSet(Missing(c)) /\ Missing(c) \in SUBSET (1..OrderVolume)
         /\ Cardinality(Missing(c)) \in Nat
         /\ Cardinality(Missing(c)) <= venue[c].traded
         /\ Booked[c] = venue[c].traded - Cardinality(Missing(c))
         /\ Booked[c] \in 0..venue[c].traded
  <1>1. /\ venue[c].traded \in 0..OrderVolume /\ venue[c].seen \in Nat
        /\ venue[c].seen <= venue[c].traded /\ OrderVolume \in Nat
    BY EntriesNat, SyncAssumption DEF EntryNat
  <1>2. PICK n \in Nat : n = venue[c].traded
    BY <1>1
  <1>3. Missing(c) \in SUBSET (1..n) /\ Missing(c) \in SUBSET (1..OrderVolume)
    BY <1>1, <1>2 DEF Missing
  <1>4. IsFiniteSet(1..n) /\ Cardinality(1..n) = n
    <2>1. 1 \in Int /\ n \in Int
      BY <1>2
    <2>2. IsFiniteSet(1..n) /\ Cardinality(1..n) = IF 1 > n THEN 0 ELSE n - 1 + 1
      BY <2>1, FS_Interval, Zenon
    <2> QED BY <1>2, <2>2
  <1>5. /\ IsFiniteSet(Missing(c)) /\ Cardinality(Missing(c)) \in Nat
        /\ Cardinality(Missing(c)) <= n
    BY <1>3, <1>4, FS_Subset, FS_CardinalityType
  <1>6. Booked[c] = n - Cardinality(Missing(c))
    BY <1>2 DEF Booked
  <1> QED BY <1>2, <1>3, <1>5, <1>6

\* A step that trades one unit at most for each order, and moves no mark.
TradesOn ==
  \A c \in ClientIds :
    /\ venue'[c].traded \in {venue[c].traded, venue[c].traded + 1}
    /\ venue'[c].seen = venue[c].seen

LEMMA MadeStays ==
  ASSUME VenueTyped, TradesOn, NEW t \in VenueTrades, MadeBy(t, venue[t.client])
  PROVE  MadeBy(t, venue'[t.client])
  <1>1. PICK c \in ClientIds : c = t.client
    BY DEF VenueTrades
  <1>2. venue[c].traded \in Nat
    BY EntriesNat, SyncAssumption DEF EntryNat
  <1>3. venue[c].traded > 0 /\ venue'[c].traded \in Nat /\ venue'[c].traded >= venue[c].traded
    BY <1>1, <1>2 DEF MadeBy, TradesOn
  <1> QED BY <1>1, <1>2, <1>3 DEF MadeBy

LEMMA AllMadeStays ==
  ASSUME VenueTyped, TradesOn, NEW q \in Seq(Events), AllMade(q, venue)
  PROVE  AllMade(q, venue')
  <1> SUFFICES ASSUME NEW i \in 1..Len(q), q[i].type = "trade"
               PROVE  MadeBy(q[i].r, venue'[q[i].r.client])
    BY DEF AllMade
  <1>1. q[i] \in Events
    OBVIOUS
  <1>2. q[i].r \in VenueTrades /\ MadeBy(q[i].r, venue[q[i].r.client])
    BY <1>1, EventTypes DEF AllMade
  <1> QED BY <1>2, MadeStays

LEMMA AllMadeLeaves ==
  ASSUME NEW q \in Seq(Events), q # <<>>, NEW vs, AllMade(q, vs)
  PROVE  /\ AllMade(Tail(q), vs)
         /\ q[1].type = "trade" => MadeBy(q[1].r, vs[q[1].r.client])
  BY Ends DEF AllMade

LEMMA AllMadeJoins ==
  ASSUME NEW q \in Seq(Events), NEW vs, AllMade(q, vs), NEW e \in Events,
         e.type = "trade" => MadeBy(e.r, vs[e.r.client])
  PROVE  AllMade(Append(q, e), vs)
  <1>1. /\ Len(q) \in Nat /\ Len(Append(q, e)) = Len(q) + 1 /\ Append(q, e)[Len(q) + 1] = e
        /\ \A i \in 1..Len(q) : Append(q, e)[i] = q[i]
    BY AppendProperties, LenProperties
  <1>2. \A i \in 1..(Len(q) + 1) : i \in 1..Len(q) \/ i = Len(q) + 1
    BY <1>1
  <1> QED BY <1>1, <1>2 DEF AllMade

LEMMA AppliedStays ==
  ASSUME VenueTyped, TradesOn, AppliedMade, positionApplied' = positionApplied
  PROVE  AppliedMade'
  <1> SUFFICES ASSUME NEW x \in positionApplied
               PROVE  \E c \in ClientIds : \E k \in 1..venue'[c].traded : x = TradeKey(c, k)
    BY DEF AppliedMade, TradeKey
  <1>1. PICK c \in ClientIds : \E k \in 1..venue[c].traded : x = TradeKey(c, k)
    BY DEF AppliedMade
  <1>0. PICK k \in 1..venue[c].traded : x = TradeKey(c, k)
    BY <1>1
  <1>2. venue[c].traded \in Nat
    BY EntriesNat, SyncAssumption DEF EntryNat
  <1>3. venue[c].traded > 0 /\ k \in 1..venue'[c].traded
    BY <1>2 DEF TradesOn
  <1> QED BY <1>0, <1>3

\* A new trade is missing, the others stay as they are.
LEMMA NewIsMissing ==
  ASSUME VenueTyped, VenueTyped', TradesOn, AppliedMade, positionApplied' = positionApplied,
         NEW c \in ClientIds
  PROVE  /\ Missing(c)' = IF venue'[c].traded = venue[c].traded THEN Missing(c)
                          ELSE Missing(c) \cup {venue'[c].traded}
         /\ Booked'[c] = Booked[c]
  <1>1. PICK n \in Nat : n = venue[c].traded
    BY EntriesNat, SyncAssumption DEF EntryNat
  <1>2. PICK s \in Nat : s = venue[c].seen /\ s <= n
    BY <1>1, EntriesNat DEF EntryNat
  <1>3. venue'[c].seen = s /\ venue'[c].traded \in {n, n + 1}
    BY <1>1, <1>2 DEF TradesOn
  <1>5. CASE venue'[c].traded = n
    <2>1. Missing(c)' = Missing(c)
      BY <1>1, <1>2, <1>3, <1>5 DEF Missing, TradeKey
    <2> QED BY <1>1, <1>5, <2>1 DEF Booked
  <1>6. CASE venue'[c].traded = n + 1
    <2>1. TradeKey(c, n + 1) \notin positionApplied
      <3> SUFFICES ASSUME TradeKey(c, n + 1) \in positionApplied PROVE FALSE
        OBVIOUS
      <3>0. PICK d \in ClientIds : \E j \in 1..venue[d].traded : TradeKey(c, n + 1) = TradeKey(d, j)
        BY DEF AppliedMade
      <3>1. PICK j \in 1..venue[d].traded : TradeKey(c, n + 1) = TradeKey(d, j)
        BY <3>0
      <3>2. venue[d].traded \in Nat /\ venue[d].traded <= OrderVolume /\ OrderVolume \in Nat
            /\ venue'[c].traded <= OrderVolume
        BY EntriesNat, <1>6, SyncAssumption DEF EntryNat, VenueTyped, VenueEntry
      <3>3. n + 1 \in 1..OrderVolume /\ j \in 1..OrderVolume
        BY <1>6, <3>2
      <3>4. c = d /\ n + 1 = j
        BY <3>1, <3>3, KeysAlwaysDiffer DEF KeysDiffer
      <3> QED BY <1>1, <3>2, <3>4
    <2>2. Missing(c)' = Missing(c) \cup {n + 1} /\ n + 1 \notin Missing(c)
      <3>1. \A k : k \in (s + 1)..(n + 1) <=> k \in (s + 1)..n \/ k = n + 1
        BY <1>2
      <3>2. n + 1 \notin Missing(c)
        BY <1>1, <1>2 DEF Missing
      <3>3. \A k : k \in Missing(c)' <=> k \in Missing(c) \/ k = n + 1
        BY <1>1, <1>2, <1>3, <1>6, <2>1, <3>1 DEF Missing, TradeKey
      <3> QED BY <3>2, <3>3
    <2>3. Cardinality(Missing(c)') = Cardinality(Missing(c)) + 1 /\ Cardinality(Missing(c)) \in Nat
      <3>1. IsFiniteSet(Missing(c)) /\ Cardinality(Missing(c)) \in Nat
        BY MissingFinite
      <3>2. Cardinality(Missing(c) \cup {n + 1}) = Cardinality(Missing(c)) + 1
        BY <2>2, <3>1, FS_AddElement
      <3> QED BY <2>2, <3>1, <3>2
    <2>4. Booked'[c] = n + 1 - Cardinality(Missing(c)')
      <3>1. Booked'[c] = venue'[c].traded - Cardinality(Missing(c)')
        BY DEF Booked
      <3> QED BY <1>1, <1>6, <2>3, <3>1
    <2>5. Booked[c] = n - Cardinality(Missing(c))
      BY <1>1 DEF Booked
    <2> QED BY <1>1, <1>6, <2>2, <2>3, <2>4, <2>5
  <1> QED BY <1>3, <1>5, <1>6

LEMMA CountsStay ==
  ASSUME VenueTyped, VenueTyped', TradesOn, AppliedMade, positionApplied' = positionApplied
  PROVE  Booked' = Booked /\ \A sides : CountedBy(sides)' = CountedBy(sides)
  <1>1. \A c \in ClientIds : Booked'[c] = Booked[c]
    BY NewIsMissing
  <1>2. /\ Booked' = [c \in ClientIds |-> Booked'[c]]
        /\ Booked = [c \in ClientIds |-> Booked[c]]
    BY DEF Booked
  <1>3. Booked' = Booked
    BY <1>1, <1>2
  <1> QED BY <1>3 DEF CountedBy

-----------------------------------------------------------------------------
(* A trade is taken.                                                       *)

LEMMA CountedFinite ==
  ASSUME VenueTyped, NEW sides
  PROVE  /\ IsFiniteSet({c \in ClientIds : SideOf[c] \in sides})
         /\ \A c \in ClientIds : Booked[c] \in Nat
         /\ CountedBy(sides) \in Nat
  <1> DEFINE S == {c \in ClientIds : SideOf[c] \in sides}
  <1>1. IsFiniteSet(S)
    BY SyncAssumption, FS_Subset
  <1>2. \A c \in ClientIds : Booked[c] \in Nat
    <2> SUFFICES ASSUME NEW c \in ClientIds PROVE Booked[c] \in Nat
      OBVIOUS
    <2>1. venue[c].traded \in Nat /\ Booked[c] \in 0..venue[c].traded
      BY MissingFinite, EntriesNat, SyncAssumption DEF EntryNat
    <2> QED BY <2>1
  <1>3. \A c \in S : Booked[c] \in Nat
    BY <1>2
  <1>4. SumFunctionOnSet(Booked, S) \in Nat
    <2> HIDE DEF S
    <2> QED BY <1>1, <1>3, SumNat
  <1> QED BY <1>1, <1>2, <1>4 DEF CountedBy

LEMMA OneMore ==
  ASSUME VenueTyped, NEW c \in ClientIds, NEW g, NEW sides,
         \A d \in ClientIds : g[d] = IF d = c THEN Booked[d] + 1 ELSE Booked[d]
  PROVE  SumFunctionOnSet(g, {d \in ClientIds : SideOf[d] \in sides})
           = CountedBy(sides) + IF SideOf[c] \in sides THEN 1 ELSE 0
  <1> DEFINE S == {d \in ClientIds : SideOf[d] \in sides}
  <1>1. IsFiniteSet(S) /\ (\A d \in S : Booked[d] \in Nat) /\ S \subseteq ClientIds
        /\ CountedBy(sides) = SumFunctionOnSet(Booked, S) /\ (c \in S <=> SideOf[c] \in sides)
        /\ CountedBy(sides) \in Nat
    BY CountedFinite DEF CountedBy
  <1>2. \A d \in S : g[d] = IF d = c THEN Booked[d] + 1 ELSE Booked[d]
    BY <1>1
  <1> HIDE DEF S
  <1>3. CASE c \in S
    <2>1. \A d \in S : Booked[d] \in Int /\ g[d] \in Int
      BY <1>1, <1>2
    <2>2. \A d \in S : d # c => g[d] = Booked[d]
      BY <1>2
    <2>3. SumFunctionOnSet(g, S) = SumFunctionOnSet(Booked, S) - Booked[c] + g[c]
      BY <1>1, <1>3, <2>1, <2>2, SumChanges
    <2>4. g[c] = Booked[c] + 1 /\ Booked[c] \in Nat
      BY <1>1, <1>2, <1>3
    <2>5. SumFunctionOnSet(g, S) = CountedBy(sides) + 1
      BY <1>1, <2>3, <2>4
    <2> QED BY <1>1, <1>3, <2>5 DEF S
  <1>4. CASE c \notin S
    <2>1. \A d \in S : Booked[d] = g[d]
      BY <1>2, <1>4
    <2>2. SumFunctionOnSet(Booked, S) = SumFunctionOnSet(g, S)
      BY <1>1, <2>1, SumCongruent
    <2>3. SumFunctionOnSet(g, S) = CountedBy(sides) + 0
      BY <1>1, <2>2
    <2> QED BY <1>1, <1>4, <2>3 DEF S
  <1> QED BY <1>3, <1>4

LEMMA Taken ==
  ASSUME VenueTyped, venue' = venue, NEW c \in ClientIds, NEW k \in Missing(c),
         positionApplied' = positionApplied \cup {TradeKey(c, k)}
  PROVE  /\ Missing(c)' = Missing(c) \ {k}
         /\ \A d \in ClientIds : d # c => Missing(d)' = Missing(d)
         /\ \A sides : CountedBy(sides)' =
              CountedBy(sides) + IF SideOf[c] \in sides THEN 1 ELSE 0
  <1>2. \A d \in ClientIds : Missing(d)' = {j \in Missing(d) : TradeKey(d, j) # TradeKey(c, k)}
    <2> SUFFICES ASSUME NEW d \in ClientIds
                 PROVE  Missing(d)' = {j \in Missing(d) : TradeKey(d, j) # TradeKey(c, k)}
      OBVIOUS
    <2> QED BY DEF Missing, TradeKey
  <1>3. ASSUME NEW d \in ClientIds, NEW j \in Missing(d)
        PROVE  TradeKey(d, j) = TradeKey(c, k) <=> d = c /\ j = k
    <2>1. k \in 1..OrderVolume /\ j \in 1..OrderVolume
      BY MissingFinite
    <2> QED BY <2>1, KeysAlwaysDiffer DEF KeysDiffer
  <1>4. Missing(c)' = Missing(c) \ {k}
    BY <1>2, <1>3
  <1>5. \A d \in ClientIds : d # c => Missing(d)' = Missing(d)
    <2> SUFFICES ASSUME NEW d \in ClientIds, d # c PROVE Missing(d)' = Missing(d)
      OBVIOUS
    <2>1. Missing(d)' = {j \in Missing(d) : TradeKey(d, j) # TradeKey(c, k)}
      BY <1>2
    <2>2. \A j \in Missing(d) : TradeKey(d, j) # TradeKey(c, k)
      BY <1>3
    <2> QED BY <2>1, <2>2
  <1>6. ASSUME NEW d \in ClientIds
        PROVE  Booked'[d] = IF d = c THEN Booked[d] + 1 ELSE Booked[d]
    <2>1. Booked[d] = venue[d].traded - Cardinality(Missing(d)) /\ venue[d].traded \in Nat
          /\ Cardinality(Missing(d)) \in Nat /\ IsFiniteSet(Missing(d))
      BY MissingFinite, EntriesNat, SyncAssumption DEF EntryNat
    <2>2. Booked'[d] = venue[d].traded - Cardinality(Missing(d)')
      BY DEF Booked
    <2>3. CASE d # c
      BY <1>5, <2>1, <2>2, <2>3
    <2>4. CASE d = c
      <3>1. PICK m : m = Missing(d)
        OBVIOUS
      <3>2. IsFiniteSet(m) /\ k \in m
        BY <2>1, <2>4, <3>1
      <3>3. Cardinality(m \ {k}) = Cardinality(m) - 1
        BY <3>2, FS_RemoveElement
      <3>4. Missing(d)' = m \ {k}
        BY <1>4, <2>4, <3>1
      <3>5. Booked'[d] = venue[d].traded - (Cardinality(m) - 1)
        BY <2>2, <3>3, <3>4
      <3> QED BY <2>1, <2>4, <3>1, <3>5
    <2> QED BY <2>3, <2>4
  <1>7. ASSUME NEW sides
        PROVE  CountedBy(sides)' = CountedBy(sides) + IF SideOf[c] \in sides THEN 1 ELSE 0
    <2>1. PICK g : g = Booked'
      OBVIOUS
    <2>2. \A d \in ClientIds : g[d] = IF d = c THEN Booked[d] + 1 ELSE Booked[d]
      BY <1>6, <2>1
    <2>3. SumFunctionOnSet(g, {d \in ClientIds : SideOf[d] \in sides})
            = CountedBy(sides) + IF SideOf[c] \in sides THEN 1 ELSE 0
      BY <2>2, OneMore
    <2> QED BY <2>1, <2>3 DEF CountedBy
  <1> QED BY <1>4, <1>5, <1>7

\* While a sale is missing there is something left to sell.
LEMMA SomethingToSell ==
  ASSUME VenueTyped, OrdersAreSound, NEW c \in ClientIds, SideOf[c] = "Sell", Missing(c) # {}
  PROVE  CountedBy({"Sell"}) + 1 <= Base
  <1> DEFINE S == {d \in ClientIds : SideOf[d] = "Sell"}
             g == [d \in ClientIds |-> IF d = c THEN Booked[d] + 1 ELSE Booked[d]]
             w == [d \in ClientIds |-> OrderVolume]
  <1>1. S = {d \in ClientIds : SideOf[d] \in {"Sell"}} /\ IsFiniteSet(S)
    BY SyncAssumption, FS_Subset
  <1>2. SumFunctionOnSet(g, S) = CountedBy({"Sell"}) + 1
    <2>1. \A d \in ClientIds : g[d] = IF d = c THEN Booked[d] + 1 ELSE Booked[d]
      OBVIOUS
    <2>2. SideOf[c] \in {"Sell"}
      OBVIOUS
    <2> HIDE DEF g
    <2>3. SumFunctionOnSet(g, {d \in ClientIds : SideOf[d] \in {"Sell"}})
            = CountedBy({"Sell"}) + IF SideOf[c] \in {"Sell"} THEN 1 ELSE 0
      BY <2>1, OneMore
    <2> QED BY <1>1, <2>2, <2>3
  <1>3. ASSUME NEW d \in ClientIds
        PROVE  g[d] \in Nat /\ w[d] \in Nat /\ g[d] <= w[d]
    <2>1. /\ venue[d].traded \in 0..OrderVolume /\ OrderVolume \in Nat
          /\ Booked[d] \in 0..venue[d].traded
          /\ Booked[d] = venue[d].traded - Cardinality(Missing(d))
          /\ Cardinality(Missing(d)) \in Nat /\ IsFiniteSet(Missing(d))
      BY MissingFinite, EntriesNat, SyncAssumption DEF EntryNat
    <2>2. d = c => Cardinality(Missing(d)) # 0
      BY <2>1, FS_EmptySet
    <2> QED BY <2>1, <2>2
  <1>4. SumFunctionOnSet(w, S) <= Base
    BY DEF OrdersAreSound
  <1>5. SumFunctionOnSet(g, S) <= SumFunctionOnSet(w, S)
    <2>1. S \in SUBSET S /\ \A d \in S : g[d] \in Nat /\ w[d] \in Nat /\ g[d] <= w[d]
      BY <1>3
    <2> HIDE DEF S, g, w
    <2> QED BY <1>1, <2>1, SumShrinks
  <1>6. SumFunctionOnSet(w, S) \in Nat /\ SumFunctionOnSet(g, S) \in Nat
    <2>1. \A d \in S : g[d] \in Nat /\ w[d] \in Nat
      BY <1>3
    <2> HIDE DEF S, g, w
    <2> QED BY <1>1, <2>1, SumNat
  <1> HIDE DEF S, g, w
  <1> QED BY <1>2, <1>4, <1>5, <1>6, SyncAssumption

LEMMA SlotsApart ==
  /\ LongSlot \in Slot /\ <<TheInstrument, "Short">> \in Slot /\ <<TheInstrument, "Net">> \in Slot
  /\ LongSlot # <<TheInstrument, "Short">> /\ LongSlot # <<TheInstrument, "Net">>
  /\ <<TheInstrument, "Short">> # <<TheInstrument, "Net">>
  BY TheInstrumentExists DEF LongSlot, Slot, PositionDirectionType

\* Of a row with something in it an undated close takes what it closes.
LEMMA UndatedClose ==
  ASSUME NEW p, SaneEntry(p), p.total >= 1, NEW effect,
         effect \notin {"CloseToday", "CloseYesterday"}
  PROVE  ReducePosition(p, effect, 1).total = p.total - 1
         /\ ReducePosition(p, effect, 1).present
  <1>1. p.total \in Int /\ p.yesterday \in Int /\ 0 <= p.yesterday /\ p.yesterday <= p.total
    BY DEF SaneEntry
  <1> DEFINE today == p.total - p.yesterday
             from == IF p.yesterday < 1 THEN p.yesterday ELSE 1
             y == p.yesterday - from
             t == AtLeast0(today - (1 - from))
  <1>2. ReducePosition(p, effect, 1) = NewRow(y + AtLeast0(t), y)
    BY DEF ReducePosition
  <1>3. y + AtLeast0(t) = p.total - 1
    BY <1>1 DEF AtLeast0
  <1> QED BY <1>2, <1>3 DEF NewRow

LEMMA TableTakes ==
  ASSUME VenueTyped, PositionInv, OrdersAreSound, TableInv, venue' = venue, NEW c \in ClientIds,
         NEW k \in Missing(c), PositionApplyTrade(VenueTrade(c, k))
  PROVE  TableInv' /\ positionApplied' = positionApplied \cup {TradeKey(c, k)}
  <1>1. PICK t : t = VenueTrade(c, k)
    OBVIOUS
  <1>2. t.volume = 1 /\ t.instrument = TheInstrument /\ t.side = SideOf[c] /\ t.effect = EffectOf[c]
    BY <1>1 DEF VenueTrade
  <1>3. PositionAccepts(t)
    BY <1>1, <1>2 DEF PositionAccepts, Missing, TradeKey
  <1>4. /\ positionApplied' = positionApplied \cup {TradeKey(c, k)}
        /\ positions' = IF t.side \in {"Buy", "Sell"} THEN ApplyTradeTo(t) ELSE positions
    BY <1>1, <1>3 DEF PositionApplyTrade, TradeKey
  <1>5. PICK b \in Nat, s \in Nat : b = CountedBy({"Buy"}) /\ s = CountedBy({"Sell"})
    BY CountedFinite
  <1>6. /\ CountedBy({"Buy"})' = b + IF t.side = "Buy" THEN 1 ELSE 0
        /\ CountedBy({"Sell"})' = s + IF t.side = "Sell" THEN 1 ELSE 0
    <2>1. \A sides : CountedBy(sides)' = CountedBy(sides) + IF SideOf[c] \in sides THEN 1 ELSE 0
      BY <1>4, Taken
    <2>2. /\ CountedBy({"Buy"})' = CountedBy({"Buy"}) + IF SideOf[c] \in {"Buy"} THEN 1 ELSE 0
          /\ CountedBy({"Sell"})' = CountedBy({"Sell"}) + IF SideOf[c] \in {"Sell"} THEN 1 ELSE 0
      BY <2>1
    <2> QED BY <1>2, <1>5, <2>2
  <1>7. PICK p : p = positions[LongSlot]
    OBVIOUS
  <1>8. SaneEntry(p) /\ positions \in [Slot -> [present : BOOLEAN, total : Int, yesterday : Int]]
        /\ p.total \in Int /\ p.yesterday \in Int
    BY <1>7, SlotsApart DEF PositionInv, SaneEntry
  <1>9. Base \in Nat /\ p.total = Base + b - s /\ (p.total > 0 => p.present)
    BY <1>5, <1>7, SyncAssumption DEF TableInv
  <1>10. ASSUME NEW q, positions' = [positions EXCEPT ![LongSlot] = q],
                q.total = Base + CountedBy({"Buy"})' - CountedBy({"Sell"})', q.total > 0 => q.present
         PROVE  TableInv'
    <2>1. /\ positions'[LongSlot] = q
          /\ positions'[<<TheInstrument, "Short">>] = positions[<<TheInstrument, "Short">>]
          /\ positions'[<<TheInstrument, "Net">>] = positions[<<TheInstrument, "Net">>]
      BY <1>8, <1>10, SlotsApart
    <2> QED BY <1>10, <2>1 DEF TableInv, LongSlot
  <1>11. CASE t.side = "Buy"
    <2>1. Opens(t) /\ TradeSlot(t) = LongSlot
      BY <1>2, <1>11 DEF OrdersAreSound, Opens, TradeSlot, LongSlot
    <2>2. positions' = [positions EXCEPT ![LongSlot] = OpenPosition(p, 1)]
      BY <1>2, <1>4, <1>7, <1>11, <2>1 DEF ApplyTradeTo
    <2>3. OpenPosition(p, 1).total = p.total + 1 /\ OpenPosition(p, 1).present
      BY DEF OpenPosition, NewRow
    <2>4. OpenPosition(p, 1).total = Base + CountedBy({"Buy"})' - CountedBy({"Sell"})'
      BY <1>6, <1>9, <1>11, <2>3
    <2> QED BY <1>10, <2>2, <2>3, <2>4, <1>4
  <1>12. CASE t.side = "Sell"
    <2>1. ~Opens(t) /\ TradeSlot(t) = LongSlot
      BY <1>2, <1>12 DEF OrdersAreSound, Opens, TradeSlot, LongSlot
    <2>2. p.total >= 1 /\ p.present
      <3>1. s + 1 <= Base
        BY <1>2, <1>5, <1>12, SomethingToSell
      <3> QED BY <1>9, <3>1
    <2>3. positions' = [positions EXCEPT ![LongSlot] = ReducePosition(p, t.effect, 1)]
      BY <1>2, <1>4, <1>7, <1>12, <2>1, <2>2 DEF ApplyTradeTo
    <2>4. t.effect \notin {"CloseToday", "CloseYesterday"}
      BY <1>2, <1>12 DEF OrdersAreSound
    <2>5. ReducePosition(p, t.effect, 1).total = p.total - 1
          /\ ReducePosition(p, t.effect, 1).present
      BY <1>8, <2>2, <2>4, UndatedClose
    <2>6. ReducePosition(p, t.effect, 1).total = Base + CountedBy({"Buy"})' - CountedBy({"Sell"})'
      BY <1>6, <1>9, <1>12, <2>5
    <2> QED BY <1>10, <2>3, <2>5, <2>6, <1>4
  <1>13. CASE t.side \notin {"Buy", "Sell"}
    <2>1. positions' = positions /\ CountedBy({"Buy"})' = b /\ CountedBy({"Sell"})' = s
      BY <1>4, <1>6, <1>13
    <2> QED BY <1>4, <1>5, <2>1 DEF TableInv, LongSlot
  <1> QED BY <1>11, <1>12, <1>13

LEMMA CashTakes ==
  ASSUME VenueTyped, AccountTypeOK, CashInv, accountApplied = positionApplied, venue' = venue,
         NEW c \in ClientIds, NEW k \in Missing(c), AccountApplyTrade(VenueTrade(c, k)),
         positionApplied' = positionApplied \cup {TradeKey(c, k)}
  PROVE  CashInv' /\ accountApplied' = accountApplied \cup {TradeKey(c, k)}
  <1>1. PICK t : t = VenueTrade(c, k)
    OBVIOUS
  <1>2. t.volume = 1 /\ t.side = SideOf[c]
    BY <1>1 DEF VenueTrade
  <1>3. AccountAccepts(t)
    BY <1>1, <1>2 DEF AccountAccepts, Missing, TradeKey
  <1>4. /\ accountApplied' = accountApplied \cup {TradeKey(c, k)}
        /\ netCashFlow' = netCashFlow + CashFlow(t) /\ buyingPower' = buyingPower
    BY <1>1, <1>3 DEF AccountApplyTrade, TradeKey
  <1>5. PICK i \in Nat, o \in Nat : i = CountedBy(Inflow) /\ o = CountedBy(Outflow)
    BY CountedFinite
  <1>6. /\ CountedBy(Inflow)' = i + IF t.side \in Inflow THEN 1 ELSE 0
        /\ CountedBy(Outflow)' = o + IF t.side \in Outflow THEN 1 ELSE 0
    <2>1. \A sides : CountedBy(sides)' = CountedBy(sides) + IF SideOf[c] \in sides THEN 1 ELSE 0
      BY Taken
    <2>2. /\ CountedBy(Inflow)' = CountedBy(Inflow) + IF SideOf[c] \in Inflow THEN 1 ELSE 0
          /\ CountedBy(Outflow)' = CountedBy(Outflow) + IF SideOf[c] \in Outflow THEN 1 ELSE 0
      BY <2>1
    <2> QED BY <1>2, <1>5, <2>2
  <1>7. ~(t.side \in Inflow /\ t.side \in Outflow)
    BY DEF Inflow, Outflow
  <1>8. CashFlow(t) = IF t.side \in Inflow THEN 1 ELSE IF t.side \in Outflow THEN -1 ELSE 0
    <2>1. CASE t.side \in Inflow
      BY <1>2, <1>7, <2>1 DEF CashFlow
    <2>2. CASE t.side \in Outflow
      BY <1>2, <1>7, <2>2 DEF CashFlow
    <2>3. CASE t.side \notin Inflow \cup Outflow
      BY <1>2, <2>3 DEF CashFlow
    <2> QED BY <2>1, <2>2, <2>3
  <1>9. buyingPower \in Int /\ netCashFlow \in Int /\ Base \in Nat
        /\ buyingPower + netCashFlow = Base - o + i
    BY <1>5, SyncAssumption DEF AccountTypeOK, CashInv
  <1>10. buyingPower' + netCashFlow' = Base - CountedBy(Outflow)' + CountedBy(Inflow)'
    BY <1>4, <1>6, <1>7, <1>8, <1>9
  <1> QED BY <1>4, <1>10 DEF CashInv

-----------------------------------------------------------------------------
(* The books follow the venue: one lemma per action.                       *)

\* A step that trades nothing out of turn and leaves the books alone.
LEMMA BooksStay ==
  ASSUME VenueTyped, VenueTyped', TradesOn, AppliedMade,
         UNCHANGED <<positions, positionApplied, accountApplied, buyingPower, netCashFlow>>
  PROVE  /\ AppliedMade' /\ (TableInv => TableInv') /\ (CashInv => CashInv')
         /\ accountApplied = positionApplied => accountApplied' = positionApplied'
         /\ \A sides : CountedBy(sides)' = CountedBy(sides)
  <1>1. AppliedMade'
    BY AppliedStays
  <1>2. \A sides : CountedBy(sides)' = CountedBy(sides)
    BY CountsStay
  <1>3. /\ CountedBy({"Buy"})' = CountedBy({"Buy"}) /\ CountedBy({"Sell"})' = CountedBy({"Sell"})
        /\ CountedBy(Inflow)' = CountedBy(Inflow) /\ CountedBy(Outflow)' = CountedBy(Outflow)
    BY <1>2
  <1>4. TableInv => TableInv'
    BY <1>3 DEF TableInv, LongSlot
  <1>5. CashInv => CashInv'
    BY <1>3 DEF CashInv
  <1> QED BY <1>1, <1>2, <1>4, <1>5

LEMMA SameVenue == VenueTyped /\ venue' = venue => TradesOn
  BY DEF TradesOn

LEMMA MissingStays ==
  ASSUME VenueTyped, VenueTyped', venue' = venue, AppliedMade, positionApplied' = positionApplied
  PROVE  \A c \in ClientIds : Missing(c)' = Missing(c)
  <1> SUFFICES ASSUME NEW c \in ClientIds PROVE Missing(c)' = Missing(c)
    OBVIOUS
  <1> QED BY SameVenue, NewIsMissing

LEMMA CallbackBooksStep ==
  ASSUME SyncTyped, SyncTyped', BooksInv, Callback
  PROVE  BooksInv'
  <1>1. /\ lane \in Seq(Events) /\ wire \in Seq(Events) /\ wire # <<>> /\ wire' = Tail(wire)
        /\ stage' = stage /\ venue' = venue /\ answers' = answers
        /\ UNCHANGED <<positions, positionApplied, accountApplied, buyingPower, netCashFlow>>
        /\ lane' = lane \/ lane' = Append(lane, Head(wire))
    BY DEF Callback, SyncTyped, EventsTyped, controlVars, bookVars, positionVars, accountVars
  <1>2. stage \notin Starting
    BY <1>1 DEF BooksInv, QuietStart
  <1>3. VenueTyped /\ VenueTyped' /\ TradesOn /\ AppliedMade
    BY <1>1, SameVenue DEF SyncTyped, BooksInv, KeysInv
  <1>4. AppliedMade' /\ (TableInv => TableInv') /\ (CashInv => CashInv')
        /\ accountApplied' = positionApplied'
    BY <1>1, <1>3, BooksStay DEF BooksInv, KeysInv
  <1>5. AllMade(lane, venue') /\ AllMade(wire, venue')
    BY <1>1, <1>3, AllMadeStays DEF BooksInv, KeysInv
  <1>6. Head(wire) = wire[1] /\ Head(wire) \in Events
    BY <1>1, Ends
  <1>7. AllMade(wire, venue)'
    BY <1>1, <1>5, AllMadeLeaves
  <1>8. AllMade(lane, venue)'
    <2>1. AllMade(Append(lane, Head(wire)), venue')
      BY <1>1, <1>5, <1>6, AllMadeLeaves, AllMadeJoins
    <2> QED BY <1>1, <1>5, <2>1
  <1>9. KeysInv' /\ QuietStart'
    BY <1>1, <1>2, <1>4, <1>7, <1>8 DEF KeysInv, QuietStart, Starting
  <1>10. stage = "running" => MissingUnderWay'
    <2> SUFFICES ASSUME stage = "running" PROVE MissingUnderWay'
      OBVIOUS
    <2>1. InFlight' = InFlight
      BY CallbackMoves DEF BooksInv
    <2>2. \A c \in ClientIds : Missing(c)' = Missing(c)
      BY <1>1, <1>3, MissingStays
    <2>3. MissingUnderWay
      BY DEF BooksInv
    <2> QED BY <1>1, <2>1, <2>2, <2>3 DEF MissingUnderWay
  <1> QED BY <1>1, <1>2, <1>4, <1>9, <1>10 DEF BooksInv, Starting

LEMMA MadeIsTrade ==
  ASSUME NEW t, MadeBy(t, venue[t.client])
  PROVE  t = VenueTrade(t.client, t.report_index)
  BY DEF MadeBy

\* An order report moves no trade and no money.
LEMMA ReportLeavesBooks ==
  ASSUME NEW r, OnTraderOrderReport(r)
  PROVE  UNCHANGED <<positions, positionApplied, accountApplied, buyingPower, netCashFlow>>
  BY DEF OnTraderOrderReport, AccountFollows, AccountApplyOrder, positionVars, accountVars

\* A trade the books have already moves neither of them.
LEMMA KnownTradeIgnored ==
  ASSUME NEW c, NEW k, accountApplied = positionApplied, TradeKey(c, k) \in positionApplied,
         PositionApplyTrade(VenueTrade(c, k)), AccountApplyTrade(VenueTrade(c, k))
  PROVE  UNCHANGED <<positions, positionApplied, accountApplied, buyingPower, netCashFlow>>
  BY DEF PositionApplyTrade, PositionAccepts, AccountApplyTrade, AccountAccepts, TradeKey

\* A trade enters both books at once or neither.
LEMMA KeysTogether ==
  ASSUME NEW c \in ClientIds, NEW k \in 1..venue[c].traded, venue' = venue,
         accountApplied = positionApplied, AppliedMade,
         PositionApplyTrade(VenueTrade(c, k)), AccountApplyTrade(VenueTrade(c, k))
  PROVE  AppliedMade' /\ accountApplied' = positionApplied'
         /\ TradeKey(c, k) \in positionApplied'
         /\ (TradeKey(c, k) \notin positionApplied =>
               positionApplied' = positionApplied \cup {TradeKey(c, k)})
  <1>1. VenueTrade(c, k).volume = 1
    BY DEF VenueTrade
  <1>2. /\ accountApplied' = positionApplied'
        /\ positionApplied' = positionApplied \cup {TradeKey(c, k)}
    BY <1>1 DEF PositionApplyTrade, PositionAccepts, AccountApplyTrade, AccountAccepts, TradeKey
  <1>3. ASSUME NEW x \in positionApplied'
        PROVE  \E d \in ClientIds : \E j \in 1..venue'[d].traded : x = TradeKey(d, j)
    <2>1. CASE x \in positionApplied
      BY <2>1 DEF AppliedMade
    <2>2. CASE x = TradeKey(c, k)
      BY <2>2
    <2> QED BY <1>2, <1>3, <2>1, <2>2
  <1>4. AppliedMade'
    BY <1>3 DEF AppliedMade, TradeKey
  <1> QED BY <1>2, <1>4

\* The trade at the head of what is under way leaves it when the books have it.
LEMMA UnderWayLeaves ==
  ASSUME SyncTyped, MissingUnderWay, InFlight # <<>>, InFlight \in Seq(Events),
         InFlight' = Tail(InFlight), venue' = venue,
         \A c \in ClientIds : Missing(c)' \subseteq Missing(c),
         NEW d \in ClientIds, NEW n,
         InFlight[1].type = "trade" => InFlight[1].r = VenueTrade(d, n) /\ n \notin Missing(d)'
  PROVE  MissingUnderWay'
  <1>1. PICK q \in Seq(Events) : q = InFlight
    OBVIOUS
  <1>2. /\ q # <<>> /\ Len(q) \in Nat \ {0} /\ Tail(q) \in Seq(Events)
        /\ Len(Tail(q)) = Len(q) - 1
        /\ \A i \in 1..Len(Tail(q)) : Tail(q)[i] = q[i + 1] /\ i + 1 \in 1..Len(q)
    BY <1>1, Ends
  <1>3. /\ \A i \in 1..Len(q) : q[i].type = "trade" =>
             q[i].r.report_index > venue[q[i].r.client].seen
        /\ \A c \in ClientIds : \A k \in Missing(c) :
             \E i \in 1..Len(q) : q[i] = TradeEvent(VenueTrade(c, k))
    BY <1>1 DEF MissingUnderWay
  <1>4. InFlight' = Tail(q)
    BY <1>1
  <1>5. \A i \in 1..Len(Tail(q)) : Tail(q)[i].type = "trade" =>
          Tail(q)[i].r.report_index > venue'[Tail(q)[i].r.client].seen
    BY <1>2, <1>3
  <1>6. ASSUME NEW c \in ClientIds, NEW k \in Missing(c)'
        PROVE  \E i \in 1..Len(Tail(q)) : Tail(q)[i] = TradeEvent(VenueTrade(c, k))
    <2>1. k \in Missing(c)
      BY <1>6
    <2>2. PICK i \in 1..Len(q) : q[i] = TradeEvent(VenueTrade(c, k))
      BY <1>3, <2>1
    <2>3. i # 1
      <3> SUFFICES ASSUME i = 1 PROVE FALSE
        OBVIOUS
      <3>1. q[1].type = "trade" /\ q[1].r = VenueTrade(c, k)
        BY <2>2 DEF TradeEvent
      <3>2. VenueTrade(c, k) = VenueTrade(d, n) /\ n \notin Missing(d)'
        BY <1>1, <3>1
      <3>3. c = d /\ k = n
        BY <3>2 DEF VenueTrade
      <3> QED BY <1>6, <3>2, <3>3
    <2>4. PICK j \in 1..Len(Tail(q)) : i = j + 1
      <3>1. i - 1 \in 1..Len(Tail(q)) /\ i = (i - 1) + 1
        BY <1>2, <2>3
      <3> QED BY <3>1
    <2>5. Tail(q)[j] = TradeEvent(VenueTrade(c, k))
      BY <1>2, <2>2, <2>4
    <2> QED BY <2>5
  <1> QED BY <1>4, <1>5, <1>6 DEF MissingUnderWay, TradeEvent

LEMMA HandleBooksStep ==
  ASSUME SyncTyped, SyncTyped', BooksInv, Handle
  PROVE  BooksInv'
  <1>1. /\ lane \in Seq(Events) /\ wire \in Seq(Events) /\ lane # <<>>
        /\ lane' = Tail(lane) /\ wire' = wire /\ venue' = venue /\ answers' = answers
        /\ stage' = stage /\ stage \in {"running", "stopping"}
    BY HandleShape DEF SyncTyped, EventsTyped, controlVars, venueVars
  <1>2. VenueTyped /\ VenueTyped' /\ TradesOn /\ KeysInv /\ PositionInv /\ AccountTypeOK
    BY <1>1, SameVenue DEF SyncTyped, BooksInv
  <1>3. PICK e \in Events : e = Head(lane) /\ e = lane[1]
    BY <1>1, Ends
  <1>4. AllMade(lane, venue)' /\ AllMade(wire, venue)' /\ QuietStart'
    <2>1. AllMade(Tail(lane), venue)
      BY <1>1, <1>2, AllMadeLeaves DEF KeysInv
    <2> QED BY <1>1, <1>2, <2>1 DEF KeysInv, QuietStart, Starting
  <1>5. /\ InFlight \in Seq(Events) /\ InFlight # <<>> /\ InFlight' = Tail(InFlight)
        /\ InFlight[1] = e
    BY <1>1, <1>3, ConcatTail DEF InFlight
  <1>6. CASE e.type = "order"
    <2>1. UNCHANGED <<positions, positionApplied, accountApplied, buyingPower, netCashFlow>>
      BY <1>3, <1>6, ReportLeavesBooks DEF Handle
    <2>2. AppliedMade' /\ (TableInv => TableInv') /\ (CashInv => CashInv')
          /\ accountApplied' = positionApplied'
      BY <1>2, <2>1, BooksStay DEF KeysInv
    <2>3. \A c \in ClientIds : Missing(c)' = Missing(c)
      BY <1>1, <1>2, <2>1, MissingStays DEF KeysInv
    <2>4. stage = "running" => MissingUnderWay'
      <3>1. e.r.client \in ClientIds /\ InFlight[1].type # "trade"
        BY <1>5, <1>6, EventTypes DEF VenueReports
      <3> QED BY <1>1, <1>5, <2>3, <3>1, UnderWayLeaves DEF BooksInv
    <2> QED BY <1>1, <1>4, <2>2, <2>4 DEF BooksInv, KeysInv, Starting
  <1>7. CASE e.type = "trade"
    <2>1. OnTraderTradeReport(e.r)
      BY <1>3, <1>7 DEF Handle
    <2>2. MadeBy(e.r, venue[e.r.client]) /\ e.r.client \in ClientIds
      BY <1>1, <1>2, <1>3, <1>7, AllMadeLeaves, EventTypes DEF KeysInv, VenueTrades
    <2>3. PICK c \in ClientIds, k \in Nat :
            /\ c = e.r.client /\ k = e.r.report_index /\ k \in 1..venue[c].traded
            /\ e.r = VenueTrade(c, k)
      <3>1. e.r.report_index \in 1..venue[e.r.client].traded
            /\ venue[e.r.client].traded \in Nat
        BY <1>2, <2>2, EntriesNat, SyncAssumption DEF MadeBy, EntryNat
      <3> QED BY <2>2, <3>1, MadeIsTrade
    <2>4. PositionApplyTrade(VenueTrade(c, k)) /\ AccountApplyTrade(VenueTrade(c, k))
      BY <2>1, <2>3 DEF OnTraderTradeReport
    <2>5. /\ AppliedMade' /\ accountApplied' = positionApplied'
          /\ TradeKey(c, k) \in positionApplied'
          /\ TradeKey(c, k) \notin positionApplied =>
               positionApplied' = positionApplied \cup {TradeKey(c, k)}
      BY <1>1, <1>2, <2>3, <2>4, KeysTogether DEF KeysInv
    <2>6. KeysInv'
      BY <1>4, <2>5 DEF KeysInv
    <2>7. CASE stage = "stopping"
      BY <1>1, <1>4, <2>6, <2>7 DEF BooksInv
    <2>8. CASE stage = "running"
      <3>1. TableInv /\ CashInv /\ MissingUnderWay
        BY <2>8 DEF BooksInv
      <3>2. k > venue[c].seen /\ venue[c].seen \in Nat /\ venue[c].traded \in Nat
        <4>1. 1 \in 1..Len(InFlight)
          BY <1>5, Ends
        <4>2. InFlight[1].r.report_index > venue[InFlight[1].r.client].seen
          BY <1>5, <1>7, <3>1, <4>1 DEF MissingUnderWay
        <4> QED BY <1>2, <1>5, <2>3, <4>2, EntriesNat, SyncAssumption DEF EntryNat
      <3>3. k \notin Missing(c)'
        BY <2>5 DEF Missing, TradeKey
      <3>4. TableInv' /\ CashInv' /\ \A d \in ClientIds : Missing(d)' \subseteq Missing(d)
        <4>1. CASE TradeKey(c, k) \in positionApplied
          <5>1. UNCHANGED <<positions, positionApplied, accountApplied, buyingPower, netCashFlow>>
            BY <1>2, <2>4, <4>1, KnownTradeIgnored DEF KeysInv
          <5>2. TableInv' /\ CashInv'
            BY <1>2, <3>1, <5>1, BooksStay DEF KeysInv
          <5>3. \A d \in ClientIds : Missing(d)' = Missing(d)
            BY <1>1, <1>2, <5>1, MissingStays DEF KeysInv
          <5> QED BY <5>2, <5>3
        <4>2. CASE TradeKey(c, k) \notin positionApplied
          <5>1. k \in Missing(c)
            BY <2>3, <3>2, <4>2 DEF Missing
          <5>2. TableInv'
            <6>1. OrdersAreSound => TableInv'
              BY <1>1, <1>2, <2>4, <3>1, <5>1, TableTakes
            <6> QED BY <6>1 DEF TableInv
          <5>3. CashInv'
            BY <1>1, <1>2, <2>4, <2>5, <3>1, <4>2, <5>1, CashTakes DEF KeysInv
          <5>4. /\ Missing(c)' = Missing(c) \ {k}
                /\ \A d \in ClientIds : d # c => Missing(d)' = Missing(d)
            BY <1>1, <1>2, <2>5, <4>2, <5>1, Taken
          <5> QED BY <5>2, <5>3, <5>4
        <4> QED BY <4>1, <4>2
      <3>5. MissingUnderWay'
        BY <1>1, <1>5, <2>3, <3>1, <3>3, <3>4, UnderWayLeaves
      <3> QED BY <1>1, <1>4, <2>6, <2>8, <3>4, <3>5 DEF BooksInv
    <2> QED BY <1>1, <2>7, <2>8
  <1> QED BY <1>6, <1>7, EventTypes

LEMMA AllMadeConcat ==
  ASSUME NEW q \in Seq(Events), NEW ev \in Seq(Events), NEW vs, AllMade(q, vs), AllMade(ev, vs)
  PROVE  AllMade(q \o ev, vs)
  <1>1. /\ Len(q \o ev) = Len(q) + Len(ev) /\ Len(q) \in Nat /\ Len(ev) \in Nat
        /\ \A i \in 1..Len(q) : (q \o ev)[i] = q[i]
        /\ \A i \in 1..Len(ev) : (q \o ev)[Len(q) + i] = ev[i]
    BY Joined
  <1>2. PICK s : s = q \o ev
    OBVIOUS
  <1>3. SUFFICES ASSUME NEW i \in 1..Len(s), s[i].type = "trade"
                 PROVE  MadeBy(s[i].r, vs[s[i].r.client])
    BY <1>2 DEF AllMade
  <1>4. CASE i \in 1..Len(q)
    <2>1. s[i] = q[i]
      BY <1>1, <1>2, <1>4
    <2> QED BY <1>3, <1>4, <2>1 DEF AllMade
  <1>5. CASE i \notin 1..Len(q)
    <2>1. i - Len(q) \in 1..Len(ev) /\ i = Len(q) + (i - Len(q))
      BY <1>1, <1>2, <1>5
    <2>2. PICK j \in 1..Len(ev) : i = Len(q) + j
      BY <2>1
    <2>3. s[i] = ev[j]
      BY <1>1, <1>2, <2>2
    <2> QED BY <1>3, <2>3 DEF AllMade
  <1> QED BY <1>4, <1>5

\* What the venue sends joins what is under way: of every order that traded, the
\* new trade is among it.
LEMMA UnderWayGrows ==
  ASSUME SyncTyped, SyncTyped', MissingUnderWay, TradesOn, AppliedMade,
         positionApplied' = positionApplied, InFlight \in Seq(Events),
         NEW ev \in Seq(Events), InFlight' = InFlight \o ev,
         \A i \in 1..Len(ev) : ev[i].type = "trade" =>
           ev[i].r.report_index > venue'[ev[i].r.client].seen,
         \A c \in ClientIds : venue'[c].traded # venue[c].traded =>
           \E i \in 1..Len(ev) : ev[i] = TradeEvent(VenueTrade(c, venue'[c].traded))
  PROVE  MissingUnderWay'
  <1>1. PICK q \in Seq(Events) : q = InFlight
    OBVIOUS
  <1>2. /\ Len(q \o ev) = Len(q) + Len(ev) /\ Len(q) \in Nat /\ Len(ev) \in Nat
        /\ \A i \in 1..Len(q) : (q \o ev)[i] = q[i]
        /\ \A i \in 1..Len(ev) : (q \o ev)[Len(q) + i] = ev[i]
    BY Joined
  <1>3. /\ \A i \in 1..Len(q) : i \in 1..Len(q \o ev)
        /\ \A i \in 1..Len(ev) : Len(q) + i \in 1..Len(q \o ev)
    BY <1>2
  <1>4. /\ \A i \in 1..Len(q) : q[i].type = "trade" =>
             q[i].r.report_index > venue[q[i].r.client].seen
        /\ \A c \in ClientIds : \A k \in Missing(c) :
             \E i \in 1..Len(q) : q[i] = TradeEvent(VenueTrade(c, k))
    BY <1>1 DEF MissingUnderWay
  <1>5. ASSUME NEW i \in 1..Len(q \o ev), (q \o ev)[i].type = "trade"
        PROVE  (q \o ev)[i].r.report_index > venue'[(q \o ev)[i].r.client].seen
    <2>1. CASE i \in 1..Len(q)
      <3>1. q[i] \in Events /\ q[i].type = "trade"
        BY <1>2, <1>5, <2>1
      <3>2. q[i].r.client \in ClientIds
        BY <3>1, EventTypes DEF VenueTrades
      <3> QED BY <1>2, <1>4, <2>1, <3>1, <3>2 DEF TradesOn
    <2>2. CASE i \notin 1..Len(q)
      <3>1. i - Len(q) \in 1..Len(ev) /\ i = Len(q) + (i - Len(q))
        BY <1>2, <2>2
      <3>2. PICK j \in 1..Len(ev) : i = Len(q) + j
        BY <3>1
      <3>3. (q \o ev)[i] = ev[j]
        BY <1>2, <3>2
      <3> QED BY <1>5, <3>3
    <2> QED BY <2>1, <2>2
  <1>6. ASSUME NEW c \in ClientIds, NEW k \in Missing(c)'
        PROVE  \E i \in 1..Len(q \o ev) : (q \o ev)[i] = TradeEvent(VenueTrade(c, k))
    <2>1. VenueTyped /\ VenueTyped'
      BY DEF SyncTyped
    <2>2. Missing(c)' = IF venue'[c].traded = venue[c].traded THEN Missing(c)
                        ELSE Missing(c) \cup {venue'[c].traded}
      BY <2>1, NewIsMissing
    <2>3. CASE k \in Missing(c)
      <3>1. PICK i \in 1..Len(q) : q[i] = TradeEvent(VenueTrade(c, k))
        BY <1>4, <2>3
      <3> QED BY <1>2, <1>3, <3>1
    <2>4. CASE k \notin Missing(c)
      <3>1. k = venue'[c].traded /\ venue'[c].traded # venue[c].traded
        BY <1>6, <2>2, <2>4
      <3>2. PICK i \in 1..Len(ev) : ev[i] = TradeEvent(VenueTrade(c, k))
        BY <3>1
      <3> QED BY <1>2, <1>3, <3>2
    <2> QED BY <2>3, <2>4
  <1>7. InFlight' = q \o ev
    BY <1>1
  <1> QED BY <1>5, <1>6, <1>7 DEF MissingUnderWay, TradeEvent

LEMMA NoTradeMade ==
  ASSUME NEW x \in Events, x.type = "order", NEW vs
  PROVE  AllMade(<<x>>, vs)
  BY DEF AllMade

\* The common part of the venue's steps and of a submission.
LEMMA SpeakingStep ==
  ASSUME SyncTyped, SyncTyped', BooksInv, TradesOn, NEW ev \in Seq(Events), Sends(ev),
         AllMade(ev, venue'), stage' = stage, lane' = lane, stage \notin Starting,
         UNCHANGED <<positions, positionApplied, accountApplied, buyingPower, netCashFlow>>,
         \A i \in 1..Len(ev) : ev[i].type = "trade" =>
           ev[i].r.report_index > venue'[ev[i].r.client].seen,
         \A c \in ClientIds : venue'[c].traded # venue[c].traded =>
           \E i \in 1..Len(ev) : ev[i] = TradeEvent(VenueTrade(c, venue'[c].traded))
  PROVE  BooksInv'
  <1>1. lane \in Seq(Events) /\ wire \in Seq(Events) /\ VenueTyped /\ VenueTyped' /\ KeysInv
    BY DEF SyncTyped, EventsTyped, BooksInv
  <1>2. AppliedMade' /\ (TableInv => TableInv') /\ (CashInv => CashInv')
        /\ accountApplied' = positionApplied'
    BY <1>1, BooksStay DEF KeysInv
  <1>3. AllMade(lane, venue') /\ AllMade(wire, venue')
    BY <1>1, AllMadeStays DEF KeysInv
  <1>4. AllMade(wire, venue)'
    <2>1. wire' = wire \/ wire' = wire \o ev
      BY DEF Sends
    <2> QED BY <1>1, <1>3, <2>1, AllMadeConcat
  <1>5. KeysInv' /\ QuietStart'
    BY <1>2, <1>3, <1>4 DEF KeysInv, QuietStart, Starting
  <1>6. stage = "running" => MissingUnderWay'
    <2> SUFFICES ASSUME stage = "running" PROVE MissingUnderWay'
      OBVIOUS
    <2>1. InFlight' = InFlight \o ev /\ InFlight \in Seq(Events)
      BY Joins
    <2> QED BY <1>1, <2>1, UnderWayGrows DEF BooksInv, KeysInv
  <1> QED BY <1>2, <1>5, <1>6 DEF BooksInv, Starting

LEMMA VenueBooksStep ==
  ASSUME SyncTyped, SyncTyped', BooksInv, Venue
  PROVE  BooksInv'
  <1>1. PICK c \in ClientIds : VenueFill(c) \/ VenueCancel(c) \/ VenueRepeat(c)
    BY DEF Venue
  <1>2. PICK w \in VenueEntry :
          /\ EntryFits(w) /\ EntryMoves(venue[c], w)
          /\ w.traded \in 1..OrderVolume \/ w.status # venue[c].status
          /\ venue' = [venue EXCEPT ![c] = w] /\ venue'[c] = w
          /\ (\E es \in EventsOf(c, w) : Sends(es)) /\ VenueActs
    BY <1>1, VenueShape
  <1>3. /\ stage' = stage /\ lane' = lane /\ stage \notin Starting
        /\ UNCHANGED <<positions, positionApplied, accountApplied, buyingPower, netCashFlow>>
    BY <1>2 DEF VenueActs, BooksInv, controlVars, bookVars, positionVars, accountVars
  <1>4. PICK v \in VenueEntry : v = venue[c] /\ EntryFits(v)
    BY DEF SyncTyped, VenueTyped
  <1>5. /\ v.traded \in Nat /\ v.seen \in Nat /\ v.seen <= v.traded /\ OrderVolume \in Nat
        /\ w.id = v.id /\ w.seen = v.seen /\ w.traded \in {v.traded, v.traded + 1}
        /\ w.traded \in 0..OrderVolume
    BY <1>2, <1>4, SyncAssumption DEF EntryMoves, EntryFits, VenueEntry
  <1>6. \A d \in ClientIds : venue'[d] = IF d = c THEN w ELSE venue[d]
    BY <1>2 DEF SyncTyped, VenueTyped
  <1>7. TradesOn
    BY <1>4, <1>5, <1>6 DEF TradesOn
  <1>8. EventsOf(c, w) \subseteq Seq(Events)
    <2>1. VenueTyped' /\ Placed(c)'
      BY <1>2 DEF SyncTyped, Placed, EntryMoves
    <2> QED BY <1>2, <2>1, EventsOfTyped
  <1>9. PICK x : x = OrderEvent(Report(c)') /\ x.type = "order"
    <2>1. \A r : OrderEvent(r).type = "order"
      BY DEF OrderEvent
    <2> QED BY <2>1
  <1>10. PICK y : /\ y = TradeEvent(VenueTrade(c, w.traded)) /\ y.type = "trade"
                  /\ y.r = VenueTrade(c, w.traded)
    <2>1. \A t : TradeEvent(t).type = "trade" /\ TradeEvent(t).r = t
      BY DEF TradeEvent
    <2> QED BY <2>1
  <1>11. y.r.client = c /\ y.r.report_index = w.traded
    BY <1>10 DEF VenueTrade
  <1>12. PICK ev \in Seq(Events) :
           /\ Sends(ev)
           /\ \/ w.traded # v.traded /\ ev \in {<<y>>, <<y, x>>}
              \/ w.traded = v.traded /\ ev = <<x>>
              \/ w.traded = v.traded /\ w.status = v.status /\ ev = <<y>>
    <2>1. PICK ev \in Seq(Events) : ev \in EventsOf(c, w) /\ Sends(ev)
      BY <1>2, <1>8
    <2> QED BY <1>4, <1>9, <1>10, <2>1 DEF EventsOf
  <1>13. w.traded > w.seen \/ ev = <<x>>
    <2>1. CASE w.traded # v.traded
      BY <1>5, <2>1
    <2>2. CASE w.traded = v.traded /\ w.status = v.status
      <3>1. VenueRepeat(c)
        <4>1. ~VenueFill(c)
          <5> SUFFICES ASSUME VenueFill(c) PROVE FALSE
            OBVIOUS
          <5>1. venue'[c].traded = v.traded + 1
            BY <1>4 DEF VenueFill, SyncTyped, VenueTyped, VenueEntry
          <5> QED BY <1>2, <1>5, <2>2, <5>1
        <4>2. ~VenueCancel(c)
          <5> SUFFICES ASSUME VenueCancel(c) PROVE FALSE
            OBVIOUS
          <5>1. venue'[c].status = "Canceled" /\ v.status = "queued"
            BY <1>4 DEF VenueCancel, VenueLive, SyncTyped, VenueTyped, VenueEntry
          <5> QED BY <1>2, <2>2, <5>1
        <4> QED BY <1>1, <4>1, <4>2
      <3> QED BY <1>4, <1>5, <2>2, <3>1 DEF VenueRepeat
    <2> QED BY <1>12, <2>1, <2>2
  <1>14. ASSUME NEW i \in 1..Len(ev), ev[i].type = "trade"
         PROVE  ev[i] = y /\ w.traded > w.seen
    BY <1>9, <1>12, <1>13, <1>14
  <1>15. AllMade(ev, venue')
    <2>1. ASSUME w.traded > w.seen
          PROVE  MadeBy(y.r, w)
      <3>1. w.traded \in 1..w.traded
        BY <1>5, <2>1
      <3> QED BY <1>10, <1>11, <3>1 DEF MadeBy
    <2> QED BY <1>2, <1>11, <1>14, <2>1 DEF AllMade
  <1>16. \A i \in 1..Len(ev) : ev[i].type = "trade" =>
           ev[i].r.report_index > venue'[ev[i].r.client].seen
    BY <1>2, <1>11, <1>14
  <1>17. \A d \in ClientIds : venue'[d].traded # venue[d].traded =>
           \E i \in 1..Len(ev) : ev[i] = TradeEvent(VenueTrade(d, venue'[d].traded))
    <2> SUFFICES ASSUME NEW d \in ClientIds, venue'[d].traded # venue[d].traded
                 PROVE  \E i \in 1..Len(ev) :
                          ev[i] = TradeEvent(VenueTrade(d, venue'[d].traded))
      OBVIOUS
    <2>1. d = c /\ w.traded # v.traded
      BY <1>4, <1>6
    <2>2. 1 \in 1..Len(ev) /\ ev[1] = y
      BY <1>12, <2>1
    <2> QED BY <1>2, <1>10, <2>1, <2>2
  <1> QED BY <1>2, <1>3, <1>7, <1>12, <1>15, <1>16, <1>17, SpeakingStep

LEMMA SubmitBooksStep ==
  ASSUME SyncTyped, SyncTyped', BooksInv, NEW c \in ClientIds, SubmitOrder(c)
  PROVE  BooksInv'
  <1>1. /\ stage = "running" /\ venue[c] = Unplaced
        /\ venue' = [venue EXCEPT ![c] = SubmittedEntry]
        /\ venue'[c] = SubmittedEntry
        /\ Sends(<<OrderEvent(Report(c)')>>)
        /\ UNCHANGED <<controlVars, lane, positionVars, accountVars>>
    BY SubmitShape
  <1>2. /\ stage' = stage /\ lane' = lane /\ stage \notin Starting
        /\ UNCHANGED <<positions, positionApplied, accountApplied, buyingPower, netCashFlow>>
    BY <1>1 DEF controlVars, positionVars, accountVars, Starting
  <1>3. \A d \in ClientIds : d # c => venue'[d] = venue[d]
    BY <1>1 DEF SyncTyped, VenueTyped
  <1>4. venue'[c].traded = 0 /\ venue'[c].seen = 0 /\ venue[c].traded = 0 /\ venue[c].seen = 0
    BY <1>1, SubmittedEntries DEF Unplaced
  <1>5. TradesOn
    BY <1>3, <1>4 DEF TradesOn
  <1>6. PICK x \in Events : x = OrderEvent(Report(c)') /\ x.type = "order"
    <2>1. VenueTyped' /\ Placed(c)'
      BY <1>1, SubmittedEntries DEF Placed, SyncTyped
    <2>2. PICK rep \in VenueReports : rep = Report(c)'
      BY <2>1, ReportsTypedLater DEF ReportsFit
    <2>3. OrderEvent(rep).type = "order" /\ OrderEvent(rep).r = rep
      BY DEF OrderEvent
    <2> QED BY <2>2, <2>3, EventTypes
  <1>7. PICK ev \in Seq(Events) : ev = <<x>>
    BY OneEvent
  <1>8. /\ Sends(ev) /\ AllMade(ev, venue')
        /\ \A i \in 1..Len(ev) : ev[i].type # "trade"
    BY <1>1, <1>6, <1>7, NoTradeMade
  <1>9. \A d \in ClientIds : venue'[d].traded = venue[d].traded
    BY <1>3, <1>4
  <1> QED BY <1>2, <1>5, <1>8, <1>9, SpeakingStep

LEMMA CancelBooksStep ==
  ASSUME SyncTyped, SyncTyped', BooksInv, NEW c \in ClientIds, Cancel(c)
  PROVE  BooksInv'
  <1>1. /\ stage = "running"
        /\ \/ UNCHANGED <<venue, wire>>
           \/ /\ VenueLive(c)
              /\ venue' = [venue EXCEPT ![c] = CanceledEntry(venue[c], AbsId(RowOf(c)))]
              /\ Sends(<<OrderEvent(Report(c)')>>)
        /\ UNCHANGED <<controlVars, connected, lane, positionVars, accountVars>>
    BY CancelShape
  <1>2. /\ stage' = stage /\ lane' = lane /\ stage \notin Starting
        /\ UNCHANGED <<positions, positionApplied, accountApplied, buyingPower, netCashFlow>>
    BY <1>1 DEF controlVars, positionVars, accountVars, Starting
  <1>3. VenueTyped /\ VenueTyped'
    BY DEF SyncTyped
  <1>4. CASE UNCHANGED <<venue, wire>>
    <2>1. TradesOn /\ \A d \in ClientIds : venue'[d].traded = venue[d].traded
      BY <1>3, <1>4, SameVenue
    <2>2. PICK ev \in Seq(Events) : ev = <<>>
      BY EmptyEvents
    <2>3. Sends(ev) /\ AllMade(ev, venue') /\ \A i \in 1..Len(ev) : ev[i].type # "trade"
      <3>1. wire \o ev = wire
        BY <2>2, ConcatEmptySeq DEF SyncTyped, EventsTyped
      <3>2. \A i \in 1..Len(ev) : ev[i].type # "trade"
        BY <2>2, EmptyEvents
      <3> QED BY <1>4, <3>1, <3>2 DEF Sends, AllMade
    <2> QED BY <1>2, <2>1, <2>3, SpeakingStep
  <1>5. CASE /\ VenueLive(c)
             /\ venue' = [venue EXCEPT ![c] = CanceledEntry(venue[c], AbsId(RowOf(c)))]
             /\ Sends(<<OrderEvent(Report(c)')>>)
    <2>1. \A d \in ClientIds : d # c => venue'[d] = venue[d]
      BY <1>3, <1>5 DEF VenueTyped
    <2>2. /\ venue'[c].traded = venue[c].traded /\ venue'[c].seen = venue[c].seen
          /\ venue'[c] # Unplaced
      <3>0. PICK id : id = AbsId(RowOf(c))
        OBVIOUS
      <3>1. venue'[c] = CanceledEntry(venue[c], AbsId(RowOf(c)))
        BY <1>3, <1>5 DEF VenueTyped
      <3>2. PICK v \in VenueEntry : v = venue[c]
        BY <1>3 DEF VenueTyped
      <3>3. PICK u : u = [v EXCEPT !.id = id]
        OBVIOUS
      <3>4. u.traded = v.traded /\ u.seen = v.seen /\ "status" \in DOMAIN u
        BY <3>2, <3>3 DEF VenueEntry
      <3>5. venue'[c] = [u EXCEPT !.status = "Canceled"]
        BY <3>0, <3>1, <3>2, <3>3 DEF CanceledEntry
      <3>6. /\ venue'[c].traded = u.traded /\ venue'[c].seen = u.seen
            /\ venue'[c].status = "Canceled"
        BY <3>4, <3>5
      <3> QED BY <3>2, <3>4, <3>6 DEF Unplaced
    <2>3. TradesOn /\ \A d \in ClientIds : venue'[d].traded = venue[d].traded
      BY <2>1, <2>2 DEF TradesOn
    <2>4. PICK x \in Events : x = OrderEvent(Report(c)') /\ x.type = "order"
      BY <1>3, <2>2, ReportEvent DEF Placed
    <2>5. PICK ev \in Seq(Events) : ev = <<x>>
      BY OneEvent
    <2>6. /\ Sends(ev) /\ AllMade(ev, venue')
          /\ \A i \in 1..Len(ev) : ev[i].type # "trade"
      BY <1>5, <2>4, <2>5, NoTradeMade
    <2> QED BY <1>2, <2>3, <2>6, SpeakingStep
  <1> QED BY <1>1, <1>4, <1>5

-----------------------------------------------------------------------------
(* The books follow the venue: the control thread.                         *)

LEMMA NothingMade == \A vs : AllMade(<<>>, vs)
  BY EmptyEvents DEF AllMade

\* A step of the control thread that leaves the venue and the books alone.
LEMMA KeysStay ==
  ASSUME SyncTyped, SyncTyped', KeysInv, venue' = venue, lane' = lane \/ lane' = <<>>,
         wire' = wire \/ wire' = <<>>, positionApplied' = positionApplied,
         accountApplied' = accountApplied
  PROVE  KeysInv'
  <1>1. VenueTyped /\ TradesOn /\ AppliedMade
    BY SameVenue DEF SyncTyped, KeysInv
  <1>2. AppliedMade'
    BY <1>1, AppliedStays
  <1>3. AllMade(lane, venue)' /\ AllMade(wire, venue)'
    BY NothingMade DEF KeysInv
  <1> QED BY <1>2, <1>3 DEF KeysInv

\* With every trade seen none is missing, and the books count what was traded.
LEMMA AllSeen ==
  ASSUME VenueTyped, \A c \in ClientIds : venue[c].seen = venue[c].traded
  PROVE  /\ \A c \in ClientIds : Missing(c) = {}
         /\ \A sides : CountedBy(sides) = TradedBy(sides)
  <1>1. ASSUME NEW c \in ClientIds
        PROVE  Missing(c) = {} /\ Booked[c] = venue[c].traded
    <2>1. venue[c].traded \in Nat /\ venue[c].seen = venue[c].traded
      BY EntriesNat, SyncAssumption DEF EntryNat
    <2>2. Missing(c) = {}
      BY <2>1 DEF Missing
    <2>3. Booked[c] = venue[c].traded - 0
      BY <2>2, FS_EmptySet DEF Booked
    <2> QED BY <2>1, <2>2, <2>3
  <1>2. Booked = [c \in ClientIds |-> Booked[c]]
    BY DEF Booked
  <1>3. Booked = [c \in ClientIds |-> venue[c].traded]
    BY <1>1, <1>2
  <1> QED BY <1>1, <1>3 DEF CountedBy, TradedBy

\* The venue never sold more than it held.
LEMMA TotalNat ==
  ASSUME VenueTyped, OrdersAreSound
  PROVE  VenueTotal \in Nat
  <1> DEFINE S == {c \in ClientIds : SideOf[c] = "Sell"}
             f == [c \in ClientIds |-> venue[c].traded]
             w == [c \in ClientIds |-> OrderVolume]
  <1>1. S = {c \in ClientIds : SideOf[c] \in {"Sell"}} /\ IsFiniteSet(S)
    BY SyncAssumption, FS_Subset
  <1>2. TradedBy({"Sell"}) = SumFunctionOnSet(f, S)
    BY <1>1 DEF TradedBy
  <1>3. ASSUME NEW c \in ClientIds
        PROVE  f[c] \in Nat /\ w[c] \in Nat /\ f[c] <= w[c]
    BY EntriesNat, SyncAssumption DEF EntryNat
  <1>4. SumFunctionOnSet(w, S) <= Base
    BY DEF OrdersAreSound
  <1>5. /\ SumFunctionOnSet(f, S) <= SumFunctionOnSet(w, S)
        /\ SumFunctionOnSet(f, S) \in Nat /\ SumFunctionOnSet(w, S) \in Nat
    <2>1. S \in SUBSET S /\ \A c \in S : f[c] \in Nat /\ w[c] \in Nat /\ f[c] <= w[c]
      BY <1>3
    <2> HIDE DEF S, f, w
    <2> QED BY <1>1, <2>1, SumShrinks, SumNat
  <1>6. TradedBy({"Buy"}) \in Nat /\ Base \in Nat
    BY TradedByTyped, SyncAssumption
  <1> HIDE DEF S, f, w
  <1> QED BY <1>2, <1>4, <1>5, <1>6 DEF VenueTotal

LEMMA BootBooksStep ==
  ASSUME SyncTyped, SyncTyped', BooksInv, BootInit
  PROVE  BooksInv'
  <1>1. /\ stage' = "initiated" /\ wire' = <<>> /\ lane' = <<>>
        /\ venue' = [c \in ClientIds |-> SeenEntry(venue[c])]
        /\ positionApplied' = positionApplied /\ accountApplied' = accountApplied
    BY BootShape DEF positionVars, accountVars
  <1>2. \A c \in ClientIds :
          venue'[c].traded = venue[c].traded /\ venue'[c].seen = venue'[c].traded
    <2> SUFFICES ASSUME NEW c \in ClientIds
                 PROVE  venue'[c].traded = venue[c].traded /\ venue'[c].seen = venue'[c].traded
      OBVIOUS
    <2>1. venue[c] \in VenueEntry /\ EntryFits(venue[c]) /\ venue'[c] = SeenEntry(venue[c])
      BY <1>1 DEF SyncTyped, VenueTyped
    <2> QED BY <2>1, SeenEntries
  <1>3. AppliedMade'
    <2>1. ASSUME NEW x \in positionApplied
          PROVE  \E c \in ClientIds : \E k \in 1..venue'[c].traded : x = TradeKey(c, k)
      <3>1. PICK c \in ClientIds : \E k \in 1..venue[c].traded : x = TradeKey(c, k)
        BY DEF BooksInv, KeysInv, AppliedMade
      <3>2. PICK k \in 1..venue[c].traded : x = TradeKey(c, k)
        BY <3>1
      <3>3. k \in 1..venue'[c].traded /\ x = TradeKey(c, k)
        BY <1>2, <3>2
      <3> QED BY <3>3
    <2> QED BY <1>1, <2>1 DEF AppliedMade, TradeKey
  <1>4. KeysInv'
    BY <1>1, <1>3, NothingMade DEF BooksInv, KeysInv
  <1>5. QuietStart'
    BY <1>1, <1>2 DEF QuietStart
  <1> QED BY <1>1, <1>4, <1>5 DEF BooksInv

LEMMA RowsStay == venue' = venue => VenueRows' = VenueRows /\ VenueCash' = VenueCash
  BY DEF VenueRows, VenueCash, VenueTotal, TradedBy

LEMMA QueryBooksStep ==
  ASSUME SyncTyped, SyncTyped', BooksInv, QuerySteps
  PROVE  BooksInv'
  <1>1. /\ stage \in Starting /\ stage' \in (Starting \ {"synced", "initiated"}) \cup {"failed"}
        /\ venue' = venue /\ wire' = wire /\ lane' = lane
        /\ positionApplied' = positionApplied /\ accountApplied' = accountApplied
    BY QueryShape DEF venueVars, bookVars, positionVars, accountVars
  <1>2. KeysInv'
    BY <1>1, KeysStay DEF BooksInv
  <1>3. /\ wire = <<>> /\ \A c \in ClientIds : venue[c].seen = venue[c].traded
        /\ stage \in {"asset", "apply"} => answers.rows = VenueRows
    BY <1>1 DEF BooksInv, QuietStart
  <1>4. answers \in [orders : SUBSET VenueReports, trades : SUBSET VenueTrades,
                     rows : SUBSET Row, power : Int]
    BY DEF SyncTyped, AnswersTyped
  <1>5. /\ stage' \in {"asset", "apply"} => answers'.rows = VenueRows
        /\ stage' = "apply" => answers'.power = VenueCash
    <2>1. stage' \in {"asset", "apply"} =>
            \/ /\ stage = "positions" /\ stage' = "asset"
               /\ answers' = [answers EXCEPT !.rows = VenueRows]
            \/ /\ stage = "asset" /\ stage' = "apply"
               /\ answers' = [answers EXCEPT !.power = VenueCash]
      BY QueryShape
    <2>2. PICK rows, cash : rows = VenueRows /\ cash = VenueCash
      OBVIOUS
    <2> QED BY <1>3, <1>4, <2>1, <2>2
  <1>6. QuietStart'
    BY <1>1, <1>3, <1>5, RowsStay DEF QuietStart
  <1> QED BY <1>1, <1>2, <1>6 DEF BooksInv, Starting

LEMMA ApplyBooksStep ==
  ASSUME SyncTyped, SyncTyped', BooksInv, SyncOrder \/ SyncTrade
  PROVE  BooksInv'
  <1>1. /\ stage = "apply" /\ stage' = stage /\ venue' = venue /\ wire' = wire /\ lane' = lane
        /\ positionApplied' = positionApplied /\ accountApplied' = accountApplied
        /\ answers'.rows = answers.rows /\ answers'.power = answers.power
    <2>1. answers \in [orders : SUBSET VenueReports, trades : SUBSET VenueTrades,
                       rows : SUBSET Row, power : Int]
      BY DEF SyncTyped, AnswersTyped
    <2>2. CASE SyncOrder
      <3>1. stage = "apply" /\ UNCHANGED <<stage, venue, wire, lane, positionApplied>>
        BY <2>2 DEF SyncOrder, venueVars, positionVars
      <3>2. accountApplied' = accountApplied /\ \E r : answers' = [answers EXCEPT !.orders = @ \ {r}]
        BY <2>2 DEF SyncOrder, AccountFollows, AccountApplyOrder, accountVars
      <3> QED BY <2>1, <3>1, <3>2
    <2>3. CASE SyncTrade
      <3>1. /\ stage = "apply" /\ UNCHANGED <<stage, venue, wire, lane, positionApplied, accountApplied>>
            /\ \E t : answers' = [answers EXCEPT !.trades = @ \ {t}]
        BY <2>3 DEF SyncTrade, venueVars, positionVars, accountVars
      <3> QED BY <2>1, <3>1
    <2> QED BY <2>2, <2>3
  <1>2. KeysInv'
    BY <1>1, KeysStay DEF BooksInv
  <1>3. QuietStart'
    BY <1>1, RowsStay DEF BooksInv, QuietStart, Starting
  <1> QED BY <1>1, <1>2, <1>3 DEF BooksInv

\* The snapshots put the venue's own figures into the books.
LEMMA RowsTaken ==
  ASSUME VenueTyped, OrdersAreSound, \A c \in ClientIds : venue[c].seen = venue[c].traded,
         ApplyPositionSnapshot(VenueRows), venue' = venue,
         VenueTyped', AppliedMade
  PROVE  TableInv'
  <1>1. \A sides : CountedBy(sides)' = TradedBy(sides)
    <2>1. \A sides : CountedBy(sides) = TradedBy(sides)
      BY AllSeen
    <2>2. \A sides : CountedBy(sides)' = CountedBy(sides)
      BY SameVenue, CountsStay DEF ApplyPositionSnapshot
    <2> QED BY <2>1, <2>2
  <1>2. PICK n \in Nat : n = VenueTotal
    BY TotalNat
  <1>3. PICK rows : rows = VenueRows
    OBVIOUS
  <1>4. \A s \in Slot :
          LET here == {r \in rows : r.total >= 0 /\ <<r.instrument, r.direction>> = s}
          IN IF here = {} THEN positions'[s] = NoRow
             ELSE \E r \in here : positions'[s] = NewRow(r.total, r.yesterday)
    BY <1>3 DEF ApplyPositionSnapshot
  <1>5. \A r \in rows : /\ r.instrument = TheInstrument /\ r.direction = "Long"
                        /\ r.total = n /\ n > 0
    BY <1>2, <1>3 DEF VenueRows
  <1>6. n > 0 => rows # {}
    <2> SUFFICES ASSUME n > 0 PROVE rows # {}
      OBVIOUS
    <2>1. VenueTotal # 0
      BY <1>2
    <2> QED BY <1>3, <2>1 DEF VenueRows
  <1>7. positions'[<<TheInstrument, "Short">>] = NoRow
        /\ positions'[<<TheInstrument, "Net">>] = NoRow
    <2>1. \A r \in rows : /\ <<r.instrument, r.direction>> # <<TheInstrument, "Short">>
                          /\ <<r.instrument, r.direction>> # <<TheInstrument, "Net">>
      BY <1>5
    <2> QED BY <1>4, <2>1, SlotsApart
  <1>8. positions'[LongSlot].total = n /\ (n > 0 => positions'[LongSlot].present)
    <2>1. CASE n = 0
      <3>1. rows = {}
        BY <1>5, <2>1
      <3>2. positions'[LongSlot] = NoRow
        BY <1>4, <3>1, SlotsApart
      <3> QED BY <2>1, <3>2 DEF NoRow
    <2>2. CASE n # 0
      <3>1. \A r \in rows : r.total >= 0 /\ <<r.instrument, r.direction>> = LongSlot
        BY <1>5 DEF LongSlot
      <3>2. rows # {} /\ {r \in rows : r.total >= 0 /\ <<r.instrument, r.direction>> = LongSlot} = rows
        BY <1>6, <2>2, <3>1
      <3>3. PICK r \in rows : positions'[LongSlot] = NewRow(r.total, r.yesterday)
        BY <1>4, <3>2, SlotsApart
      <3> QED BY <1>5, <3>3 DEF NewRow
    <2> QED BY <2>1, <2>2
  <1>9. TableInv'
    <2>1. n = Base + CountedBy({"Buy"})' - CountedBy({"Sell"})'
      BY <1>1, <1>2 DEF VenueTotal
    <2> QED BY <1>7, <1>8, <2>1 DEF TableInv, LongSlot, NoRow
  <1> QED BY <1>9

LEMMA SnapshotTakes ==
  ASSUME VenueTyped, \A c \in ClientIds : venue[c].seen = venue[c].traded,
         ApplyPositionSnapshot(VenueRows), ApplyAssetSnapshot(VenueCash), venue' = venue,
         VenueTyped', AppliedMade
  PROVE  TableInv' /\ CashInv'
  <1>1. TableInv'
    BY RowsTaken DEF TableInv
  <1>2. \A sides : CountedBy(sides)' = TradedBy(sides)
    <2>1. \A sides : CountedBy(sides) = TradedBy(sides)
      BY AllSeen
    <2>2. \A sides : CountedBy(sides)' = CountedBy(sides)
      BY SameVenue, CountsStay DEF ApplyPositionSnapshot
    <2> QED BY <2>1, <2>2
  <1>3. CashInv'
    <2>1. buyingPower' = VenueCash /\ netCashFlow' = 0
      BY DEF ApplyAssetSnapshot
    <2>2. VenueCash = Base - CountedBy(Outflow)' + CountedBy(Inflow)'
      BY <1>2 DEF VenueCash
    <2>3. VenueCash \in Int
      BY TradedByTyped, SyncAssumption DEF VenueCash
    <2> QED BY <2>1, <2>2, <2>3 DEF CashInv
  <1> QED BY <1>1, <1>3

LEMMA SyncBooksBooksStep ==
  ASSUME SyncTyped, SyncTyped', BooksInv, SyncBooks
  PROVE  BooksInv'
  <1>1. /\ stage = "apply" /\ stage' \in {"synced", "failed"}
        /\ ApplyPositionSnapshot(answers.rows) /\ ApplyAssetSnapshot(answers.power)
        /\ venue' = venue /\ wire' = wire /\ lane' = lane
        /\ positionApplied' = positionApplied /\ accountApplied' = accountApplied
    BY DEF SyncBooks, At, venueVars, ApplyPositionSnapshot, ApplyAssetSnapshot
  <1>2. KeysInv'
    BY <1>1, KeysStay DEF BooksInv
  <1>3. /\ wire = <<>> /\ \A c \in ClientIds : venue[c].seen = venue[c].traded
        /\ answers.rows = VenueRows /\ answers.power = VenueCash
    BY <1>1 DEF BooksInv, QuietStart, Starting
  <1>4. TableInv' /\ CashInv'
    BY <1>1, <1>3, SnapshotTakes DEF SyncTyped, BooksInv, KeysInv
  <1>5. QuietStart'
    BY <1>1, <1>3 DEF QuietStart
  <1> QED BY <1>1, <1>2, <1>4, <1>5 DEF BooksInv

LEMMA EndsBooksStep ==
  ASSUME SyncTyped, SyncTyped', BooksInv, StartEngineModules \/ StopRunning \/ Release
  PROVE  BooksInv'
  <1>1. /\ venue' = venue /\ (lane' = lane \/ lane' = <<>>) /\ (wire' = wire \/ wire' = <<>>)
        /\ UNCHANGED <<positions, positionApplied, accountApplied, buyingPower, netCashFlow>>
        /\ stage' \in {"running", "stopping", "down"}
    BY DEF StartEngineModules, StopRunning, Release, At, venueVars, bookVars, positionVars,
           accountVars
  <1>2. KeysInv' /\ QuietStart'
    BY <1>1, KeysStay DEF BooksInv, QuietStart, Starting
  <1>3. CASE stage' = "running"
    <2>1. stage = "synced" /\ lane' = lane /\ wire' = wire
      BY <1>3 DEF StartEngineModules, StopRunning, Release, At, venueVars
    <2>2. /\ wire = <<>> /\ lane = <<>> /\ TableInv /\ CashInv
          /\ \A c \in ClientIds : venue[c].seen = venue[c].traded
      BY <2>1 DEF BooksInv, QuietStart, Starting, SyncTyped, EventsTyped
    <2>3. VenueTyped /\ VenueTyped' /\ TradesOn /\ AppliedMade
      BY <1>1, SameVenue DEF SyncTyped, BooksInv, KeysInv
    <2>4. TableInv' /\ CashInv'
      BY <1>1, <2>2, <2>3, BooksStay
    <2>5. \A c \in ClientIds : Missing(c)' = {}
      <3>1. \A c \in ClientIds : Missing(c) = {}
        BY <2>2, <2>3, AllSeen
      <3> QED BY <1>1, <2>3, <3>1, MissingStays
    <2>6. InFlight' = <<>>
      BY <2>1, <2>2 DEF InFlight
    <2>7. MissingUnderWay'
      BY <2>5, <2>6, EmptyEvents DEF MissingUnderWay
    <2> QED BY <1>2, <1>3, <2>4, <2>7 DEF BooksInv
  <1>4. CASE stage' # "running"
    BY <1>1, <1>2, <1>4 DEF BooksInv
  <1> QED BY <1>3, <1>4

LEMMA BooksStep ==
  ASSUME SyncTyped, SyncTyped', BooksInv, [SyncNext]_syncVars
  PROVE  BooksInv'
  <1>1. CASE UNCHANGED syncVars
    <2>1. /\ UNCHANGED <<stage, answers, venue, wire, lane>>
          /\ UNCHANGED <<positions, positionApplied, accountApplied, buyingPower, netCashFlow>>
      BY <1>1 DEF syncVars, controlVars, venueVars, bookVars, positionVars, accountVars
    <2>2. VenueTyped /\ VenueTyped' /\ TradesOn /\ AppliedMade
      BY <2>1, SameVenue DEF SyncTyped, BooksInv, KeysInv
    <2>3. KeysInv' /\ (TableInv => TableInv') /\ (CashInv => CashInv')
      BY <2>1, <2>2, KeysStay, BooksStay DEF BooksInv
    <2>4. QuietStart'
      BY <2>1, RowsStay DEF BooksInv, QuietStart
    <2>5. MissingUnderWay => MissingUnderWay'
      <3>1. \A c \in ClientIds : Missing(c)' = Missing(c)
        BY <2>1, <2>2, MissingStays
      <3>2. InFlight' = InFlight
        BY <2>1 DEF InFlight
      <3> QED BY <2>1, <3>1, <3>2 DEF MissingUnderWay
    <2> QED BY <2>1, <2>3, <2>4, <2>5 DEF BooksInv
  <1>2. CASE SyncNext
    <2>1. QuerySteps => BooksInv'
      BY QueryBooksStep
    <2>2. Calls => BooksInv'
      BY SubmitBooksStep, CancelBooksStep DEF Calls
    <2> QED BY <1>2, <2>1, <2>2, VenueBooksStep, CallbackBooksStep, HandleBooksStep,
               BootBooksStep, ApplyBooksStep, SyncBooksBooksStep, EndsBooksStep
            DEF SyncNext, Control, QuerySteps
  <1> QED BY <1>1, <1>2

LEMMA BooksInvariant ==
  ASSUME VenueQuietInStart, LaneRoom >= MaxInFlight
  PROVE  SyncSpec => [](SyncTyped /\ BooksInv)
  <1>1. SyncInit => BooksInv
    <2> SUFFICES ASSUME SyncInit PROVE BooksInv
      OBVIOUS
    <2>1. stage = "down" /\ wire = <<>> /\ lane = <<>>
      BY Zenon DEF SyncInit
    <2>2. positionApplied = {} /\ accountApplied = {}
      BY DEF SyncInit, PositionInit, AccountInit
    <2>3. KeysInv
      BY <2>1, <2>2, NothingMade DEF KeysInv, AppliedMade
    <2> QED BY <2>1, <2>3 DEF BooksInv, QuietStart, Starting
  <1>2. SyncTyped /\ SyncTyped' /\ BooksInv /\ [SyncNext]_syncVars => BooksInv'
    BY BooksStep
  <1> QED BY <1>1, <1>2, TypedInvariant, PTL DEF SyncSpec

LEMMA QuietBooks ==
  ASSUME SyncTyped, BooksInv, Quiet
  PROVE  /\ TableInv /\ CashInv
         /\ \A sides : CountedBy(sides) = TradedBy(sides)
  <1>1. stage = "running" /\ InFlight = <<>> /\ VenueTyped
    <2>1. stage = "running"
      BY Zenon DEF SyncTyped, ControlTyped, Quiet
    <2> QED BY <2>1 DEF Quiet, InFlight, SyncTyped
  <1>2. TableInv /\ CashInv /\ MissingUnderWay
    BY <1>1 DEF BooksInv
  <1>3. \A c \in ClientIds : Missing(c) = {}
    BY <1>1, <1>2, EmptyEvents DEF MissingUnderWay
  <1>4. \A c \in ClientIds : Booked[c] = venue[c].traded
    <2> SUFFICES ASSUME NEW c \in ClientIds PROVE Booked[c] = venue[c].traded
      OBVIOUS
    <2>1. venue[c].traded \in Nat
      BY <1>1, EntriesNat, SyncAssumption DEF EntryNat
    <2>2. Booked[c] = venue[c].traded - 0
      BY <1>3, FS_EmptySet DEF Booked
    <2> QED BY <2>1, <2>2
  <1>5. Booked = [c \in ClientIds |-> Booked[c]]
    BY DEF Booked
  <1>6. Booked = [c \in ClientIds |-> venue[c].traded]
    BY <1>4, <1>5
  <1> QED BY <1>2, <1>6 DEF CountedBy, TradedBy

\* With nothing in flight the engine's position is the venue's: over any number of
\* starts, with lanes that Stop dropped and trades that came twice, no trade is
\* counted twice beside the snapshot and none is missing.
THEOREM PositionAlwaysAgrees ==
  ASSUME VenueQuietInStart, LaneRoom >= MaxInFlight, OrdersAreSound
  PROVE  SyncSpec => []PositionAgreesWhenQuiet
  <1>1. SyncTyped /\ BooksInv => PositionAgreesWhenQuiet
    <2> SUFFICES ASSUME SyncTyped, BooksInv, Quiet
                 PROVE  GetNetPosition(TheInstrument) = VenueTotal
      BY DEF PositionAgreesWhenQuiet
    <2>1. TableInv /\ CountedBy({"Buy"}) = TradedBy({"Buy"})
          /\ CountedBy({"Sell"}) = TradedBy({"Sell"})
      BY QuietBooks
    <2>2. positions[LongSlot].total = VenueTotal /\ VenueTotal \in Int
      BY <2>1, TradedByTyped, SyncAssumption DEF TableInv, VenueTotal, SyncTyped
    <2>3. GetNetPosition(TheInstrument) =
            positions[LongSlot].total - positions[<<TheInstrument, "Short">>].total
      BY <2>1 DEF TableInv, GetNetPosition, LongSlot
    <2>4. positions[<<TheInstrument, "Short">>].total = 0
      BY <2>1 DEF TableInv
    <2> QED BY <2>2, <2>3, <2>4
  <1> QED BY <1>1, BooksInvariant, PTL

-----------------------------------------------------------------------------
(* The funds: what is frozen covers what every open order still needs.     *)

Open(c) == RowOf(c) # NoId /\ orders[RowOf(c)].state \notin Terminal /\ SideOf[c] \in Outflow

HeldFor(c) == orderFrozen[AbsId(RowOf(c))]

Covered(c) == HeldFor(c) >= OrderVolume - venue[c].traded

ReportIn(q, c) == \E i \in About(q, c) : q[i].type = "order"

FrozenInv == frozenAmount = SumFunctionOnSet(orderFrozen, AccountOrders)

\* In a start every open order is covered, and then every one no order report
\* is under way about; a trade reported alone leaves too much frozen.
CoverInv ==
  /\ stage \in Starting => \A c \in ClientIds : Open(c) => Covered(c)
  /\ stage = "running" => \A c \in ClientIds : Open(c) => Covered(c) \/ ReportIn(InFlight, c)

FundsInv == FrozenInv /\ CoverInv

-----------------------------------------------------------------------------
(* The sum of what is frozen.                                              *)

LEMMA AccountOrdersFinite == IsFiniteSet(AccountOrders)
  <1>1. PICK n \in Nat : AccountOrders = 1..n
    <2>1. 0 \in 0..MaxSessions
      BY SyncAssumption
    <2>2. MaxOrders * (MaxSessions + 1) \in Nat
      BY <2>1, Products
    <2> QED BY <2>2, SyncAssumption
  <1> QED BY <1>1, FS_Interval

\* A sum over images of distinct elements that are no smaller is no smaller.
LEMMA SumImage ==
  ASSUME NEW S, IsFiniteSet(S), NEW T, IsFiniteSet(T), NEW j, \A x \in S : j[x] \in T,
         \A x, y \in S : j[x] = j[y] => x = y, NEW f, NEW g,
         \A x \in S : f[x] \in Nat /\ f[x] <= g[j[x]], \A y \in T : g[y] \in Nat
  PROVE  SumFunctionOnSet(f, S) <= SumFunctionOnSet(g, T)
  <1> DEFINE I(s) == {j[x] : x \in s}
             G == {s \in SUBSET S : SumFunctionOnSet(f, s) <= SumFunctionOnSet(g, I(s))}
  <1>1. ASSUME NEW s \in SUBSET S, \A t \in SUBSET s : t # s => t \in G
        PROVE  s \in G
    <2>1. IsFiniteSet(s) /\ I(s) \in SUBSET T /\ IsFiniteSet(I(s))
      BY FS_Subset
    <2>2. CASE s = {}
      <3>1. I(s) = {}
        BY <2>2
      <3> QED BY <2>2, <3>1, SumEmpty
    <2>3. CASE s # {}
      <3>1. PICK c \in s : TRUE
        BY <2>3
      <3>2. PICK r : r = s \ {c}
        OBVIOUS
      <3>3. r \in G /\ IsFiniteSet(r)
        BY <1>1, <2>1, <3>1, <3>2, FS_Subset
      <3>4. I(s) \ {j[c]} = I(r) /\ j[c] \in I(s) /\ IsFiniteSet(I(r))
        <4>1. I(s) \ {j[c]} = I(r) /\ j[c] \in I(s)
          BY <3>1, <3>2
        <4>2. I(r) \in SUBSET T
          BY <2>1, <4>1
        <4> QED BY <4>1, <4>2, FS_Subset
      <3>5. SumFunctionOnSet(f, s) = f[c] + SumFunctionOnSet(f, r)
            /\ SumFunctionOnSet(f, r) \in Int /\ f[c] \in Int
        BY <2>1, <3>1, <3>2, <3>3, SumRemove, SumType
      <3>6. SumFunctionOnSet(g, I(s)) = g[j[c]] + SumFunctionOnSet(g, I(r))
            /\ SumFunctionOnSet(g, I(r)) \in Int /\ g[j[c]] \in Int
        <4>1. PICK U : U = I(s)
          OBVIOUS
        <4>2. PICK V : V = I(r)
          OBVIOUS
        <4>3. /\ IsFiniteSet(U) /\ IsFiniteSet(V) /\ j[c] \in U /\ V = U \ {j[c]}
              /\ U \in SUBSET T
          BY <2>1, <3>4, <4>1, <4>2
        <4>4. \A y \in U : g[y] \in Int
          BY <4>3
        <4> HIDE DEF I
        <4>5. SumFunctionOnSet(g, U) = g[j[c]] + SumFunctionOnSet(g, V)
              /\ SumFunctionOnSet(g, V) \in Int
          BY <4>3, <4>4, SumRemove, SumType
        <4> QED BY <4>1, <4>2, <4>3, <4>4, <4>5
      <3>7. SumFunctionOnSet(f, r) <= SumFunctionOnSet(g, I(r)) /\ f[c] <= g[j[c]]
        BY <3>1, <3>3
      <3>8. SumFunctionOnSet(f, s) <= SumFunctionOnSet(g, I(s))
        <4> HIDE DEF I
        <4> QED BY <3>5, <3>6, <3>7
      <3> QED BY <3>8
    <2> QED BY <2>2, <2>3
  <1>2. G = SUBSET S
    <2> G \in SUBSET (SUBSET S)
      OBVIOUS
    <2> HIDE DEF G
    <2> QED BY <1>1, SubsetInduction
  <1>3. SumFunctionOnSet(f, S) <= SumFunctionOnSet(g, I(S))
    <2>1. S \in G
      BY <1>2
    <2> QED BY <2>1
  <1>4. I(S) \in SUBSET T /\ IsFiniteSet(I(S))
    BY FS_Subset
  <1>5. PICK U : U = I(S)
    OBVIOUS
  <1> HIDE DEF I
  <1>6. U \in SUBSET T /\ \A y \in T : g[y] \in Nat /\ g[y] <= g[y]
    BY <1>4, <1>5
  <1>7. SumFunctionOnSet(g, U) <= SumFunctionOnSet(g, T)
    BY <1>6, SumShrinks
  <1>8. SumFunctionOnSet(f, S) \in Int /\ SumFunctionOnSet(g, U) \in Int
        /\ SumFunctionOnSet(g, T) \in Int
    <2>1. IsFiniteSet(U) /\ (\A y \in U : g[y] \in Int) /\ (\A y \in T : g[y] \in Int)
          /\ \A x \in S : f[x] \in Int
      BY <1>4, <1>5
    <2> QED BY <2>1, SumType
  <1> QED BY <1>3, <1>5, <1>7, <1>8

LEMMA FrozenKept ==
  ASSUME FrozenInv, orderFrozen' = orderFrozen, frozenAmount' = frozenAmount
  PROVE  FrozenInv'
  BY DEF FrozenInv

\* The account never has to clamp: it takes away what it once added.
LEMMA FrozenFollows ==
  ASSUME SyncTyped, OmsTyped', FrozenInv, NEW id, AccountFollows(id)
  PROVE  FrozenInv'
  <1>1. CASE ~(id \in OrderIds /\ orders'[id].state # "Absent")
    BY <1>1, FrozenKept DEF AccountFollows, accountVars
  <1>2. CASE id \in OrderIds /\ orders'[id].state # "Absent"
    <2>1. PICK a \in AccountOrders : a = AbsId(id)
      BY <1>2, AbsIdFacts, EpochTyped DEF SyncTyped
    <2>2. PICK f \in Nat :
            f = Frozen(orders'[id].status, SideOf[orders'[id].client], orders'[id].left)
      <3>1. orders'[id].left \in Nat
        BY <1>2 DEF OmsTyped, Entry
      <3> QED BY <3>1 DEF Frozen
    <2>3. PICK total : /\ total = frozenAmount + f - orderFrozen[a]
                       /\ frozenAmount' = IF total < 0 THEN 0 ELSE total
                       /\ orderFrozen' = [orderFrozen EXCEPT ![a] = f]
      BY <1>2, <2>1, <2>2 DEF AccountFollows, AccountApplyOrder
    <2>4. orderFrozen \in [AccountOrders -> Nat] /\ frozenAmount \in Nat
      BY DEF SyncTyped, AccountTypeOK
    <2>5. PICK g, h : g = orderFrozen /\ h = orderFrozen'
      OBVIOUS
    <2>6. /\ \A x \in AccountOrders : g[x] \in Nat /\ h[x] \in Nat
          /\ \A x \in AccountOrders : x # a => h[x] = g[x]
          /\ h[a] = f /\ g[a] = orderFrozen[a]
      BY <2>1, <2>3, <2>4, <2>5
    <2>7. IsFiniteSet(AccountOrders) /\ \A x \in AccountOrders : g[x] \in Int /\ h[x] \in Int
      BY <2>6, AccountOrdersFinite
    <2>8. SumFunctionOnSet(h, AccountOrders) = SumFunctionOnSet(g, AccountOrders) - g[a] + h[a]
      BY <2>6, <2>7, SumChanges
    <2>9. SumFunctionOnSet(h, AccountOrders) \in Nat
      BY <2>6, <2>7, SumNat
    <2>10. SumFunctionOnSet(g, AccountOrders) = frozenAmount
      BY <2>5 DEF FrozenInv
    <2>11. SumFunctionOnSet(h, AccountOrders) = total
      BY <2>3, <2>4, <2>6, <2>8, <2>10
    <2>12. frozenAmount' = SumFunctionOnSet(h, AccountOrders)
      BY <2>3, <2>9, <2>11
    <2> QED BY <2>5, <2>12 DEF FrozenInv
  <1> QED BY <1>1, <1>2

-----------------------------------------------------------------------------
(* No two rows share what is frozen for them.                              *)

AbsDistinct ==
  \A a, b \in OrderIds : Present(a) /\ Present(b) /\ AbsId(a) = AbsId(b) => a = b

LEMMA NamesAreDistinct == SyncAndTables => AbsDistinct
  <1> SUFFICES ASSUME SyncAndTables PROVE AbsDistinct
    OBVIOUS
  <1>1. epoch \in 0..MaxSessions /\ TablesInv /\ VenueTyped
    BY EpochTyped DEF SyncAndTables, SyncTyped
  <1>2. \A id \in OrderIds : Present(id) => OmsId(AbsId(id)) = id
    <2> SUFFICES ASSUME NEW id \in OrderIds, Present(id) PROVE OmsId(AbsId(id)) = id
      OBVIOUS
    <2>1. CASE id \in LocalIds
      BY <1>1, <2>1, AbsIdFacts
    <2>2. CASE id \notin LocalIds
      <3>1. PICK c \in ClientIds : venue[c].id # NoId /\ id = OmsId(venue[c].id)
        BY <1>1, <2>2 DEF TablesInv, RowsInv
      <3>2. PICK a \in VenueIds \cup {NoId} : a = venue[c].id
        BY <1>1 DEF VenueTyped, VenueEntry
      <3>3. AbsId(OmsId(a)) = a
        BY <1>1, <3>1, <3>2, OmsIdFacts
      <3> QED BY <3>1, <3>2, <3>3
    <2> QED BY <2>1, <2>2
  <1> QED BY <1>2 DEF AbsDistinct

LEMMA NamesAreDistinctLater == SyncAndTables' => AbsDistinct'
  BY NamesAreDistinct, PTL

\* The account freezes for the row of one client and leaves the others alone.
LEMMA FollowsRow ==
  ASSUME SyncTyped, SyncTyped', TablesInv', epoch' = epoch, NEW c \in ClientIds, NEW id,
         id = RowOf(c)', id # NoId, AccountFollows(id)
  PROVE  /\ HeldFor(c)' = Frozen(orders'[id].status, SideOf[c], orders'[id].left)
         /\ \A d \in ClientIds : d # c /\ RowOf(d) # NoId /\ RowOf(d)' = RowOf(d) =>
              HeldFor(d)' = HeldFor(d)
  <1>1. RowsFound' /\ AbsDistinct'
    <2>1. RowsKnown' /\ SyncAndTables'
      BY DEF RowsKnown, SyncAndTables, SyncTyped, TablesInv
    <2> QED BY <2>1, RowsAreFoundLater, NamesAreDistinctLater
  <1>2. id \in OrderIds /\ orders'[id].state # "Absent" /\ orders'[id].client = c
    BY <1>1 DEF RowsFound, Present
  <1>3. \A x : AbsId(x)' = AbsId(x)
    BY DEF AbsId
  <1>4. PICK a \in AccountOrders : a = AbsId(id)
    BY <1>2, AbsIdFacts, EpochTyped DEF SyncTyped
  <1>5. orderFrozen' = [orderFrozen EXCEPT
                          ![a] = Frozen(orders'[id].status, SideOf[c], orders'[id].left)]
    BY <1>2, <1>4 DEF AccountFollows, AccountApplyOrder
  <1>6. orderFrozen \in [AccountOrders -> Nat]
    BY DEF SyncTyped, AccountTypeOK
  <1>7. HeldFor(c)' = Frozen(orders'[id].status, SideOf[c], orders'[id].left)
    <2>1. HeldFor(c)' = orderFrozen'[AbsId(id)']
      BY DEF HeldFor
    <2>2. AbsId(id)' = a
      BY <1>4 DEF AbsId
    <2> QED BY <1>4, <1>5, <1>6, <2>1, <2>2
  <1>8. ASSUME NEW d \in ClientIds, d # c, RowOf(d) # NoId, RowOf(d)' = RowOf(d)
        PROVE  HeldFor(d)' = HeldFor(d)
    <2>1. PICK k \in OrderIds : k = RowOf(d) /\ k = RowOf(d)'
      BY <1>1, <1>8 DEF RowsFound
    <2>2. Present(k)' /\ orders'[k].client = d /\ Present(id)'
      BY <1>1, <1>2, <1>8, <2>1 DEF RowsFound, Present
    <2>3. PICK b \in AccountOrders : b = AbsId(k) /\ b = AbsId(k)'
      <3>1. AbsId(k) \in AccountOrders
        BY AbsIdFacts, EpochTyped DEF SyncTyped
      <3> QED BY <3>1 DEF AbsId
    <2>4. b # a
      <3>1. k # id
        BY <1>2, <1>8, <2>2
      <3>2. AbsId(id)' = a
        BY <1>4 DEF AbsId
      <3> QED BY <1>1, <1>2, <2>2, <2>3, <3>1, <3>2 DEF AbsDistinct
    <2>5. HeldFor(d)' = orderFrozen'[AbsId(k)'] /\ HeldFor(d) = orderFrozen[AbsId(k)]
      BY <2>1 DEF HeldFor
    <2> QED BY <1>5, <1>6, <2>3, <2>4, <2>5
  <1> QED BY <1>7, <1>8

LEMMA HeldStays ==
  ASSUME epoch' = epoch, orderFrozen' = orderFrozen, NEW c, RowOf(c)' = RowOf(c)
  PROVE  HeldFor(c)' = HeldFor(c)
  <1>1. HeldFor(c)' = orderFrozen'[AbsId(RowOf(c))']
    BY DEF HeldFor
  <1>2. AbsId(RowOf(c))' = AbsId(RowOf(c))
    BY DEF AbsId
  <1> QED BY <1>1, <1>2 DEF HeldFor

\* What is frozen for a row that took the venue's report o.
LEMMA ReportFreezes ==
  ASSUME NEW n, NEW o, NEW v \in VenueEntry, NEW side \in Outflow,
         o.traded \in 0..OrderVolume, o.left = OrderVolume - o.traded, o.traded <= v.traded,
         n.status = o.status, n.left = o.left, o.status \notin Terminal
  PROVE  Frozen(n.status, side, n.left) >= OrderVolume - v.traded
  <1>1. OrderVolume \in Nat /\ v.traded \in 0..OrderVolume
    BY SyncAssumption DEF VenueEntry
  <1>2. n.status \notin {"Filled", "Canceled", "Rejected"}
    BY DEF Terminal
  <1>3. n.left \in Int /\ n.left >= OrderVolume - v.traded
    BY <1>1
  <1> QED BY <1>1, <1>2, <1>3 DEF Frozen

-----------------------------------------------------------------------------
(* The funds follow the orders: steps that leave the account alone.        *)

TradedOn == \A c \in ClientIds : venue[c].traded <= venue'[c].traded

\* Rows may close and no other row opens.
NoneOpens == \A c \in ClientIds : Open(c)' => Open(c) /\ RowOf(c)' = RowOf(c)

\* What a step does for one client: no open row appears but one that is covered
\* or has a report under way, and what covers a row stays.
Goes(c) ==
  Open(c)' =>
    \/ Covered(c)' \/ (stage' = "running" /\ ReportIn(InFlight', c))
    \/ /\ Open(c) /\ HeldFor(c)' = HeldFor(c)
       /\ stage = "running" => (ReportIn(InFlight, c) => ReportIn(InFlight', c))

LEMMA CoverEach ==
  ASSUME SyncTyped, SyncTyped', CoverInv, TradedOn, \A c \in ClientIds : Goes(c),
         stage' \in Starting => stage \in Starting,
         stage' = "running" => stage \in Starting \cup {"running"}
  PROVE  CoverInv'
  <1>1. VenueTyped /\ VenueTyped' /\ AccountTypeOK
    BY DEF SyncTyped
  <1>2. ASSUME NEW c \in ClientIds, Open(c), HeldFor(c)' = HeldFor(c), Covered(c)
        PROVE  Covered(c)'
    <2>1. AbsId(RowOf(c)) \in AccountOrders
      <3>1. RowOf(c) \in OrderIds
        BY <1>2 DEF Open, RowOf, GetOrderByClientId, Present
      <3> QED BY <3>1, AbsIdFacts, EpochTyped DEF SyncTyped
    <2>2. HeldFor(c) \in Nat
      BY <1>1, <2>1 DEF AccountTypeOK, HeldFor
    <2>3. venue[c].traded \in 0..OrderVolume /\ venue'[c].traded \in 0..OrderVolume
      BY <1>1 DEF VenueTyped, VenueEntry
    <2>4. OrderVolume \in Nat /\ venue[c].traded <= venue'[c].traded
      BY SyncAssumption DEF TradedOn
    <2>5. HeldFor(c) >= OrderVolume - venue'[c].traded
      BY <1>2, <2>2, <2>3, <2>4 DEF Covered
    <2>6. Covered(c)' <=> HeldFor(c)' >= OrderVolume - venue'[c].traded
      BY DEF Covered
    <2> QED BY <1>2, <2>5, <2>6
  <1>3. CASE stage' \in Starting
    <2>1. stage' # "running" /\ stage # "running" /\ stage \in Starting
      BY <1>3 DEF Starting
    <2> QED BY <1>2, <1>3, <2>1 DEF CoverInv, Goes
  <1>4. CASE stage' = "running"
    <2>1. stage' \notin Starting
      BY <1>4 DEF Starting
    <2>2. ASSUME NEW c \in ClientIds, Open(c)'
          PROVE  Covered(c)' \/ ReportIn(InFlight', c)
      <3>1. CASE stage \in Starting
        <4>1. stage # "running"
          BY <3>1 DEF Starting
        <4> QED BY <1>2, <2>2, <3>1, <4>1 DEF CoverInv, Goes
      <3>2. CASE stage = "running"
        BY <1>2, <2>2, <3>2 DEF CoverInv, Goes
      <3> QED BY <1>4, <3>1, <3>2
    <2>3. \A c \in ClientIds : ReportIn(InFlight, c)' <=> ReportIn(InFlight', c)
      BY DEF ReportIn, About
    <2> QED BY <2>1, <2>2, <2>3 DEF CoverInv
  <1>5. CASE stage' \notin Starting \cup {"running"}
    BY <1>5 DEF CoverInv
  <1> QED BY <1>3, <1>4, <1>5

LEMMA CoverGoesOn ==
  ASSUME SyncTyped, SyncTyped', CoverInv, epoch' = epoch, orderFrozen' = orderFrozen,
         stage' \in Starting => stage \in Starting,
         stage' = "running" => stage \in Starting \cup {"running"},
         NoneOpens, TradedOn,
         stage = "running" => \A c \in ClientIds : ReportIn(InFlight, c) => ReportIn(InFlight', c)
  PROVE  CoverInv'
  <1>1. \A c \in ClientIds : Goes(c)
    BY HeldStays DEF Goes, NoneOpens
  <1> QED BY <1>1, CoverEach

\* The venue's record grows, if at all.
LEMMA SameTraded == SyncTyped /\ venue' = venue => TradedOn
  BY SyncAssumption DEF TradedOn, SyncTyped, VenueTyped, VenueEntry

LEMMA SameRows ==
  ASSUME orders' = orders, clientIndex' = clientIndex
  PROVE  NoneOpens
  <1>1. \A c \in ClientIds : RowOf(c)' = RowOf(c)
    BY DEF RowOf, GetOrderByClientId, Present
  <1> QED BY <1>1 DEF NoneOpens, Open

LEMMA QuietFundsStep ==
  ASSUME SyncTyped, SyncTyped', AgreeInv, FundsInv,
         QuerySteps \/ Callback \/ SyncBooks \/ StartEngineModules \/ StopRunning
  PROVE  FundsInv'
  <1>1. /\ UNCHANGED <<epoch, venue, orders, clientIndex, orderFrozen, frozenAmount>>
        /\ stage' \in Starting => stage \in Starting
        /\ stage' = "running" => stage \in Starting \cup {"running"}
    <2>1. CASE QuerySteps
      <3>1. stage \in Starting /\ UNCHANGED <<epoch, venueVars, bookVars>>
        BY <2>1, QueryShape
      <3> QED BY <3>1 DEF venueVars, bookVars, omsVars, accountVars
    <2>2. CASE Callback
      BY <2>2 DEF Callback, controlVars, bookVars, omsVars, accountVars
    <2>3. CASE SyncBooks
      BY <2>3 DEF SyncBooks, At, ApplyAssetSnapshot, venueVars, omsVars, Starting
    <2>4. CASE StartEngineModules \/ StopRunning
      BY <2>4 DEF StartEngineModules, StopRunning, At, venueVars, bookVars, omsVars, accountVars,
                  Starting
    <2> QED BY <2>1, <2>2, <2>3, <2>4
  <1>2. stage = "running" => InFlight' = InFlight \/ stage' \notin Starting \cup {"running"}
    <2>1. CASE Callback
      BY <2>1, CallbackMoves DEF AgreeInv
    <2>2. CASE QuerySteps
      BY <2>2, QueryShape DEF Starting
    <2>3. CASE SyncBooks \/ StartEngineModules \/ StopRunning
      BY <2>3 DEF SyncBooks, StartEngineModules, StopRunning, At, Starting
    <2> QED BY <2>1, <2>2, <2>3
  <1>3. FrozenInv' /\ NoneOpens /\ TradedOn
    BY <1>1, FrozenKept, SameRows, SameTraded DEF FundsInv
  <1>4. CASE stage = "running" /\ stage' \notin Starting \cup {"running"}
    BY <1>3, <1>4 DEF FundsInv, CoverInv
  <1>5. CASE ~(stage = "running" /\ stage' \notin Starting \cup {"running"})
    BY <1>1, <1>2, <1>3, <1>5, CoverGoesOn DEF FundsInv
  <1> QED BY <1>4, <1>5

LEMMA ReleaseFundsStep ==
  ASSUME FundsInv, Release
  PROVE  FundsInv'
  <1>1. stage' = "down" /\ orderFrozen' = orderFrozen /\ frozenAmount' = frozenAmount
    BY DEF Release, At, accountVars
  <1>2. CoverInv'
    BY <1>1 DEF CoverInv, Starting
  <1> QED BY <1>1, <1>2, FrozenKept DEF FundsInv

LEMMA BootFundsStep ==
  ASSUME SyncTyped, SyncTyped', TablesInv', FundsInv, BootInit
  PROVE  FundsInv'
  <1>1. /\ stage' = "initiated" /\ clientIndex' = [c \in ClientIds |-> NoId]
        /\ orderFrozen' = orderFrozen /\ frozenAmount' = frozenAmount
    BY BootShape DEF accountVars
  <1>2. RowsFound'
    BY RowsAreFoundLater DEF RowsKnown, SyncTyped, TablesInv
  <1>3. \A c \in ClientIds : ~Open(c)'
    BY <1>1, <1>2 DEF RowsFound, Open
  <1>4. CoverInv'
    BY <1>1, <1>3 DEF CoverInv
  <1> QED BY <1>1, <1>4, FrozenKept DEF FundsInv

-----------------------------------------------------------------------------
(* The funds follow the orders: the venue and the engine's calls.          *)

LEMMA ReportsJoin ==
  ASSUME NEW q \in Seq(Events), NEW ev \in Seq(Events), NEW c, ReportIn(q, c)
  PROVE  ReportIn(q \o ev, c)
  <1>1. PICK i \in About(q, c) : q[i].type = "order"
    BY DEF ReportIn
  <1>2. PICK p : p = q \o ev
    OBVIOUS
  <1>3. i \in 1..Len(p) /\ p[i] = q[i]
    <2>1. /\ Len(p) = Len(q) + Len(ev) /\ Len(q) \in Nat /\ Len(ev) \in Nat
          /\ \A k \in 1..Len(q) : p[k] = q[k]
      BY <1>2, Joined
    <2>2. i \in 1..Len(q)
      BY <1>1 DEF About
    <2> QED BY <2>1, <2>2
  <1>4. i \in About(p, c) /\ p[i].type = "order"
    BY <1>1, <1>3 DEF About
  <1> QED BY <1>2, <1>4 DEF ReportIn

LEMMA VenueFundsStep ==
  ASSUME SyncTyped, SyncTyped', AgreeInv, FundsInv, Venue
  PROVE  FundsInv'
  <1>1. PICK c \in ClientIds : VenueFill(c) \/ VenueCancel(c) \/ VenueRepeat(c)
    BY DEF Venue
  <1>2. PICK w \in VenueEntry :
          /\ EntryMoves(venue[c], w)
          /\ w.traded \in 1..OrderVolume \/ w.status # venue[c].status
          /\ venue' = [venue EXCEPT ![c] = w] /\ venue'[c] = w
          /\ (\E es \in EventsOf(c, w) : Sends(es)) /\ VenueActs
    BY <1>1, VenueShape
  <1>3. /\ UNCHANGED <<stage, epoch, orders, clientIndex, orderFrozen, frozenAmount>>
        /\ lane' = lane /\ stage \notin Starting
    BY <1>2 DEF VenueActs, AgreeInv, controlVars, bookVars, omsVars, accountVars
  <1>4. VenueTyped /\ VenueTyped' /\ Placed(c)'
    BY <1>2 DEF SyncTyped, Placed, EntryMoves
  <1>5. TradedOn
    <2>1. venue[c].traded <= w.traded
      BY <1>2, <1>4, SyncAssumption DEF EntryMoves, VenueTyped, VenueEntry
    <2>2. \A d \in ClientIds : venue[d].traded \in Nat
      BY <1>4, SyncAssumption DEF VenueTyped, VenueEntry
    <2> QED BY <1>2, <1>4, <2>1, <2>2 DEF TradedOn, VenueTyped
  <1>6. stage = "running" => \A d \in ClientIds : ReportIn(InFlight, d) => ReportIn(InFlight', d)
    <2>1. EventsOf(c, w) \subseteq Seq(Events)
      BY <1>2, <1>4, EventsOfTyped
    <2>2. PICK es \in Seq(Events) : Sends(es)
      BY <1>2, <2>1
    <2>3. stage = "running" => InFlight' = InFlight \o es /\ InFlight \in Seq(Events)
      BY <1>3, <2>2, Joins
    <2> QED BY <2>3, ReportsJoin
  <1>7. FrozenInv' /\ NoneOpens
    BY <1>3, FrozenKept, SameRows DEF FundsInv
  <1>8. CoverInv'
    BY <1>3, <1>5, <1>6, <1>7, CoverGoesOn DEF FundsInv
  <1> QED BY <1>7, <1>8 DEF FundsInv

LEMMA SubmitFundsStep ==
  ASSUME SyncTyped, SyncTyped', TablesInv, TablesInv', FundsInv, NEW c \in ClientIds,
         SubmitOrder(c)
  PROVE  FundsInv'
  <1>1. /\ stage = "running" /\ stage' = stage /\ epoch' = epoch /\ lane' = lane
        /\ venue[c] = Unplaced /\ NextId \in OrderIds
        /\ orders' = [orders EXCEPT ![NextId] = SubmittedRow(c)]
        /\ clientIndex' = [clientIndex EXCEPT ![c] = NextId]
        /\ venue' = [venue EXCEPT ![c] = SubmittedEntry] /\ venue'[c] = SubmittedEntry
        /\ Sends(<<OrderEvent(Report(c)')>>)
        /\ orderFrozen' = orderFrozen /\ frozenAmount' = frozenAmount
    BY SubmitShape DEF controlVars, accountVars
  <1>2. VenueTyped /\ VenueTyped' /\ RowsFound /\ RowsFound' /\ OmsTyped
    BY RowsAround DEF SyncTyped
  <1>3. Placed(c)'
    BY <1>1, SubmittedEntries DEF Placed
  <1>4. PICK x \in Events : x = OrderEvent(Report(c)') /\ x.type = "order" /\ x.r.client = c
    BY <1>2, <1>3, ReportEvent
  <1>5. PICK q \in Seq(Events) : q = InFlight /\ InFlight' = Append(q, x)
    <2>1. <<x>> \in Seq(Events)
      BY OneEvent
    <2>2. InFlight' = InFlight \o <<x>> /\ InFlight \in Seq(Events)
      BY <1>1, <1>4, <2>1, Joins
    <2> QED BY <2>2, AppendIsConcat
  <1>6. ReportIn(InFlight', c)
    <2>1. Len(q) + 1 \in About(Append(q, x), c) /\ Append(q, x)[Len(q) + 1] = x
      BY <1>4, AboutAppend
    <2> QED BY <1>4, <1>5, <2>1 DEF ReportIn
  <1>7. ASSUME NEW d \in ClientIds, d # c, Open(d)'
        PROVE  Open(d) /\ HeldFor(d)' = HeldFor(d) /\ (ReportIn(q, d) => ReportIn(Append(q, x), d))
    <2>1. RowOf(d)' = RowOf(d)
      BY <1>1, <1>2, <1>7 DEF RowsFound, OmsTyped
    <2>2. RowOf(d) # NoId /\ RowOf(d) \in OrderIds
      BY <1>2, <1>7, <2>1 DEF Open, RowsFound
    <2>3. RowOf(d) # NextId
      <3>1. orders'[RowOf(d)].client = d
        BY <1>2, <2>1, <2>2 DEF RowsFound
      <3>2. orders'[NextId] = SubmittedRow(c)
        BY <1>1, <1>2 DEF OmsTyped
      <3> QED BY <1>7, <3>1, <3>2, SubmittedRows
    <2>4. orders'[RowOf(d)] = orders[RowOf(d)]
      BY <1>1, <1>2, <2>2, <2>3 DEF OmsTyped
    <2>5. Open(d)
      BY <1>7, <2>1, <2>4 DEF Open
    <2>6. ReportIn(q, d) => ReportIn(Append(q, x), d)
      BY AboutAppend DEF ReportIn
    <2> QED BY <1>1, <2>1, <2>5, <2>6, HeldStays
  <1>8. TradedOn
    <2>1. \A d \in ClientIds : venue[d].traded \in Nat
      BY <1>2, SyncAssumption DEF VenueTyped, VenueEntry
    <2>2. venue[c].traded = 0 /\ venue'[c].traded = 0
      BY <1>1, SubmittedEntries DEF Unplaced
    <2> QED BY <1>1, <1>2, <2>1, <2>2 DEF TradedOn, VenueTyped
  <1>9. \A d \in ClientIds : Goes(d)
    BY <1>1, <1>5, <1>6, <1>7 DEF Goes
  <1>10. CoverInv'
    BY <1>1, <1>8, <1>9, CoverEach DEF FundsInv
  <1> QED BY <1>1, <1>10, FrozenKept DEF FundsInv

LEMMA CancelFundsStep ==
  ASSUME SyncTyped, SyncTyped', TablesInv, TablesInv', FundsInv, NEW c \in ClientIds, Cancel(c)
  PROVE  FundsInv'
  <1>1. PICK f \in Entry :
          /\ stage = "running" /\ stage' = stage /\ epoch' = epoch /\ lane' = lane
          /\ RowOf(c) # NoId /\ RowOf(c) \in OrderIds
          /\ orders[RowOf(c)].state \notin Terminal
          /\ orders' = [orders EXCEPT ![RowOf(c)] = f] /\ clientIndex' = clientIndex
          /\ \/ UNCHANGED <<venue, wire>>
             \/ /\ VenueLive(c)
                /\ venue' = [venue EXCEPT ![c] = CanceledEntry(venue[c], AbsId(RowOf(c)))]
                /\ Sends(<<OrderEvent(Report(c)')>>)
          /\ orderFrozen' = orderFrozen /\ frozenAmount' = frozenAmount
    BY CancelShape DEF controlVars, accountVars
  <1>2. VenueTyped /\ VenueTyped' /\ RowsFound /\ RowsFound' /\ OmsTyped
    BY RowsAround DEF SyncTyped
  <1>3. NoneOpens
    <2> SUFFICES ASSUME NEW d \in ClientIds, Open(d)'
                 PROVE  Open(d) /\ RowOf(d)' = RowOf(d)
      BY DEF NoneOpens
    <2>1. RowOf(d)' = RowOf(d)
      BY <1>1, <1>2 DEF RowsFound
    <2>2. RowOf(d) # NoId /\ SideOf[d] \in Outflow /\ orders'[RowOf(d)].state \notin Terminal
      BY <2>1 DEF Open
    <2>3. CASE d = c
      BY <1>1, <2>1, <2>2, <2>3 DEF Open
    <2>4. CASE d # c
      <3>1. RowOf(d) \in OrderIds /\ orders[RowOf(d)].client = d /\ orders[RowOf(c)].client = c
        BY <1>1, <1>2, <2>2 DEF RowsFound
      <3>2. orders'[RowOf(d)] = orders[RowOf(d)]
        BY <1>1, <1>2, <2>4, <3>1 DEF OmsTyped
      <3> QED BY <2>1, <2>2, <3>2 DEF Open
    <2> QED BY <2>3, <2>4
  <1>4. CASE UNCHANGED <<venue, wire>>
    <2>1. InFlight' = InFlight /\ TradedOn
      BY <1>1, <1>4, SameTraded DEF InFlight
    <2>2. CoverInv'
      BY <1>1, <1>3, <2>1, CoverGoesOn DEF FundsInv
    <2> QED BY <1>1, <2>2, FrozenKept DEF FundsInv
  <1>5. CASE /\ VenueLive(c)
             /\ venue' = [venue EXCEPT ![c] = CanceledEntry(venue[c], AbsId(RowOf(c)))]
             /\ Sends(<<OrderEvent(Report(c)')>>)
    <2>1. PICK v \in VenueEntry, w \in VenueEntry : v = venue[c] /\ w = venue'[c]
      BY <1>2 DEF VenueTyped
    <2>2. w.traded = v.traded /\ w.status = "Canceled"
      <3>1. PICK id : id = AbsId(RowOf(c))
        OBVIOUS
      <3>2. w = [[v EXCEPT !.id = id] EXCEPT !.status = "Canceled"]
        BY <1>2, <1>5, <2>1, <3>1 DEF VenueTyped, CanceledEntry
      <3>3. PICK u : u = [v EXCEPT !.id = id]
        OBVIOUS
      <3>4. u.traded = v.traded /\ DOMAIN u = {"id", "traded", "status", "seen", "again"}
        BY <3>3 DEF VenueEntry
      <3>5. w = [u EXCEPT !.status = "Canceled"]
        BY <3>2, <3>3
      <3> QED BY <3>4, <3>5
    <2>3. TradedOn
      <3>1. \A d \in ClientIds : venue[d].traded \in Nat
        BY <1>2, SyncAssumption DEF VenueTyped, VenueEntry
      <3> QED BY <1>2, <1>5, <2>1, <2>2, <3>1 DEF TradedOn, VenueTyped
    <2>4. Placed(c)'
      BY <2>1, <2>2 DEF Placed, Unplaced
    <2>5. PICK x \in Events : x = OrderEvent(Report(c)')
      BY <1>2, <2>4, ReportEvent
    <2>6. \A d \in ClientIds : ReportIn(InFlight, d) => ReportIn(InFlight', d)
      <3>1. <<x>> \in Seq(Events)
        BY OneEvent
      <3>2. InFlight' = InFlight \o <<x>> /\ InFlight \in Seq(Events)
        BY <1>1, <1>5, <2>5, <3>1, Joins
      <3> QED BY <3>1, <3>2, ReportsJoin
    <2>7. CoverInv'
      BY <1>1, <1>3, <2>3, <2>6, CoverGoesOn DEF FundsInv
    <2> QED BY <1>1, <2>7, FrozenKept DEF FundsInv
  <1> QED BY <1>1, <1>4, <1>5

-----------------------------------------------------------------------------
(* The funds follow the orders: a trade or a report reaches the OMS.       *)

\* A trade does not open a row.
LEMMA TradeOpensNone ==
  ASSUME RowsFound, RowsFound', OmsTyped, NEW c \in ClientIds, NEW o,
         \/ UNCHANGED omsVars
         \/ TradeAccepted(RowOf(c), o) /\ RowMoves(RowOf(c), Traded(orders[RowOf(c)], o))
  PROVE  NoneOpens
  <1>1. CASE UNCHANGED omsVars
    BY <1>1, SameRows DEF omsVars
  <1>2. CASE TradeAccepted(RowOf(c), o) /\ RowMoves(RowOf(c), Traded(orders[RowOf(c)], o))
    <2>1. PICK n : n = Traded(orders[RowOf(c)], o) /\ RowMoves(RowOf(c), n)
      BY <1>2
    <2>2. PICK e \in Entry : e = orders[RowOf(c)] /\ CanTransition(e.state, TradeState(e, o))
      <3>1. RowOf(c) \in OrderIds
        BY <2>1 DEF RowMoves
      <3> QED BY <1>2, <3>1 DEF OmsTyped, TradeAccepted
    <2>3. PICK t : t = TradeState(e, o) /\ t \in {"Filled", "PartiallyFilled"}
      BY DEF TradeState
    <2>4. n.state = t
      <3>1. PICK k, l : /\ k = TradeTotal(e, o)
                        /\ l = IF TradeTotal(e, o) >= e.volume THEN 0
                               ELSE e.volume - TradeTotal(e, o)
        OBVIOUS
      <3>2. n = [e EXCEPT !.traded = k, !.left = l, !.status = t, !.state = t]
        BY <2>1, <2>2, <2>3, <3>1 DEF Traded
      <3> QED BY <3>2 DEF Entry
    <2>5. n.state \notin Terminal => e.state \notin Terminal
      BY <2>2, <2>3, <2>4 DEF CanTransition, Successors, Terminal
    <2>6. \A d \in ClientIds :
            /\ RowOf(d)' = RowOf(d)
            /\ RowOf(d) # NoId => orders'[RowOf(d)] = IF d = c THEN n ELSE orders[RowOf(d)]
      BY <2>1, RowsMove
    <2> QED BY <2>2, <2>5, <2>6 DEF NoneOpens, Open
  <1> QED BY <1>1, <1>2

LEMMA SyncTradeFundsStep ==
  ASSUME SyncTyped, SyncTyped', TablesInv, TablesInv', AgreeInv, FundsInv, SyncTrade
  PROVE  FundsInv'
  <1>1. PICK t \in answers.trades :
          LET o == OmsTrade(t)
              id == Find(o.order_id, o.client)
          IN /\ t \in VenueTrades
             /\ \/ UNCHANGED omsVars
                \/ TradeAccepted(id, o) /\ RowMoves(id, Traded(orders[id], o))
    BY SyncTradeShape
  <1>2. /\ stage = "apply" /\ stage' = stage /\ venue' = venue /\ epoch' = epoch
        /\ orderFrozen' = orderFrozen /\ frozenAmount' = frozenAmount
    BY SyncTradeShape DEF venueVars, accountVars
  <1>3. TradeFits(t, venue[t.client])
    BY <1>2 DEF AgreeInv, StartInv, Starting
  <1>4. PICK c \in ClientIds : c = t.client
    BY <1>1 DEF VenueTrades
  <1>5. PICK o : o = OmsTrade(t) /\ o.order_id = OmsId(t.order_id) /\ o.client = c
    BY <1>1, <1>3, <1>4, OmsTradeFields
  <1>6. Find(o.order_id, o.client) = RowOf(c)
    <2>1. Named(t)
      BY <1>1 DEF TablesInv, NamesInv
    <2>2. initialized = (stage # "down")
      BY DEF SyncTyped, ControlTyped
    <2>3. initialized
      BY <1>2, <2>2
    <2> QED BY <1>4, <1>5, <2>1, <2>3, LookUp
  <1>7. NoneOpens
    <2>1. RowsFound /\ RowsFound' /\ OmsTyped
      BY RowsAround DEF SyncTyped
    <2> QED BY <1>1, <1>5, <1>6, <2>1, TradeOpensNone
  <1>8. CoverInv'
    BY <1>2, <1>7, SameTraded, CoverGoesOn DEF FundsInv
  <1> QED BY <1>2, <1>8, FrozenKept DEF FundsInv

\* What is under way after the first event has been handled.
LEMMA ReportsStayBehind ==
  ASSUME NEW q \in Seq(Events), q # <<>>, NEW c, ReportIn(q, c),
         q[1].type # "order" \/ q[1].r.client # c
  PROVE  ReportIn(Tail(q), c)
  <1>1. PICK i \in About(q, c) : q[i].type = "order"
    BY DEF ReportIn
  <1>2. q[i].r.client = c /\ i \in Nat /\ i >= 1
    BY AboutTyped
  <1>3. i > 1
    BY <1>1, <1>2
  <1>4. i - 1 \in About(Tail(q), c) /\ Tail(q)[i - 1] = q[i]
    BY <1>1, <1>3, AboutTail
  <1> QED BY <1>1, <1>4 DEF ReportIn

LEMMA HandleOrderFundsStep ==
  ASSUME SyncTyped, SyncTyped', TablesInv, TablesInv', AgreeInv, FundsInv, Handle,
         Head(lane).type = "order"
  PROVE  FundsInv'
  <1>1. /\ lane \in Seq(Events) /\ wire \in Seq(Events) /\ lane # <<>>
        /\ lane' = Tail(lane) /\ wire' = wire /\ venue' = venue /\ epoch' = epoch
        /\ stage' = stage /\ stage \in {"running", "stopping"}
    BY HandleShape DEF SyncTyped, EventsTyped, controlVars, venueVars
  <1>2. PICK r \in VenueReports : r = Head(lane).r
    BY HandleShape
  <1>3. PICK c \in ClientIds : c = r.client
    BY DEF VenueReports
  <1>4. PICK o \in OrderReport :
          /\ o = OmsReport(r) /\ o.order_id = OmsId(r.order_id) /\ o.client = c
          /\ o.status = r.status /\ o.left = r.left /\ o.traded = r.traded
          /\ o.volume = OrderVolume
    BY <1>2, <1>3, OmsReportTyped, EpochTyped DEF SyncTyped
  <1>5. AccountFollows(LocalOrder(o))
    BY <1>2, <1>4, HandleShape
  <1>6. FrozenInv'
    BY <1>5, FrozenFollows DEF SyncTyped, FundsInv
  <1>7. CASE stage = "stopping"
    <2>1. CoverInv'
      BY <1>1, <1>7 DEF CoverInv, Starting
    <2> QED BY <1>6, <2>1 DEF FundsInv
  <1>8. CASE stage = "running"
    <2>1. PICK q \in Seq(Events) :
            q = InFlight /\ q # <<>> /\ Tail(q) = Tail(lane) \o wire /\ q[1] = Head(lane)
      BY <1>1, ConcatTail DEF InFlight
    <2>2. InFlight' = Tail(q) /\ q[1].type = "order" /\ q[1].r = r /\ q[1].r.client = c
      BY <1>1, <1>2, <1>3, <2>1 DEF InFlight
    <2>3. RowsFound /\ RowsFound' /\ OmsTyped
      BY RowsAround DEF SyncTyped
    <2>4. Named(r) /\ Placed(c)
      <3>1. NamedBy(Head(lane).r, venue[Head(lane).r.client])
        BY <1>1, NamesLeave DEF TablesInv, NamesInv
      <3> QED BY <1>2, <1>3, <3>1 DEF Named, NamedBy, Placed
    <2>5. Find(o.order_id, o.client) = RowOf(c)
      <3>1. initialized = (stage # "down")
        BY DEF SyncTyped, ControlTyped
      <3>2. initialized
        BY <1>8, <3>1
      <3> QED BY <1>3, <1>4, <2>4, <3>2, LookUp
    <2>6. PICK e \in Entry, v \in VenueEntry :
            /\ e = orders[RowOf(c)] /\ v = venue[c] /\ RowOf(c) # NoId /\ RowOf(c) \in OrderIds
            /\ RowFits(e, v) /\ ReportFits(r, v)
      <3>1. RowOf(c) # NoId /\ ClientFits(q, c, orders[RowOf(c)], venue[c], applied)
        BY <1>8, <2>1, <2>4 DEF AgreeInv, RunInv
      <3>2. RowFits(orders[RowOf(c)], venue[c])
        BY <3>1 DEF ClientFits, RowFollows
      <3>3. EventFits(q[1], venue[c])
        <4>1. 1 \in About(q, c)
          BY <2>1, <2>2, Ends DEF About
        <4> QED BY <3>1, <4>1 DEF ClientFits, QueueFits
      <3>4. ReportFits(r, venue[c])
        BY <2>2, <3>3 DEF EventFits
      <3> QED BY <2>3, <2>4, <3>1, <3>2, <3>4, PlacedFacts DEF RowsFound
    <2>7. RowMoves(RowOf(c), Merged(e, o))
      <3>1. \/ RowOf(c) = NoId /\ UNCHANGED <<initialized, counter, clientIndex, orders>>
            \/ RowMoves(RowOf(c), Merged(orders[RowOf(c)], o))
        BY <1>2, <1>4, <2>5, HandleShape
      <3> QED BY <2>6, <3>1
    <2>8. PICK n : n = Merged(e, o) /\ RowMoves(RowOf(c), n)
      BY <2>7
    <2>9. \A d \in ClientIds :
            /\ RowOf(d)' = RowOf(d)
            /\ RowOf(d) # NoId => orders'[RowOf(d)] = IF d = c THEN n ELSE orders[RowOf(d)]
      BY <2>3, <2>8, RowsMove
    <2>10. PICK id \in OrderIds : id = RowOf(c) /\ id = RowOf(c)' /\ orders'[id] = n
      BY <2>6, <2>9
    <2>11. LocalOrder(o) = id
      <3>1. CASE o.order_id = NoId
        BY <1>4, <2>10, <3>1 DEF LocalOrder, RowOf
      <3>2. CASE o.order_id # NoId
        <4>1. r.order_id \in VenueIds \cup {NoId} /\ r.order_id \in {NoId, venue[c].id}
          BY <1>3, <2>4 DEF VenueReports, Named, NamedBy
        <4>2. r.order_id # NoId
          BY <1>4, <3>2, <4>1, OmsIdFacts, EpochTyped DEF SyncTyped
        <4>3. orders[id].client = c /\ Present(id)
          BY <2>3, <2>6, <2>10 DEF RowsFound
        <4>4. id = OmsId(venue[c].id)
          BY <4>1, <4>2, <4>3 DEF TablesInv, RowsInv
        <4> QED BY <1>4, <3>2, <4>1, <4>2, <4>4 DEF LocalOrder
      <3> QED BY <3>1, <3>2
    <2>12. /\ HeldFor(c)' = Frozen(n.status, SideOf[c], n.left)
           /\ \A d \in ClientIds : d # c /\ RowOf(d) # NoId => HeldFor(d)' = HeldFor(d)
      <3>1. AccountFollows(id) /\ id # NoId
        BY <1>5, <2>6, <2>10, <2>11
      <3>2. /\ HeldFor(c)' = Frozen(orders'[id].status, SideOf[c], orders'[id].left)
            /\ \A d \in ClientIds : d # c /\ RowOf(d) # NoId /\ RowOf(d)' = RowOf(d) =>
                 HeldFor(d)' = HeldFor(d)
        BY <1>1, <2>10, <3>1, FollowsRow
      <3> QED BY <2>9, <2>10, <3>2
    <2>13. Goes(c)
      <3> SUFFICES ASSUME Open(c)' PROVE Covered(c)'
        BY DEF Goes
      <3>1. SideOf[c] \in Outflow /\ n.state \notin Terminal
        BY <2>10 DEF Open
      <3>2. o.status \in Reported
        BY <1>4 DEF VenueReports, Reported
      <3>3. /\ n.state = (IF o.status = "New" THEN e.state ELSE o.status)
            /\ n.left = o.left /\ n.status = o.status
        BY <1>4, <2>6, <2>8, <3>1, <3>2, MergedOutcome
      <3>4. o.status \notin Terminal
        BY <3>1, <3>3 DEF Terminal
      <3>5. o.traded \in 0..OrderVolume /\ o.left = OrderVolume - o.traded /\ o.traded <= v.traded
        BY <1>4, <2>6 DEF VenueReports, ReportFits
      <3>6. Frozen(n.status, SideOf[c], n.left) >= OrderVolume - v.traded
        BY <3>1, <3>3, <3>4, <3>5, ReportFreezes
      <3>7. Covered(c)' <=> HeldFor(c)' >= OrderVolume - venue'[c].traded
        BY DEF Covered
      <3> QED BY <1>1, <2>6, <2>12, <3>6, <3>7
    <2>14. \A d \in ClientIds : d # c => Goes(d)
      <3> SUFFICES ASSUME NEW d \in ClientIds, d # c, Open(d)'
                   PROVE  /\ Open(d) /\ HeldFor(d)' = HeldFor(d)
                          /\ ReportIn(InFlight, d) => ReportIn(InFlight', d)
        BY DEF Goes
      <3>1. Open(d) /\ HeldFor(d)' = HeldFor(d)
        BY <2>9, <2>12 DEF Open
      <3>2. ReportIn(q, d) => ReportIn(Tail(q), d)
        BY <2>1, <2>2, ReportsStayBehind
      <3> QED BY <2>1, <2>2, <3>1, <3>2
    <2>15. CoverInv'
      BY <1>1, <2>13, <2>14, SameTraded, CoverEach DEF FundsInv
    <2> QED BY <1>6, <2>15 DEF FundsInv
  <1> QED BY <1>1, <1>7, <1>8

LEMMA HandleTradeFundsStep ==
  ASSUME SyncTyped, SyncTyped', TablesInv, TablesInv', AgreeInv, FundsInv, Handle,
         Head(lane).type # "order"
  PROVE  FundsInv'
  <1>1. /\ lane \in Seq(Events) /\ wire \in Seq(Events) /\ lane # <<>>
        /\ lane' = Tail(lane) /\ wire' = wire /\ venue' = venue /\ epoch' = epoch
        /\ stage' = stage /\ stage \in {"running", "stopping"}
    BY HandleShape DEF SyncTyped, EventsTyped, controlVars, venueVars
  <1>2. orderFrozen' = orderFrozen /\ frozenAmount' = frozenAmount
    BY DEF Handle, OnTraderTradeReport, AccountApplyTrade
  <1>3. FrozenInv'
    BY <1>2, FrozenKept DEF FundsInv
  <1>4. CASE stage = "stopping"
    <2>1. CoverInv'
      BY <1>1, <1>4 DEF CoverInv, Starting
    <2> QED BY <1>3, <2>1 DEF FundsInv
  <1>5. CASE stage = "running"
    <2>1. PICK q \in Seq(Events) :
            q = InFlight /\ q # <<>> /\ Tail(q) = Tail(lane) \o wire /\ q[1] = Head(lane)
      BY <1>1, ConcatTail DEF InFlight
    <2>2. InFlight' = Tail(q) /\ q[1].type # "order"
      BY <1>1, <2>1 DEF InFlight
    <2>3. PICK t \in VenueTrades :
            LET o == OmsTrade(t)
                id == Find(o.order_id, o.client)
            IN /\ t = Head(lane).r
               /\ \/ UNCHANGED omsVars
                  \/ TradeAccepted(id, o) /\ RowMoves(id, Traded(orders[id], o))
      BY HandleShape
    <2>4. PICK c \in ClientIds : c = t.client
      BY <2>3 DEF VenueTrades
    <2>5. PICK o : o = OmsTrade(t) /\ o.order_id = OmsId(t.order_id) /\ o.client = c
      <3>1. OmsTrade(t).order_id = OmsId(t.order_id) /\ OmsTrade(t).client = c
        BY <2>3, <2>4 DEF OmsTrade, VenueTrades
      <3> QED BY <3>1
    <2>6. Find(o.order_id, o.client) = RowOf(c)
      <3>1. NamedBy(Head(lane).r, venue[Head(lane).r.client])
        BY <1>1, NamesLeave DEF TablesInv, NamesInv
      <3>2. Named(t)
        BY <2>3, <3>1 DEF Named
      <3>3. initialized = (stage # "down")
        BY DEF SyncTyped, ControlTyped
      <3>4. initialized
        BY <1>5, <3>3
      <3> QED BY <2>4, <2>5, <3>2, <3>4, LookUp
    <2>7. NoneOpens
      <3>1. RowsFound /\ RowsFound' /\ OmsTyped
        BY RowsAround DEF SyncTyped
      <3> QED BY <2>3, <2>5, <2>6, <3>1, TradeOpensNone
    <2>8. \A d \in ClientIds : ReportIn(InFlight, d) => ReportIn(InFlight', d)
      BY <2>1, <2>2, ReportsStayBehind
    <2>9. CoverInv'
      BY <1>1, <1>2, <2>7, <2>8, SameTraded, CoverGoesOn DEF FundsInv
    <2> QED BY <1>3, <2>9 DEF FundsInv
  <1> QED BY <1>1, <1>4, <1>5

LEMMA SyncOrderFundsStep ==
  ASSUME SyncTyped, SyncTyped', TablesInv, TablesInv', AgreeInv, FundsInv, SyncOrder
  PROVE  FundsInv'
  <1>1. PICK r \in answers.orders :
           LET o  == OmsReport(r)
               id == Find(o.order_id, o.client)
           IN /\ r \in VenueReports /\ o \in OrderReport /\ stage = "apply"
              /\ \/ id # NoId
                 \/ id = NoId /\ \E new \in OrderIds : RowEnters(new, o)
              /\ AccountFollows(IF o.order_id # NoId THEN o.order_id ELSE clientIndex'[o.client])
              /\ UNCHANGED <<stage, epoch, venueVars>>
    BY SyncOrderShape
  <1>2. stage = "apply" /\ stage' = stage /\ venue' = venue /\ epoch' = epoch
    BY <1>1 DEF venueVars
  <1>3. PICK c \in ClientIds : c = r.client /\ r = Report(c) /\ Placed(c) /\ RowOf(c) = NoId
    <2>1. r.client \in ClientIds /\ Named(r)
      BY <1>1 DEF VenueReports, TablesInv, NamesInv
    <2>2. /\ r = Report(r.client)
          /\ \A d \in ClientIds : Placed(d) => (RowOf(d) = NoId <=> Report(d) \in answers.orders)
      BY <1>2 DEF AgreeInv, StartInv, Starting
    <2> QED BY <1>1, <2>1, <2>2 DEF Named, NamedBy, Placed
  <1>4. PICK o \in OrderReport :
          /\ o = OmsReport(r) /\ o.order_id = OmsId(r.order_id) /\ o.client = c
          /\ o.status = r.status /\ o.traded = r.traded /\ o.volume = OrderVolume
          /\ o.left = r.left
    BY <1>1, <1>3, OmsReportTyped, EpochTyped DEF SyncTyped
  <1>5. Find(o.order_id, o.client) = NoId
    <2>1. Named(r)
      BY <1>1 DEF TablesInv, NamesInv
    <2>2. initialized = (stage # "down")
      BY DEF SyncTyped, ControlTyped
    <2>3. initialized
      BY <1>2, <2>2
    <2> QED BY <1>3, <1>4, <2>1, <2>3, LookUp
  <1>6. PICK new \in OrderIds : RowEnters(new, o)
    BY <1>1, <1>4, <1>5
  <1>7. /\ orders' = [orders EXCEPT ![new] = AdoptedEntry(o)]
        /\ clientIndex' = [d \in ClientIds |-> IF d = c THEN new ELSE clientIndex[d]]
        /\ o.order_id # NoId => new = o.order_id
    BY <1>4, <1>6 DEF RowEnters
  <1>8. RowsFound /\ RowsFound' /\ OmsTyped
    BY RowsAround DEF SyncTyped
  <1>9. new = RowOf(c)' /\ new # NoId /\ orders'[new] = AdoptedEntry(o)
    BY <1>7, <1>8, IdFacts DEF RowsFound, OmsTyped
  <1>10. AccountFollows(new)
    <2>1. clientIndex'[o.client] = new
      BY <1>4, <1>7
    <2>2. AccountFollows(IF o.order_id # NoId THEN o.order_id ELSE clientIndex'[o.client])
      BY <1>1, <1>4
    <2> QED BY <1>7, <2>1, <2>2
  <1>11. FrozenInv'
    BY <1>10, FrozenFollows DEF SyncTyped, FundsInv
  <1>12. /\ HeldFor(c)' = Frozen(orders'[new].status, SideOf[c], orders'[new].left)
         /\ \A d \in ClientIds : d # c /\ RowOf(d) # NoId /\ RowOf(d)' = RowOf(d) =>
              HeldFor(d)' = HeldFor(d)
    BY <1>2, <1>9, <1>10, FollowsRow
  <1>13. Goes(c)
    <2> SUFFICES ASSUME Open(c)' PROVE Covered(c)'
      BY DEF Goes
    <2>0. PICK s : s = LifecycleFromStatus(o.status, "Working")
      OBVIOUS
    <2>1. PICK n : n = AdoptedEntry(o) /\ n.status = o.status /\ n.left = o.left
                   /\ n.state = s
      <3>1. PICK n : n = [state |-> s, status |-> o.status, client |-> o.client,
                          volume |-> o.volume, left |-> o.left, traded |-> o.traded,
                          broker |-> o.broker]
        OBVIOUS
      <3>2. n.status = o.status /\ n.left = o.left /\ n.state = s
        BY <3>1
      <3> QED BY <2>0, <3>1, <3>2 DEF AdoptedEntry
    <2>2. SideOf[c] \in Outflow /\ n.state \notin Terminal
      BY <1>9, <2>1 DEF Open
    <2>3. o.status \notin Terminal
      <3>1. o.status \in Terminal => s = o.status
        BY <2>0 DEF LifecycleFromStatus, Terminal
      <3> QED BY <2>1, <2>2, <3>1
    <2>4. PICK v \in VenueEntry : v = venue[c] /\ IsLastWord(r, v)
      BY <1>3, PlacedFacts
    <2>5. o.traded \in 0..OrderVolume /\ o.left = OrderVolume - o.traded /\ o.traded <= v.traded
      BY <1>1, <1>4, <2>4 DEF VenueReports, IsLastWord, ReportFits
    <2>6. Frozen(n.status, SideOf[c], n.left) >= OrderVolume - v.traded
      BY <2>1, <2>2, <2>3, <2>4, <2>5, ReportFreezes
    <2>7. Covered(c)' <=> HeldFor(c)' >= OrderVolume - venue'[c].traded
      BY DEF Covered
    <2> QED BY <1>2, <1>9, <1>12, <2>1, <2>4, <2>6, <2>7
  <1>14. \A d \in ClientIds : d # c => Goes(d)
    <2> SUFFICES ASSUME NEW d \in ClientIds, d # c, Open(d)'
                 PROVE  Open(d) /\ HeldFor(d)' = HeldFor(d) /\ stage # "running"
      BY DEF Goes
    <2>1. RowOf(d)' = RowOf(d)
      BY <1>7, <1>8 DEF RowsFound
    <2>2. orders'[RowOf(d)] = orders[RowOf(d)] /\ RowOf(d) # NoId
      <3>1. orders'[RowOf(d)].client = d /\ orders'[new].client = c /\ RowOf(d) \in OrderIds
            /\ RowOf(d) # NoId
        BY <1>8, <1>9, <2>1 DEF Open, RowsFound
      <3> QED BY <1>7, <1>8, <3>1 DEF OmsTyped
    <2>3. Open(d)
      BY <2>1, <2>2 DEF Open
    <2> QED BY <1>2, <1>12, <2>1, <2>2, <2>3
  <1>15. CoverInv'
    BY <1>2, <1>13, <1>14, SameTraded, CoverEach DEF FundsInv
  <1> QED BY <1>11, <1>15 DEF FundsInv

LEMMA FundsStep ==
  ASSUME SyncTyped, SyncTyped', TablesInv, TablesInv', AgreeInv, FundsInv,
         [SyncNext]_syncVars
  PROVE  FundsInv'
  <1>1. CASE UNCHANGED syncVars
    <2>1. /\ UNCHANGED <<stage, epoch, venue, wire, lane, orders, clientIndex>>
          /\ UNCHANGED <<orderFrozen, frozenAmount>>
      BY <1>1 DEF syncVars, controlVars, venueVars, bookVars, omsVars, accountVars
    <2>2. InFlight' = InFlight
      BY <2>1 DEF InFlight
    <2>3. CoverInv'
      BY <2>1, <2>2, SameRows, SameTraded, CoverGoesOn DEF FundsInv
    <2> QED BY <2>1, <2>3, FrozenKept DEF FundsInv
  <1>2. CASE SyncNext
    <2>1. QuerySteps \/ Callback \/ SyncBooks \/ StartEngineModules \/ StopRunning => FundsInv'
      BY QuietFundsStep
    <2>2. Handle => FundsInv'
      BY HandleOrderFundsStep, HandleTradeFundsStep
    <2>3. \A c \in ClientIds : SubmitOrder(c) \/ Cancel(c) => FundsInv'
      BY SubmitFundsStep, CancelFundsStep
    <2> QED BY <1>2, <2>1, <2>2, <2>3, VenueFundsStep, BootFundsStep, ReleaseFundsStep,
               SyncOrderFundsStep, SyncTradeFundsStep
            DEF SyncNext, Calls, Control, QuerySteps
  <1> QED BY <1>1, <1>2

-----------------------------------------------------------------------------
(* The funds are never overstated, in any reachable state.                 *)

LEMMA FundsInitially ==
  ASSUME SyncInit
  PROVE  FundsInv
  <1>1. stage = "down"
    BY Zenon DEF SyncInit
  <1>2. frozenAmount = 0 /\ orderFrozen = [id \in AccountOrders |-> 0]
    BY DEF SyncInit, AccountInit
  <1>3. SumFunctionOnSet(orderFrozen, AccountOrders) = SumFunctionOnSet(orderFrozen, {})
    <2>1. PICK f : f = orderFrozen
      OBVIOUS
    <2>2. \A x \in AccountOrders : f[x] = 0 /\ f[x] \in Int
      BY <1>2, <2>1
    <2>3. SumFunctionOnSet(f, AccountOrders) = SumFunctionOnSet(f, {})
      BY <2>2, AccountOrdersFinite, SumSupport
    <2> QED BY <2>1, <2>3
  <1>4. FrozenInv
    BY <1>2, <1>3, SumEmpty DEF FrozenInv
  <1> QED BY <1>1, <1>4 DEF FundsInv, CoverInv, Starting

SyncAgrees == SyncAndTables /\ AgreeInv

LEMMA FundsInvariant ==
  ASSUME EpochAdvances, VenueQuietInStart, LaneRoom >= MaxInFlight
  PROVE  SyncSpec => [](SyncAgrees /\ FundsInv)
  <1>1. SyncSpec => []SyncAgrees
    BY AgreeInvariant DEF SyncAgrees
  <1>2. SyncInit => FundsInv
    BY FundsInitially
  <1>3. SyncAgrees /\ SyncAgrees' /\ FundsInv /\ [SyncNext]_syncVars => FundsInv'
    BY FundsStep DEF SyncAgrees, SyncAndTables
  <1> QED BY <1>1, <1>2, <1>3, PTL DEF SyncSpec

\* With nothing in flight what is frozen covers all open orders together.
LEMMA QuietFunds ==
  ASSUME SyncAndTables, FundsInv, Quiet
  PROVE  Needed(ActiveClients) <= frozenAmount /\ Needed(ActiveClients) \in Int
  <1>1. SyncTyped /\ TablesInv
    BY DEF SyncAndTables
  <1>2. stage = "running" /\ InFlight = <<>>
    <2>1. running = (stage = "running") /\ running
      BY <1>1 DEF SyncTyped, ControlTyped, Quiet
    <2>2. stage = "running"
      BY <2>1
    <2> QED BY <2>2 DEF Quiet, InFlight
  <1>3. \A c \in ClientIds : Open(c) => Covered(c)
    <2>1. \A c : ~ReportIn(InFlight, c)
      BY <1>2, EmptyEvents DEF ReportIn, About
    <2> QED BY <1>2, <2>1 DEF FundsInv, CoverInv
  <1>4. RowsFound /\ AbsDistinct
    <2>1. RowsKnown
      BY <1>1 DEF RowsKnown, SyncTyped, TablesInv
    <2> QED BY <2>1, RowsAreFound, NamesAreDistinct
  <1>5. PICK S : S = {c \in ActiveClients : VenueLive(c) /\ SideOf[c] \in Outflow}
    OBVIOUS
  <1>6. \A c \in S : c \in ClientIds /\ Open(c) /\ RowOf(c) \in OrderIds /\ Present(RowOf(c))
    <2> SUFFICES ASSUME NEW c \in S
                 PROVE  c \in ClientIds /\ Open(c) /\ RowOf(c) \in OrderIds /\ Present(RowOf(c))
      OBVIOUS
    <2>1. c \in ClientIds /\ RowOf(c) \in Active /\ SideOf[c] \in Outflow
      BY <1>5 DEF ActiveClients
    <2>2. RowOf(c) \in OrderIds /\ Present(RowOf(c)) /\ orders[RowOf(c)].state \notin Terminal
          /\ RowOf(c) # NoId
      BY <1>4, <2>1, IdFacts DEF Active, RowsFound
    <2> QED BY <2>1, <2>2 DEF Open
  <1>7. PICK f, j : /\ f = [c \in ClientIds |-> OrderVolume - venue[c].traded]
                    /\ j = [c \in ClientIds |-> AbsId(RowOf(c))]
    OBVIOUS
  <1>8. PICK g : g = orderFrozen /\ \A y \in AccountOrders : g[y] \in Nat
    BY <1>1 DEF SyncTyped, AccountTypeOK
  <1>9. IsFiniteSet(S)
    <2>1. S \in SUBSET ClientIds
      BY <1>6
    <2> QED BY <2>1, SyncAssumption, FS_Subset
  <1>10. \A c \in S : j[c] \in AccountOrders
    BY <1>1, <1>6, <1>7, AbsIdFacts, EpochTyped DEF SyncTyped
  <1>11. \A c, d \in S : j[c] = j[d] => c = d
    <2> SUFFICES ASSUME NEW c \in S, NEW d \in S, j[c] = j[d] PROVE c = d
      OBVIOUS
    <2>1. c \in ClientIds /\ d \in ClientIds /\ Present(RowOf(c)) /\ Present(RowOf(d))
          /\ RowOf(c) \in OrderIds /\ RowOf(d) \in OrderIds
          /\ RowOf(c) # NoId /\ RowOf(d) # NoId
      BY <1>6 DEF Open
    <2>2. AbsId(RowOf(c)) = AbsId(RowOf(d))
      BY <1>7, <2>1
    <2>3. RowOf(c) = RowOf(d)
      BY <1>4, <2>1, <2>2 DEF AbsDistinct
    <2> QED BY <1>4, <2>1, <2>3 DEF RowsFound
  <1>12. \A c \in S : f[c] \in Nat /\ f[c] <= g[j[c]]
    <2> SUFFICES ASSUME NEW c \in S PROVE f[c] \in Nat /\ f[c] <= g[j[c]]
      OBVIOUS
    <2>1. c \in ClientIds /\ Covered(c)
      BY <1>3, <1>6
    <2>2. f[c] = OrderVolume - venue[c].traded /\ g[j[c]] = HeldFor(c) /\ g[j[c]] \in Nat
      BY <1>7, <1>8, <1>10, <2>1 DEF HeldFor
    <2>3. venue[c].traded \in 0..OrderVolume /\ OrderVolume \in Nat
      BY <1>1, <2>1, SyncAssumption DEF SyncTyped, VenueTyped, VenueEntry
    <2> QED BY <2>1, <2>2, <2>3 DEF Covered
  <1>13. SumFunctionOnSet(f, S) <= SumFunctionOnSet(g, AccountOrders)
    BY <1>8, <1>9, <1>10, <1>11, <1>12, AccountOrdersFinite, SumImage
  <1>14. SumFunctionOnSet(f, S) \in Int
    BY <1>9, <1>12, SumType
  <1>15. Needed(ActiveClients) = SumFunctionOnSet(f, S)
    BY <1>5, <1>7 DEF Needed
  <1> QED BY <1>8, <1>13, <1>14, <1>15 DEF FundsInv, FrozenInv

\* With nothing in flight the funds the engine shows are the venue's cash less
\* what is frozen, and that covers what the open live buy orders still need:
\* over any number of starts, lost lanes, repeated trades, fills reported alone
\* and cancellations no trade counts twice beside the asset snapshot, none is
\* missing and no open order is left unfrozen.
THEOREM FundsNeverOverstate ==
  ASSUME EpochAdvances, VenueQuietInStart, LaneRoom >= MaxInFlight
  PROVE  SyncSpec => []FundsNeverOverstated
  <1>1. SyncAgrees /\ FundsInv /\ SyncTyped /\ BooksInv => FundsNeverOverstated
    <2> SUFFICES ASSUME SyncAndTables, SyncTyped, FundsInv, BooksInv, Quiet
                 PROVE  /\ GetAvailableFunds = VenueCash - frozenAmount
                        /\ frozenAmount >= Needed(ActiveClients)
      BY DEF FundsNeverOverstated, SyncAgrees
    <2>1. buyingPower + netCashFlow = VenueCash /\ VenueCash \in Int
      <3>1. CashInv /\ CountedBy(Inflow) = TradedBy(Inflow) /\ CountedBy(Outflow) = TradedBy(Outflow)
        BY QuietBooks
      <3> QED BY <3>1, TradedByTyped, SyncAssumption DEF CashInv, VenueCash, SyncTyped
    <2>2. buyingPower \in Int /\ netCashFlow \in Int /\ frozenAmount \in Nat
      BY DEF SyncTyped, AccountTypeOK
    <2>3. PICK cash \in Int, need \in Int :
            /\ cash = VenueCash /\ buyingPower + netCashFlow = cash
            /\ need = Needed(ActiveClients) /\ need <= frozenAmount
      BY <2>1, QuietFunds
    <2> QED BY <2>2, <2>3 DEF GetAvailableFunds
  <1> QED BY <1>1, FundsInvariant, BooksInvariant, PTL
=============================================================================
