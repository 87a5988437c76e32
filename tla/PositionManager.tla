---------------------------- MODULE PositionManager ----------------------------
(***************************************************************************)
(* The local position table, position/position_manager.cpp: one row per    *)
(* instrument and direction, replaced as a whole by the venue's snapshot   *)
(* at start and moved by every trade afterwards.  Each operation runs      *)
(* under mutex_ and is one action.  Average prices are left out.           *)
(***************************************************************************)
EXTENDS SdkReports

CONSTANTS
  Instruments,
  PositionTrades,     \* trades the table may be told of
  PositionSnapshots   \* answers of QueryPositions: sets of rows

Row == [instrument : Instruments, direction : PositionDirectionType,
        total : Int, yesterday : Int]

\* The venue does not report more of yesterday's volume than there is.
SaneRow(r) == 0 <= r.yesterday /\ r.yesterday <= r.total

ASSUME PositionAssumption ==
  /\ PositionTrades \subseteq Trade(Instruments)
  /\ \A rows \in PositionSnapshots :
       rows \subseteq Row /\ \A r \in rows : r.total >= 0 => SaneRow(r)

VARIABLES
  positions,       \* positions_: the rows present, by instrument and direction
  positionApplied  \* applied_trade_ids_

positionVars == <<positions, positionApplied>>

Slot == Instruments \X PositionDirectionType
NoRow == [present |-> FALSE, total |-> 0, yesterday |-> 0]
NewRow(total, yesterday) == [present |-> TRUE, total |-> total, yesterday |-> yesterday]

PositionInit == positions = [s \in Slot |-> NoRow] /\ positionApplied = {}

AtLeast0(n) == IF n < 0 THEN 0 ELSE n

\* Fault: what exceeds yesterday's volume is taken off the total as it is.
ReduceUnclamped(p, effect, volume) ==
  [p EXCEPT !.total = AtLeast0(@ - volume)]

\* ReduceTodayYesterday and ReducePosition: of a row only the total and
\* yesterday's part are kept, today's is the difference; a close that names no
\* day takes yesterday's volume first.
ReducePosition(p, effect, volume) ==
  LET today == p.total - p.yesterday
      fromYesterday == IF p.yesterday < volume THEN p.yesterday ELSE volume
      y == CASE effect = "CloseToday"     -> p.yesterday
             [] effect = "CloseYesterday" -> AtLeast0(p.yesterday - volume)
             [] OTHER                     -> p.yesterday - fromYesterday
      t == CASE effect = "CloseToday"     -> AtLeast0(today - volume)
             [] effect = "CloseYesterday" -> today
             [] OTHER                     -> AtLeast0(today - (volume - fromYesterday))
  IN NewRow(y + AtLeast0(t), y)

OpenPosition(p, volume) == NewRow(p.total + volume, p.yesterday)

Opens(t) == t.effect = "Open" \/ (t.effect = "Init" /\ t.side = "Buy")

\* The row a trade moves: an opening trade its own side's, any other the row of
\* the side it closes, if that row exists.
TradeSlot(t) ==
  <<t.instrument, IF (t.side = "Buy") = Opens(t) THEN "Long" ELSE "Short">>

ApplyTradeTo(t) ==
  IF Opens(t)
  THEN [positions EXCEPT ![TradeSlot(t)] = OpenPosition(@, t.volume)]
  ELSE [positions EXCEPT ![TradeSlot(t)] =
          IF @.present THEN ReducePosition(@, t.effect, t.volume) ELSE @]

\* Fault: a trade is applied as often as it is delivered.
PositionAcceptsAll(t) == t.volume > 0

PositionAccepts(t) ==
  t.volume > 0 /\ GenerateTradeDedupKey(t) \notin positionApplied

PositionApplyTrade(t) ==
  /\ positionApplied' =
       IF PositionAccepts(t) THEN positionApplied \cup {GenerateTradeDedupKey(t)}
       ELSE positionApplied
  /\ positions' = IF PositionAccepts(t) /\ t.side \in {"Buy", "Sell"}
                  THEN ApplyTradeTo(t) ELSE positions

\* Rows with a negative total are skipped; of two rows for one slot the later
\* wins.  The trades applied so far are remembered.
ApplyPositionSnapshot(rows) ==
  /\ positions' \in
       {table \in [Slot -> {NoRow} \cup {NewRow(r.total, r.yesterday) : r \in rows}] :
          \A s \in Slot :
            LET here == {r \in rows : r.total >= 0 /\ <<r.instrument, r.direction>> = s}
            IN IF here = {} THEN table[s] = NoRow
               ELSE \E r \in here : table[s] = NewRow(r.total, r.yesterday)}
  /\ UNCHANGED positionApplied

\* A net row, which only a snapshot brings, stands for the whole instrument.
GetNetPosition(i) ==
  IF positions[<<i, "Net">>].present THEN positions[<<i, "Net">>].total
  ELSE positions[<<i, "Long">>].total - positions[<<i, "Short">>].total

GetGrossPosition(i) == positions[<<i, "Long">>].total + positions[<<i, "Short">>].total

PositionNext ==
  \/ \E t \in PositionTrades : PositionApplyTrade(t)
  \/ \E rows \in PositionSnapshots : ApplyPositionSnapshot(rows)

PositionSpec == PositionInit /\ [][PositionNext]_positionVars
-----------------------------------------------------------------------------
(* Correctness.                                                            *)

\* Type invariant of the position table.
PositionTypeOK ==
  positions \in [Slot -> [present : BOOLEAN, total : Int, yesterday : Int]]

\* However opening, closing and overclosing trades of either day follow each
\* other, no row goes short of zero and yesterday's part never exceeds the
\* total, from which today's sellable part is computed.
PositionsSane ==
  \A s \in Slot : 0 <= positions[s].yesterday /\ positions[s].yesterday <= positions[s].total
=============================================================================
