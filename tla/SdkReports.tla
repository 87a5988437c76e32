------------------------------ MODULE SdkReports ------------------------------
(***************************************************************************)
(* What the trader and quote SDK hand to the engine: the enumerations of   *)
(* sdk/trader/trader_types.hpp, the fields of a trade the managers decide  *)
(* on, the key they deduplicate it by (utils/trade_dedup.hpp) and the      *)
(* checks at the boundary (utils/adapter_payload_validation.hpp).  Prices  *)
(* are the unit price, so an amount is a volume; 0 is an empty identifier. *)
(***************************************************************************)
EXTENDS Integers, Sequences, FiniteSets, FiniteSetsExt

SideType == {"Buy", "Sell", "Purchase", "Redemption", "Split", "Merge", "Cover",
             "MarginTrade", "ShortSell", "RepayMargin", "RepayStock", "Unknown"}

PositionEffectType == {"Init", "Open", "Close", "ForceClose", "CloseToday",
                       "CloseYesterday", "ForceOff", "LocalForceClose", "Unknown"}

PositionDirectionType == {"Unknown", "Long", "Short", "Net"}

Trade(instruments) ==
  [trade_id : Nat, order_id : Nat, client : Nat, report_index : Nat,
   instrument : instruments, side : SideType, effect : PositionEffectType,
   volume : Int]

\* The exchange's trade number, or failing that where the report came from.
GenerateTradeDedupKey(t) ==
  IF t.trade_id # 0 THEN <<t.trade_id>>
  ELSE <<t.order_id, t.client, t.report_index, t.instrument>>

HasOrder(r) == r.order_id # 0 \/ r.client # 0 \/ r.broker

IsValidTrade(t) == t.volume > 0 /\ (t.order_id # 0 \/ t.client # 0)

IsValidOrder(r) ==
  /\ HasOrder(r)
  /\ r.volume >= 0 /\ r.traded >= 0 /\ r.left >= 0
  /\ r.volume > 0 => r.traded <= r.volume
=============================================================================
