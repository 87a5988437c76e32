---------------------------- MODULE AccountManager ----------------------------
(***************************************************************************)
(* The local view of the account's funds, account/account_manager.cpp: the *)
(* asset snapshot taken at start, the cash flow of the trades since, and   *)
(* what open buy orders freeze.  Each operation runs under mutex_ and is   *)
(* one action.  The manager outlives the sessions of the engine.           *)
(***************************************************************************)
EXTENDS SdkReports

CONSTANT AccountOrders  \* order_ids the engine may come across in all sessions

VARIABLES
  buyingPower,     \* asset_.buying_power, 0 before the first snapshot
  netCashFlow,     \* net_cash_flow_
  frozenAmount,    \* frozen_amount_
  orderFrozen,     \* order_frozen_amounts_, 0 where there is no entry
  accountApplied   \* applied_trade_ids_

accountVars == <<buyingPower, netCashFlow, frozenAmount, orderFrozen, accountApplied>>

AccountInit ==
  /\ buyingPower = 0 /\ netCashFlow = 0 /\ frozenAmount = 0
  /\ orderFrozen = [id \in AccountOrders |-> 0]
  /\ accountApplied = {}

Inflow  == {"Sell", "ShortSell", "Redemption"}
Outflow == {"Buy", "MarginTrade", "Purchase"}

\* Fault: the cash flow of the trades a snapshot includes is kept.
ApplyAssetSnapshotAdding(power) ==
  /\ buyingPower' = power
  /\ UNCHANGED <<netCashFlow, frozenAmount, orderFrozen, accountApplied>>

ApplyAssetSnapshot(power) ==
  /\ buyingPower' = power
  /\ netCashFlow' = 0
  /\ UNCHANGED <<frozenAmount, orderFrozen, accountApplied>>

Frozen(status, side, left) ==
  IF status \notin {"Filled", "Canceled", "Rejected"} /\ side \in Outflow /\ left > 0
  THEN left ELSE 0

AccountApplyOrder(id, status, side, left) ==
  LET total == frozenAmount + Frozen(status, side, left) - orderFrozen[id]
  IN /\ orderFrozen' = [orderFrozen EXCEPT ![id] = Frozen(status, side, left)]
     /\ frozenAmount' = IF total < 0 THEN 0 ELSE total
     /\ UNCHANGED <<buyingPower, netCashFlow, accountApplied>>

AccountAccepts(t) ==
  t.volume > 0 /\ GenerateTradeDedupKey(t) \notin accountApplied

CashFlow(t) == CASE t.side \in Inflow  -> t.volume
                 [] t.side \in Outflow -> -t.volume
                 [] OTHER              -> 0

AccountApplyTrade(t) ==
  /\ IF AccountAccepts(t)
     THEN /\ accountApplied' = accountApplied \cup {GenerateTradeDedupKey(t)}
          /\ netCashFlow' = netCashFlow + CashFlow(t)
     ELSE UNCHANGED <<accountApplied, netCashFlow>>
  /\ UNCHANGED <<buyingPower, frozenAmount, orderFrozen>>

GetAvailableFunds == buyingPower + netCashFlow - frozenAmount

\* Type invariant of the account's view.
AccountTypeOK ==
  /\ buyingPower \in Int /\ netCashFlow \in Int /\ frozenAmount \in Nat
  /\ orderFrozen \in [AccountOrders -> Nat]
=============================================================================
