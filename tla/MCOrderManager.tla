--------------------------- MODULE MCOrderManager ---------------------------
(* TLC instance of OrderManager: two strategy orders and one order that the  *)
(* venue knows by an identifier of its own.                                  *)
EXTENDS OrderManager

MCReport(oid, c, s, left, traded) ==
  [order_id |-> oid, client |-> c, status |-> s, volume |-> left + traded,
   left |-> left, traded |-> traded, broker |-> TRUE]

MCWhat == {<<"New", 2, 0>>, <<"PartiallyFilled", 1, 1>>, <<"Filled", 0, 2>>,
           <<"Canceled", 1, 1>>, <<"Unknown", 2, 0>>}

\* Venue snapshots of an order of volume 2, by client and by an identifier of
\* the venue's own, and two by one of the session's.
MCOrderReports ==
  {MCReport(who[1], who[2], what[1], what[2], what[3]) :
     who \in {<<NoId, 1>>, <<9, 2>>}, what \in MCWhat}
  \cup {MCReport(1, NoClient, "New", 2, 0), MCReport(1, NoClient, "Canceled", 1, 1)}

MCTrade(key, c, volume) ==
  [key |-> key, order_id |-> NoId, client |-> c, volume |-> volume]

MCTradeReports == {MCTrade("t1", 1, 1), MCTrade("t2", 2, 2)}
=============================================================================
