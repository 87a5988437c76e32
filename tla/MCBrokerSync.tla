----------------------------- MODULE MCBrokerSync -----------------------------
(* Two clients, one buying and one selling; identifiers of MaxSessions       *)
(* sessions and of the process before them.                                  *)
EXTENDS BrokerSync

MCSideOf == [c \in ClientIds |-> IF c = 1 THEN "Buy" ELSE "Sell"]
MCEffectOf == [c \in ClientIds |-> "Init"]
MCForeignIds == (MaxOrders + 1)..(MaxOrders * (MaxSessions + 2))
MCAccountOrders == 1..(MaxOrders * (MaxSessions + 1))
=============================================================================
