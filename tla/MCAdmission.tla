------------------------------ MODULE MCAdmission ------------------------------
(* Two submitting threads; configurations that follow, contradict, repeat    *)
(* and outdate each other; orders of an earlier session at the venue.        *)
EXTENDS Admission, TLC

MCConfig(version, budget, max, count, buffer, instruments) ==
  [version |-> version, usable |-> TRUE, budget_version |-> budget, max_notional |-> max,
   max_open_orders |-> count, safety_buffer |-> buffer, instruments |-> instruments]

MCConfigs ==
  {MCConfig(1, 0, 3, 2, 2, {1}),
   MCConfig(2, 4, 4, 1, 0, {1, 2}),
   MCConfig(3, 2, 4, 1, 0, {2}),     \* an older budget than that of version 2
   MCConfig(4, 4, 2, 1, 2, {2}),     \* no room beside the buffer
   [MCConfig(5, 5, 0, 0, 0, {}) EXCEPT !.usable = FALSE]}

\* Orders the venue has from before: two it names, the one half traded, and one
\* it knows by its client only.
MCBrokerOrder(id, client, volume, traded) ==
  [order_id |-> id, client |-> client, status |-> IF traded = 0 THEN "New" ELSE "PartiallyFilled",
   volume |-> volume, left |-> volume - traded, traded |-> traded, broker |-> TRUE]

MCOrderReports ==
  {MCBrokerOrder(11, 0, 2, 1), MCBrokerOrder(12, 0, 1, 0), MCBrokerOrder(0, 1, 1, 0)}

MCSymmetry == Permutations(Submitters)
=============================================================================
