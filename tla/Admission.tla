------------------------------- MODULE Admission -------------------------------
(***************************************************************************)
(* What an order must pass before it is created: the configuration that    *)
(* Init fetches (TradingEngine::OnEngineConfig), the rules and limits it   *)
(* leaves in ComplianceManager and RiskManager, and OrderPipeline::Submit  *)
(* up to the creation, on several threads at once.  RiskManager::CheckOrder*)
(* copies the limits, then asks the OMS for its active orders and then for *)
(* its open notional; the OMS (OrderManager) may move between any two.     *)
(*                                                                         *)
(* OnEngineConfig is called by Init only, so its branches for a running    *)
(* engine are out of reach.  Start adopts the venue's orders before the    *)
(* engine runs; no limit is asked.  The reservation is OrderFlow's         *)
(* subject, what else the broker's answers change BrokerSync's.            *)
(***************************************************************************)
EXTENDS OrderManager

CONSTANTS
  Configs,      \* answers of GetEngineConfig
  Instruments,
  Submitters,   \* threads that call the order sender
  BatchSize     \* bound: orders in a batch

Config ==
  [version : Nat, usable : BOOLEAN, budget_version : Nat, max_notional : Int,
   max_open_orders : Nat, safety_buffer : Int, instruments : SUBSET Instruments]

ASSUME AdmissionAssumption ==
  /\ Configs \subseteq Config
  /\ IsFiniteSet(Submitters) /\ Submitters # {}
  /\ BatchSize \in Nat \ {0}

VARIABLES
  running,      \* running_ of the engine
  limits,       \* limits_ of the RiskManager
  rules,        \* rules_ of the ComplianceManager
  runtime,      \* runtime_config_, its version 0 before the first
  subscribed,   \* subscribed_instruments_
  submitter     \* each Submit in progress: pc, request, limits seen, order_id

configVars == <<limits, rules, runtime, subscribed>>
admissionVars == <<omsVars, running, configVars, submitter>>

\* usable: the identity is the engine's and valid_until has not passed.
NoConfig == [version |-> 0, usable |-> FALSE, budget_version |-> 0, max_notional |-> 0,
             max_open_orders |-> 0, safety_buffer |-> 0, instruments |-> {}]

-----------------------------------------------------------------------------
(* Configuration.  A limit of 0 and an empty set of instruments allow all. *)

LimitsOf(c) ==
  [version |-> IF c.budget_version # 0 THEN c.budget_version ELSE c.version,
   max_notional |-> c.max_notional, max_open_orders |-> c.max_open_orders,
   safety_buffer |-> c.safety_buffer]

RulesOf(c) ==
  [version |-> c.version, max_notional |-> c.max_notional, instruments |-> c.instruments]

\* Fault: limits of an older version are taken.
RiskAcceptsOlder(l) ==
  /\ l.max_notional >= 0 /\ l.safety_buffer >= 0
  /\ l.max_notional > 0 => l.safety_buffer < l.max_notional

\* RiskManager::Configure.
RiskAccepts(l) ==
  /\ l.max_notional >= 0 /\ l.safety_buffer >= 0
  /\ l.max_notional > 0 => l.safety_buffer < l.max_notional
  /\ l.version # 0 => limits.version <= l.version

\* ComplianceManager::Configure.
RulesAccepted(r) == r.max_notional >= 0 /\ (r.version # 0 => rules.version <= r.version)

Fresh(c) == c.version # 0 /\ c.usable /\ c.version > runtime.version

\* Fault: the rules are replaced before the limits are known to be accepted.
OnEngineConfigRulesFirst(c) ==
  IF Fresh(c) /\ RulesAccepted(RulesOf(c))
  THEN /\ rules' = RulesOf(c)
       /\ IF RiskAccepts(LimitsOf(c))
          THEN limits' = LimitsOf(c) /\ runtime' = c /\ subscribed' = c.instruments
          ELSE UNCHANGED <<limits, runtime, subscribed>>
  ELSE UNCHANGED configVars

\* Each refusal only asks for a transition to Frozen, which the state machine
\* does not have before Start (EngineLifecycle): Init goes on.
OnEngineConfig(c) ==
  IF Fresh(c) /\ RiskAccepts(LimitsOf(c))
  THEN /\ limits' = LimitsOf(c)
       /\ IF RulesAccepted(RulesOf(c))
          THEN rules' = RulesOf(c) /\ runtime' = c /\ subscribed' = c.instruments
          ELSE UNCHANGED <<rules, runtime, subscribed>>
  ELSE UNCHANGED configVars

EngineInit ==
  /\ ~running
  /\ Initialize
  /\ \E c \in Configs : OnEngineConfig(c)
  /\ UNCHANGED <<running, submitter>>

\* Rows of the venue's answer: what is left and what is traded add up.
BrokerOrders == {r \in OrderReports : r.volume > 0 /\ r.left = r.volume - r.traded}

\* Start's reconciliation, a row of the answer at a time as the OMS's mutex is
\* taken, before anyone may submit.
SyncBrokerSnapshot ==
  /\ initialized /\ ~running
  /\ \E r \in BrokerOrders : ReconcileBrokerOrder(r)
  /\ UNCHANGED <<running, configVars, submitter>>

\* The rest of Start: the modules run.
EngineStart ==
  /\ initialized /\ ~running
  /\ running' = TRUE
  /\ UNCHANGED <<omsVars, configVars, submitter>>

-----------------------------------------------------------------------------
(* Submissions.                                                            *)

NoRequest == [client |-> NoClient, volume |-> 0]
Idle == [pc |-> "idle", request |-> NoRequest, limits |-> LimitsOf(NoConfig),
         order_id |-> NoId, left |-> 0]

Rests(s) == submitter[s].pc = "idle"

Goes(s, from, state) ==
  /\ submitter[s].pc = from
  /\ submitter' = [submitter EXCEPT ![s] = state]

OnlySubmitter == UNCHANGED <<running, configVars>>

\* The order sender looks whether the engine is ready once for a batch.
SubmitBatch(s) ==
  /\ running
  /\ \E n \in 1..BatchSize : Goes(s, "idle", [Idle EXCEPT !.pc = "next", !.left = n])
  /\ OnlySubmitter /\ UNCHANGED omsVars

\* ComplianceManager::CheckOrder; the first refusal ends the batch.
CheckRules(s) ==
  /\ \E r \in Request, instrument \in Instruments :
       IF /\ rules.max_notional > 0 => r.volume <= rules.max_notional
          /\ rules.instruments # {} => instrument \in rules.instruments
       THEN Goes(s, "next", [submitter[s] EXCEPT !.pc = "limits", !.request = r])
       ELSE Goes(s, "next", Idle)
  /\ OnlySubmitter /\ UNCHANGED omsVars

CopyLimits(s) ==
  /\ Goes(s, "limits",
       IF limits.max_notional > 0 /\ submitter[s].request.volume > limits.max_notional
       THEN Idle ELSE [submitter[s] EXCEPT !.pc = "count", !.limits = limits])
  /\ OnlySubmitter /\ UNCHANGED omsVars

\* Fault: the limit itself is still let through.
CountOrdersBeyond(s) ==
  /\ LET max == submitter[s].limits.max_open_orders
     IN Goes(s, "count", IF max > 0 /\ GetActiveOrderCount > max THEN Idle
                         ELSE [submitter[s] EXCEPT !.pc = "notional"])
  /\ OnlySubmitter /\ UNCHANGED omsVars

CountOrders(s) ==
  /\ LET max == submitter[s].limits.max_open_orders
     IN Goes(s, "count", IF max > 0 /\ GetActiveOrderCount >= max THEN Idle
                         ELSE [submitter[s] EXCEPT !.pc = "notional"])
  /\ OnlySubmitter /\ UNCHANGED omsVars

\* Fault: the safety buffer is not kept free.
AddNotionalUnbuffered(s) ==
  /\ LET l == submitter[s].limits
     IN Goes(s, "notional",
             IF /\ l.max_notional > 0
                /\ GetOpenNotional + submitter[s].request.volume > l.max_notional
             THEN Idle ELSE [submitter[s] EXCEPT !.pc = "allocate"])
  /\ OnlySubmitter /\ UNCHANGED omsVars

AddNotional(s) ==
  /\ LET l == submitter[s].limits
     IN Goes(s, "notional",
             IF /\ l.max_notional > 0
                /\ GetOpenNotional + submitter[s].request.volume
                     > l.max_notional - l.safety_buffer
             THEN Idle ELSE [submitter[s] EXCEPT !.pc = "allocate"])
  /\ OnlySubmitter /\ UNCHANGED omsVars

Left(s) == submitter[s].left - 1
AfterOrder(s) == IF Left(s) = 0 THEN Idle ELSE [Idle EXCEPT !.pc = "next", !.left = Left(s)]

\* A client's order that exists already is answered with success.
AllocateAdmitted(s) ==
  /\ IF GetOrderByClientId(submitter[s].request.client) # NoId
     THEN Goes(s, "allocate", AfterOrder(s)) /\ UNCHANGED omsVars
     ELSE /\ Goes(s, "allocate", [submitter[s] EXCEPT !.pc = "create", !.order_id = NextId])
          /\ AllocateOrderId
  /\ OnlySubmitter

\* With or without the account-risk service's consent.
CreateAdmitted(s) ==
  /\ \/ Goes(s, "create", Idle) /\ UNCHANGED omsVars
     \/ Goes(s, "create", AfterOrder(s)) /\ CreateOrder(submitter[s].request, submitter[s].order_id)
  /\ OnlySubmitter

Submit(s) ==
  \/ SubmitBatch(s) \/ CheckRules(s) \/ CopyLimits(s) \/ CountOrders(s) \/ AddNotional(s)
  \/ AllocateAdmitted(s) \/ CreateAdmitted(s)

-----------------------------------------------------------------------------
(* What else moves the OMS: the EMS and the venue's reports.               *)

Fill(id) ==
  [key |-> <<id, orders[id].traded>>, order_id |-> id, client |-> NoClient, volume |-> 1]
Refusal(id) ==
  [order_id |-> id, client |-> NoClient, status |-> "Rejected", volume |-> orders[id].volume,
   left |-> orders[id].left, traded |-> orders[id].traded, broker |-> TRUE]

OrderMoves(id) ==
  /\ Present(id)
  /\ \/ MarkEmsQueued(id) \/ MarkSendPending(id)
     \/ orders[id].traded < orders[id].volume /\ ApplyTradeReport(Fill(id))
     \/ ApplyOrderReport(Refusal(id))
  /\ UNCHANGED <<running, configVars, submitter>>

\* Stop, also after a Start that failed half-way; it joins the lanes, in whose
\* callbacks the strategies submit, before the OMS is shut down.
EngineStop ==
  /\ initialized
  /\ \A s \in Submitters : Rests(s)
  /\ running' = FALSE
  /\ Shutdown
  /\ UNCHANGED <<configVars, submitter>>

AdmissionInit ==
  /\ Init /\ running = FALSE
  /\ limits = LimitsOf(NoConfig) /\ rules = RulesOf(NoConfig)
  /\ runtime = NoConfig /\ subscribed = {}
  /\ submitter = [s \in Submitters |-> Idle]

AdmissionNext ==
  \/ EngineInit \/ SyncBrokerSnapshot \/ EngineStart \/ EngineStop
  \/ \E s \in Submitters : Submit(s)
  \/ \E id \in OrderIds : OrderMoves(id)

AdmissionSpec == AdmissionInit /\ [][AdmissionNext]_admissionVars
-----------------------------------------------------------------------------
(* Correctness.                                                            *)

Limits == [version : Nat, max_notional : Int, max_open_orders : Nat, safety_buffer : Int]

SubmitState ==
  [pc : {"idle", "next", "limits", "count", "notional", "allocate", "create"},
   request : Request \cup {NoRequest}, limits : Limits, order_id : Int, left : Int]

\* Type invariant, of what ConfigCoherent does not fix.
AdmissionTypeOK ==
  /\ runtime \in Config
  /\ running \in BOOLEAN /\ initialized \in BOOLEAN /\ counter \in Int
  /\ orders \in [OrderIds -> Entry]
  /\ submitter \in [Submitters -> SubmitState]

\* Limits, rules, runtime configuration and subscriptions come from one
\* configuration: one that is refused half-way, stale or damaged changes none
\* of them, although each is replaced under a lock of its own.
ConfigCoherent ==
  limits = LimitsOf(runtime) /\ rules = RulesOf(runtime) /\ subscribed = runtime.instruments

\* Over all sessions neither the configuration nor its limits nor its rules go
\* back to an older version.
VersionsAdvance ==
  [][/\ runtime.version <= runtime'.version
     /\ limits.version <= limits'.version
     /\ rules.version <= rules'.version]_admissionVars

\* The active orders that passed admission: Start reconciles the venue's own.
Admitted == Active \ reconciled

\* Counting and creating are separate steps, and what Start adopts is counted
\* but never checked.  The limit is still overrun by admission by no more than
\* the other threads that submit: the active orders exceed it by more only if
\* the admitted ones among them are at most those threads' own, the rest being
\* the venue's from before.
OpenOrdersBounded ==
  limits.max_open_orders > 0 =>
    \/ GetActiveOrderCount <= limits.max_open_orders + Cardinality(Submitters) - 1
    \/ Cardinality(Admitted) <= Cardinality(Submitters) - 1

\* Likewise the open notional exceeds what the limit leaves beside its safety
\* buffer by no more than that amount for every other submitting thread, unless
\* it is the adopted orders' and the admitted ones stay within those shares.
Room == limits.max_notional - limits.safety_buffer

OpenNotionalBounded ==
  limits.max_notional > 0 =>
    \/ GetOpenNotional <= Cardinality(Submitters) * Room
    \/ SumFunctionOnSet(LeftVolumes, Admitted) <= (Cardinality(Submitters) - 1) * Room

-----------------------------------------------------------------------------
(* What the comments say and the code does not do.                         *)

\* The greatest number of active orders (risk/risk_manager.hpp).
OpenOrdersLimited ==
  limits.max_open_orders > 0 => GetActiveOrderCount <= limits.max_open_orders
=============================================================================
