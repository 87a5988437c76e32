---------------------------- MODULE AdmissionProofs ----------------------------
(***************************************************************************)
(* Proofs about Admission for every set of configurations, any number of   *)
(* submitting threads and any number of orders.                            *)
(*                                                                         *)
(* That the limit of open orders is overrun by no more than the other      *)
(* threads is not inductive as it stands: a thread that has passed the     *)
(* count and not yet created its order is an order to come.  AdmissionInv  *)
(* counts it (Budget), and says why the limits that a thread has copied    *)
(* are those in force: they change in Init only, when nobody submits.      *)
(* Before the engine runs every order is the venue's, adopted unchecked    *)
(* (AtWork): a thread that passes the count afterwards finds them counted. *)
(***************************************************************************)
EXTENDS Admission, OrderManagerProofs, FiniteSetTheorems

\* The threads that have passed the count and may still create.
Passed == {s \in Submitters : submitter[s].pc \in {"notional", "allocate", "create"}}

Budget ==
  limits.max_open_orders > 0 =>
    \/ Cardinality(Active) + Cardinality(Passed)
         <= limits.max_open_orders + Cardinality(Submitters) - 1
    \/ Cardinality(Admitted) + Cardinality(Passed) <= Cardinality(Submitters) - 1

\* Threads are at work only while the engine runs, under the limits in force.
AtWork ==
  /\ running => initialized
  /\ ~running => Active \subseteq reconciled
  /\ \A s \in Submitters :
       /\ ~running => submitter[s].pc = "idle"
       /\ submitter[s].pc \in {"count", "notional", "allocate", "create"} =>
            submitter[s].limits = limits

AdmissionInv == AdmissionTypeOK /\ ConfigCoherent /\ AtWork /\ IsFiniteSet(Active) /\ Budget

\* The same for the notional, which is a sum: what the threads that have passed
\* the limit hold counts with what is open.
Holders == {s \in Submitters : submitter[s].pc \in {"allocate", "create"}}

Held == [s \in Submitters |-> submitter[s].request.volume]

Committed == GetOpenNotional + SumFunctionOnSet(Held, Holders)

\* Without what Start adopted.
OwnCommitted == SumFunctionOnSet(LeftVolumes, Admitted) + SumFunctionOnSet(Held, Holders)

\* A row's left volume is what its fills have left over.
RowsAddUp == \A id \in OrderIds : orders[id].left = orders[id].volume - orders[id].traded

RoomBesideBuffer == limits.max_notional > 0 => limits.safety_buffer < limits.max_notional

NotionalInv ==
  /\ RowsAddUp
  /\ RoomBesideBuffer
  /\ limits.max_notional > 0 =>
       /\ \A s \in Holders : Held[s] <= Room
       /\ \/ Committed <= Cardinality(Submitters) * Room
          \/ OwnCommitted <= (Cardinality(Submitters) - 1) * Room

-----------------------------------------------------------------------------
(* Facts about the records and the two sets that are counted.              *)

LEMMA NoConfigIsConfig == NoConfig \in Config
  BY DEF NoConfig, Config

LEMMA LimitsTyped ==
  ASSUME NEW c \in Config
  PROVE  LimitsOf(c) \in Limits
  BY DEF LimitsOf, Limits, Config

LEMMA IdleTyped == Idle \in SubmitState /\ Idle.pc = "idle"
  <1>1. LimitsOf(NoConfig) \in Limits
    BY NoConfigIsConfig, LimitsTyped
  <1> QED BY <1>1 DEF Idle, SubmitState, NoId

LEMMA IdleAgain ==
  ASSUME NEW n \in Int
  PROVE  /\ [Idle EXCEPT !.pc = "next", !.left = n] \in SubmitState
         /\ [Idle EXCEPT !.pc = "next", !.left = n].pc = "next"
  <1> DEFINE i == Idle
  <1>1. i \in SubmitState
    BY IdleTyped
  <1> HIDE DEF i
  <1>2. /\ [i EXCEPT !.pc = "next", !.left = n] \in SubmitState
        /\ [i EXCEPT !.pc = "next", !.left = n].pc = "next"
    BY <1>1 DEF SubmitState
  <1> QED BY <1>2 DEF i

LEMMA PassedFacts ==
  /\ IsFiniteSet(Passed) /\ Cardinality(Passed) \in Nat
  /\ Cardinality(Submitters) \in Nat /\ Cardinality(Submitters) > 0
  /\ Cardinality(Passed) <= Cardinality(Submitters)
  <1>1. IsFiniteSet(Submitters) /\ Submitters # {}
    BY AdmissionAssumption
  <1>2. Passed \subseteq Submitters
    BY DEF Passed
  <1>3. Cardinality(Submitters) \in Nat /\ Cardinality(Submitters) # 0
    BY <1>1, FS_CardinalityType, FS_EmptySet
  <1>4. IsFiniteSet(Passed) /\ Cardinality(Passed) <= Cardinality(Submitters)
    BY <1>1, <1>2, FS_Subset
  <1> QED BY <1>3, <1>4, FS_CardinalityType

\* The same when the step is over.
LEMMA PassedFactsNext ==
  /\ IsFiniteSet(Passed') /\ Cardinality(Passed') \in Nat
  /\ Cardinality(Passed') <= Cardinality(Submitters)
  <1>1. IsFiniteSet(Submitters)
    BY AdmissionAssumption
  <1>2. Passed' \subseteq Submitters
    BY DEF Passed
  <1>3. IsFiniteSet(Passed') /\ Cardinality(Passed') <= Cardinality(Submitters)
    BY <1>1, <1>2, FS_Subset
  <1> QED BY <1>3, FS_CardinalityType

\* The admitted orders are some of the active ones, now and when the step is over.
LEMMA AdmittedFacts ==
  ASSUME IsFiniteSet(Active)
  PROVE  IsFiniteSet(Admitted) /\ Cardinality(Admitted) \in Nat /\ Cardinality(Active) \in Nat
  <1>1. Admitted \subseteq Active
    BY DEF Admitted
  <1> QED BY <1>1, FS_Subset, FS_CardinalityType

\* The limits are the runtime configuration's.
LEMMA LimitFacts ==
  ASSUME AdmissionTypeOK, ConfigCoherent
  PROVE  limits \in Limits /\ limits.max_open_orders \in Nat
  BY LimitsTyped DEF AdmissionTypeOK, ConfigCoherent, Limits

\* A step after which the orders, the admitted and those to come are no more
\* than before keeps the budget.
LEMMA BudgetKept ==
  ASSUME AdmissionInv, limits' = limits, IsFiniteSet(Active'),
         Cardinality(Active') + Cardinality(Passed') <= Cardinality(Active) + Cardinality(Passed),
         Cardinality(Admitted') + Cardinality(Passed')
           <= Cardinality(Admitted) + Cardinality(Passed)
  PROVE  Budget'
  <1>1. Admitted' \subseteq Active'
    BY DEF Admitted
  <1>2. Cardinality(Admitted') \in Nat /\ Cardinality(Active') \in Nat
    BY <1>1, FS_Subset, FS_CardinalityType
  <1>3. Cardinality(Admitted) \in Nat /\ Cardinality(Active) \in Nat
    BY AdmittedFacts DEF AdmissionInv
  <1> QED BY <1>2, <1>3, PassedFacts, PassedFactsNext, LimitFacts DEF AdmissionInv, Budget

-----------------------------------------------------------------------------
(* Configuration.                                                          *)

\* OnEngineConfig changes all of the configuration or nothing, and only for a
\* newer one: once the limits are accepted the rules cannot be refused.
LEMMA ConfigStep ==
  ASSUME AdmissionTypeOK, ConfigCoherent, NEW c \in Configs, OnEngineConfig(c)
  PROVE  /\ runtime' \in Config /\ ConfigCoherent'
         /\ runtime.version <= runtime'.version
         /\ limits.version <= limits'.version
         /\ rules.version <= rules'.version
  <1>1. c \in Config /\ runtime \in Config
    BY AdmissionAssumption DEF AdmissionTypeOK
  <1>2. limits \in Limits /\ limits.version \in Nat /\ rules.version \in Nat
    BY <1>1, LimitFacts DEF ConfigCoherent, Limits, RulesOf, Config
  <1>3. CASE Fresh(c) /\ RiskAccepts(LimitsOf(c))
    <2>1. c.version \in Nat /\ c.version # 0 /\ runtime.version < c.version
      BY <1>1, <1>3 DEF Fresh, Config
    <2>2. LimitsOf(c).version # 0 /\ LimitsOf(c).version \in Nat
      BY <1>1, <2>1 DEF LimitsOf, Config
    <2>3. limits.version <= LimitsOf(c).version
      BY <1>3, <2>2 DEF RiskAccepts
    <2>4. LimitsOf(c).max_notional = c.max_notional /\ c.max_notional >= 0
      BY <1>3 DEF RiskAccepts, LimitsOf
    <2>5. RulesOf(c).version = c.version /\ RulesOf(c).max_notional = c.max_notional
      BY DEF RulesOf
    <2>6. rules.version = runtime.version
      BY DEF ConfigCoherent, RulesOf
    <2>7. RulesAccepted(RulesOf(c))
      BY <1>1, <2>1, <2>4, <2>5, <2>6 DEF RulesAccepted, Config
    <2>8. /\ limits' = LimitsOf(c) /\ rules' = RulesOf(c)
          /\ runtime' = c /\ subscribed' = c.instruments
      BY <1>3, <2>7 DEF OnEngineConfig
    <2>9. ConfigCoherent'
      BY <2>8 DEF ConfigCoherent
    <2>10. runtime.version <= c.version
      BY <1>1, <2>1 DEF Config
    <2> QED BY <1>1, <2>3, <2>5, <2>6, <2>8, <2>9, <2>10
  <1>4. CASE ~(Fresh(c) /\ RiskAccepts(LimitsOf(c)))
    <2>1. UNCHANGED configVars
      BY <1>4 DEF OnEngineConfig
    <2> QED BY <1>1, <1>2, <2>1 DEF configVars, ConfigCoherent, Config
  <1> QED BY <1>3, <1>4

\* A step that leaves the configuration alone.
LEMMA ConfigKept ==
  ASSUME AdmissionTypeOK, ConfigCoherent, UNCHANGED configVars
  PROVE  /\ runtime' \in Config /\ ConfigCoherent'
         /\ runtime.version <= runtime'.version
         /\ limits.version <= limits'.version
         /\ rules.version <= rules'.version
  <1>1. limits \in Limits /\ rules.version = runtime.version
    BY LimitFacts DEF ConfigCoherent, RulesOf
  <1> QED BY <1>1 DEF configVars, ConfigCoherent, AdmissionTypeOK, Config, Limits

-----------------------------------------------------------------------------
(* Steps of the engine's session.                                          *)

\* With the tables empty and everyone at rest the invariant is the
\* configuration's.
LEMMA QuietSession ==
  ASSUME AdmissionInv, ClearTables, runtime' \in Config, ConfigCoherent',
         running' = FALSE, initialized' \in BOOLEAN, counter' \in Int,
         submitter' = submitter, \A s \in Submitters : submitter[s].pc = "idle"
  PROVE  AdmissionInv'
  <1>1. \A id \in OrderIds : orders'[id] = Absent
    BY DEF ClearTables
  <1>2. Absent \in Entry /\ Absent.state = "Absent"
    BY DEF Absent, Entry, Statuses
  <1>3. AdmissionTypeOK'
    BY <1>2 DEF ClearTables, AdmissionTypeOK, AdmissionInv
  <1>5. Active' = {} /\ Passed' = {}
    BY <1>1, <1>2 DEF Active, Present, Passed
  <1>4. AtWork'
    BY <1>5 DEF AtWork
  <1>6. IsFiniteSet(Active') /\ Cardinality(Active') = 0 /\ Cardinality(Passed') = 0
    BY <1>5, FS_EmptySet
  <1>7. limits'.max_open_orders \in Nat
    BY <1>3, LimitsTyped DEF ConfigCoherent, AdmissionTypeOK, Limits
  <1>8. Budget'
    BY <1>6, <1>7, PassedFacts DEF Budget
  <1> QED BY <1>3, <1>4, <1>6, <1>8 DEF AdmissionInv

LEMMA InitStep ==
  ASSUME AdmissionInv, EngineInit
  PROVE  AdmissionInv'
  <1>1. PICK c \in Configs : OnEngineConfig(c)
    BY DEF EngineInit
  <1>2. runtime' \in Config /\ ConfigCoherent'
    BY <1>1, ConfigStep DEF AdmissionInv
  <1>3. /\ ClearTables /\ running' = FALSE /\ initialized' \in BOOLEAN /\ counter' \in Int
        /\ submitter' = submitter /\ \A s \in Submitters : submitter[s].pc = "idle"
    BY DEF EngineInit, Initialize, AdmissionInv, AdmissionTypeOK, AtWork
  <1> QED BY <1>2, <1>3, QuietSession

LEMMA StopStep ==
  ASSUME AdmissionInv, EngineStop
  PROVE  AdmissionInv'
  <1>1. runtime' \in Config /\ ConfigCoherent'
    BY ConfigKept DEF EngineStop, AdmissionInv
  <1>2. /\ ClearTables /\ running' = FALSE /\ initialized' \in BOOLEAN /\ counter' \in Int
        /\ submitter' = submitter /\ \A s \in Submitters : submitter[s].pc = "idle"
    BY DEF EngineStop, Shutdown, Rests, AdmissionInv, AdmissionTypeOK
  <1> QED BY <1>1, <1>2, QuietSession

LEMMA StartStep ==
  ASSUME AdmissionInv, EngineStart
  PROVE  AdmissionInv'
  <1>1. Active' = Active /\ Passed' = Passed /\ Admitted' = Admitted
    BY DEF EngineStart, omsVars, Active, Present, Passed, Admitted
  <1> QED BY <1>1 DEF EngineStart, omsVars, configVars, AdmissionInv, AdmissionTypeOK,
                      ConfigCoherent, AtWork, Budget

\* A row of the broker's answer becomes or changes one row, which is then
\* reconciled; what is left in it and what is traded still add up.
LEMMA ReconcileRow ==
  ASSUME AdmissionTypeOK, SyncBrokerSnapshot
  PROVE  \E id : \E new \in Entry :
           /\ orders' = [orders EXCEPT ![id] = new] /\ reconciled' = reconciled \cup {id}
           /\ new.left = new.volume - new.traded
           /\ initialized' = initialized /\ counter' \in Int
  <1>1. PICK r \in OrderReport :
          /\ ReconcileBrokerOrder(r) /\ r.volume > 0 /\ r.left = r.volume - r.traded
    BY ConstantsAssumption DEF SyncBrokerSnapshot, BrokerOrders
  <1>2. /\ r.status \in Statuses /\ r.client \in ClientIds \cup {NoClient}
        /\ r.volume \in Nat /\ r.left \in Nat /\ r.traded \in Nat /\ r.broker \in BOOLEAN
    BY DEF OrderReport
  <1> DEFINE id == Find(r.order_id, r.client)
  <1>3. CASE id = NoId
    <2>1. Adopt(r) /\ counter \in Int
      BY <1>1, <1>3 DEF ReconcileBrokerOrder, AdmissionTypeOK
    <2>2. LifecycleFromStatus(r.status, "Working") \in Lifecycle
      BY DEF LifecycleFromStatus, Lifecycle, Terminal, PreSend
    <2>3. AdoptedEntry(r) \in Entry
      BY <1>2, <2>2 DEF AdoptedEntry, Entry
    <2>4. AdoptedEntry(r).left = AdoptedEntry(r).volume - AdoptedEntry(r).traded
      BY <1>1 DEF AdoptedEntry
    <2>5. PICK at : /\ orders' = [orders EXCEPT ![at] = AdoptedEntry(r)]
                    /\ reconciled' = reconciled \cup {at}
      BY <2>1 DEF Adopt
    <2>6. initialized' = initialized /\ counter' \in Int
      BY <2>1 DEF Adopt, NextId
    <2> QED BY <2>3, <2>4, <2>5, <2>6
  <1>4. CASE id # NoId
    <2>1. Present(id) /\ orders[id] \in Entry /\ orders[id].state \in Lifecycle
      BY <1>4 DEF Find, GetOrderByClientId, Present, NoId, AdmissionTypeOK, Entry
    <2> DEFINE new == Merged(orders[id], r)
    <2>2. /\ MergeLegal(orders[id], r) /\ orders' = [orders EXCEPT ![id] = new]
          /\ reconciled' = reconciled \cup {id}
          /\ initialized' = initialized /\ counter' \in Int
      BY <1>1, <1>4 DEF ReconcileBrokerOrder, ReconcileKnown, AdmissionTypeOK
    <2>3. new \in Entry
      BY <2>1, MergedRow DEF RowStep
    <2>4. new.volume = r.volume /\ new.left = r.left /\ new.traded = r.traded
      BY <1>1, <2>1, <2>2 DEF Merged, MergeSnapshot, Entry
    <2>5. new.left = new.volume - new.traded
      BY <1>1, <2>4
    <2> HIDE DEF new, id
    <2> QED BY <2>2, <2>3, <2>5
  <1> QED BY <1>3, <1>4

\* Before the engine runs nothing is admitted: what is adopted is reconciled.
LEMMA SyncStep ==
  ASSUME AdmissionInv, SyncBrokerSnapshot
  PROVE  AdmissionInv'
  <1>1. /\ ~running /\ running' = running /\ submitter' = submitter
        /\ \A s \in Submitters : submitter[s].pc = "idle"
        /\ UNCHANGED configVars
    BY DEF SyncBrokerSnapshot, AdmissionInv, AtWork
  <1>2. PICK id : \E n \in Entry :
          /\ orders' = [orders EXCEPT ![id] = n] /\ reconciled' = reconciled \cup {id}
          /\ initialized' = initialized /\ counter' \in Int
    BY ReconcileRow DEF AdmissionInv
  <1>2a. PICK new \in Entry : orders' = [orders EXCEPT ![id] = new]
    BY <1>2
  <1>3. /\ orders' \in [OrderIds -> Entry]
        /\ \A i \in OrderIds : orders'[i] = IF i = id THEN new ELSE orders[i]
    BY <1>2a DEF AdmissionInv, AdmissionTypeOK
  <1>4. AdmissionTypeOK' /\ ConfigCoherent' /\ limits' = limits
    BY <1>1, <1>2, <1>3 DEF AdmissionInv, AdmissionTypeOK, ConfigCoherent, configVars
  <1>5. Active' \subseteq Active \cup {id} /\ Active \subseteq reconciled
    BY <1>1, <1>3 DEF Active, Present, AdmissionInv, AtWork
  <1>6. AtWork'
    BY <1>1, <1>2, <1>5 DEF AdmissionInv, AtWork
  <1>7. IsFiniteSet(Active')
    <2>1. IsFiniteSet(Active \cup {id})
      BY FS_AddElement DEF AdmissionInv
    <2> QED BY <1>5, <2>1, FS_Subset
  <1>8. Admitted' = {} /\ Passed' = {}
    BY <1>1, <1>2, <1>5 DEF Admitted, Passed
  <1>9. Cardinality(Admitted') = 0 /\ Cardinality(Passed') = 0
    BY <1>8, FS_EmptySet
  <1>10. Budget'
    BY <1>9, PassedFacts DEF Budget
  <1> QED BY <1>4, <1>6, <1>7, <1>10 DEF AdmissionInv

-----------------------------------------------------------------------------
(* Steps of a submission.                                                  *)

\* A thread moves on and leaves the orders alone: the invariant holds if it has
\* not just passed the count, or passed it below the limit.
LEMMA ThreadMoves ==
  ASSUME AdmissionInv, NEW s \in Submitters, NEW state \in SubmitState,
         submitter' = [submitter EXCEPT ![s] = state],
         running, UNCHANGED <<running, configVars, initialized, orders, reconciled>>,
         counter' \in Int,
         state.pc \in {"count", "notional", "allocate", "create"} => state.limits = limits,
         \/ state.pc \notin {"notional", "allocate", "create"}
         \/ s \in Passed
         \/ limits.max_open_orders > 0 => Cardinality(Active) < limits.max_open_orders
  PROVE  AdmissionInv'
  <1>1. /\ AdmissionTypeOK' /\ ConfigCoherent' /\ limits' = limits
    BY DEF AdmissionInv, AdmissionTypeOK, ConfigCoherent, configVars
  <1>2. AtWork'
    BY <1>1 DEF AdmissionInv, AtWork, AdmissionTypeOK
  <1>3. Active' = Active /\ Admitted' = Admitted
    BY DEF Active, Present, Admitted
  <1>4. Budget'
    <2>2. CASE state.pc \notin {"notional", "allocate", "create"} \/ s \in Passed
      <3>1. Passed' \subseteq Passed
        BY <2>2 DEF Passed, AdmissionInv, AdmissionTypeOK
      <3>2. Cardinality(Passed') <= Cardinality(Passed)
        BY <3>1, PassedFacts, FS_Subset
      <3>3. Cardinality(Admitted) \in Nat /\ Cardinality(Active) \in Nat
        BY AdmittedFacts DEF AdmissionInv
      <3> QED BY <1>1, <1>3, <3>2, <3>3, PassedFacts, PassedFactsNext, BudgetKept DEF AdmissionInv
    <2>3. CASE limits.max_open_orders > 0 => Cardinality(Active) < limits.max_open_orders
      <3>1. limits.max_open_orders \in Nat /\ Cardinality(Active) \in Nat
        BY LimitFacts, AdmittedFacts DEF AdmissionInv
      <3> QED BY <1>1, <1>3, <2>3, <3>1, PassedFacts, PassedFactsNext DEF Budget
    <2> QED BY <2>2, <2>3
  <1> QED BY <1>1, <1>2, <1>3, <1>4 DEF AdmissionInv

\* A thread at work has a running engine and a record of the type.
LEMMA WorkerFacts ==
  ASSUME AdmissionInv, NEW s \in Submitters
  PROVE  /\ submitter[s] \in SubmitState
         /\ submitter[s].pc # "idle" => running
  BY DEF AdmissionInv, AdmissionTypeOK, AtWork

LEMMA AfterOrderTyped ==
  ASSUME AdmissionInv, NEW s \in Submitters
  PROVE  AfterOrder(s) \in SubmitState /\ AfterOrder(s).pc \in {"idle", "next"}
  <1> DEFINE more == [Idle EXCEPT !.pc = "next", !.left = Left(s)]
  <1>1. Left(s) \in Int
    BY WorkerFacts DEF Left, SubmitState
  <1>2. more \in SubmitState /\ more.pc = "next"
    BY <1>1, IdleAgain
  <1>3. AfterOrder(s) = Idle \/ AfterOrder(s) = more
    BY DEF AfterOrder
  <1> HIDE DEF more
  <1> QED BY <1>2, <1>3, IdleTyped

LEMMA SubmitBatchStep ==
  ASSUME AdmissionInv, NEW s \in Submitters, SubmitBatch(s)
  PROVE  AdmissionInv'
  <1>1. PICK n \in 1..BatchSize : Goes(s, "idle", [Idle EXCEPT !.pc = "next", !.left = n])
    BY DEF SubmitBatch
  <1> DEFINE state == [Idle EXCEPT !.pc = "next", !.left = n]
  <1>2. state \in SubmitState /\ state.pc = "next"
    <2>1. n \in Int
      OBVIOUS
    <2> QED BY <2>1, IdleAgain
  <1>3. submitter' = [submitter EXCEPT ![s] = state]
    BY <1>1 DEF Goes
  <1>4. /\ running /\ UNCHANGED <<running, configVars, initialized, orders, reconciled>>
        /\ counter' \in Int
    BY DEF SubmitBatch, OnlySubmitter, omsVars, AdmissionInv, AdmissionTypeOK
  <1> HIDE DEF state
  <1> QED BY <1>2, <1>3, <1>4, ThreadMoves

LEMMA CheckRulesStep ==
  ASSUME AdmissionInv, NEW s \in Submitters, CheckRules(s)
  PROVE  AdmissionInv'
  <1>1. PICK r \in Request :
          \/ Goes(s, "next", [submitter[s] EXCEPT !.pc = "limits", !.request = r])
          \/ Goes(s, "next", Idle)
    BY DEF CheckRules
  <1>2. PICK state : /\ state \in SubmitState /\ state.pc \in {"limits", "idle"}
                     /\ Goes(s, "next", state)
    BY <1>1, IdleTyped, WorkerFacts DEF SubmitState
  <1>3. submitter' = [submitter EXCEPT ![s] = state] /\ running
    BY <1>2, WorkerFacts DEF Goes
  <1>4. UNCHANGED <<running, configVars, initialized, orders, reconciled>> /\ counter' \in Int
    BY DEF CheckRules, OnlySubmitter, omsVars, AdmissionInv, AdmissionTypeOK
  <1> QED BY <1>2, <1>3, <1>4, ThreadMoves

LEMMA CopyLimitsStep ==
  ASSUME AdmissionInv, NEW s \in Submitters, CopyLimits(s)
  PROVE  AdmissionInv'
  <1>1. limits \in Limits
    BY LimitFacts DEF AdmissionInv
  <1>2. PICK state : /\ state \in SubmitState /\ Goes(s, "limits", state)
                     /\ \/ state.pc = "idle"
                        \/ state.pc = "count" /\ state.limits = limits
    <2> DEFINE copied == [submitter[s] EXCEPT !.pc = "count", !.limits = limits]
    <2>1. copied \in SubmitState /\ copied.pc = "count" /\ copied.limits = limits
      BY <1>1, WorkerFacts DEF SubmitState
    <2>2. Goes(s, "limits", Idle) \/ Goes(s, "limits", copied)
      BY DEF CopyLimits
    <2> HIDE DEF copied
    <2> QED BY <2>1, <2>2, IdleTyped
  <1>3. submitter' = [submitter EXCEPT ![s] = state] /\ running
    BY <1>2, WorkerFacts DEF Goes
  <1>4. UNCHANGED <<running, configVars, initialized, orders, reconciled>> /\ counter' \in Int
    BY DEF CopyLimits, OnlySubmitter, omsVars, AdmissionInv, AdmissionTypeOK
  <1> QED BY <1>2, <1>3, <1>4, ThreadMoves

LEMMA CountOrdersStep ==
  ASSUME AdmissionInv, NEW s \in Submitters, CountOrders(s)
  PROVE  AdmissionInv'
  <1> DEFINE passes == [submitter[s] EXCEPT !.pc = "notional"]
  <1>0. submitter[s].pc = "count" /\ submitter[s].limits = limits /\ submitter[s] \in SubmitState
    BY WorkerFacts DEF CountOrders, Goes, AdmissionInv, AtWork
  <1>1. passes \in SubmitState /\ passes.pc = "notional" /\ passes.limits = limits
    BY <1>0 DEF SubmitState
  <1>2. running /\ UNCHANGED <<running, configVars, initialized, orders, reconciled>> /\ counter' \in Int
    BY <1>0, WorkerFacts DEF CountOrders, OnlySubmitter, omsVars, AdmissionInv, AdmissionTypeOK
  <1>3. CASE limits.max_open_orders > 0 /\ GetActiveOrderCount >= limits.max_open_orders
    <2>1. submitter' = [submitter EXCEPT ![s] = Idle]
      BY <1>0, <1>3 DEF CountOrders, Goes
    <2> QED BY <1>2, <2>1, IdleTyped, ThreadMoves
  <1>4. CASE ~(limits.max_open_orders > 0 /\ GetActiveOrderCount >= limits.max_open_orders)
    <2>1. submitter' = [submitter EXCEPT ![s] = passes]
      BY <1>0, <1>4 DEF CountOrders, Goes
    <2>2. limits.max_open_orders > 0 => Cardinality(Active) < limits.max_open_orders
      BY <1>4, LimitFacts, FS_CardinalityType DEF GetActiveOrderCount, AdmissionInv
    <2> HIDE DEF passes
    <2> QED BY <1>1, <1>2, <2>1, <2>2, ThreadMoves
  <1> QED BY <1>3, <1>4

LEMMA AddNotionalStep ==
  ASSUME AdmissionInv, NEW s \in Submitters, AddNotional(s)
  PROVE  AdmissionInv'
  <1> DEFINE passes == [submitter[s] EXCEPT !.pc = "allocate"]
  <1>0. submitter[s].pc = "notional" /\ submitter[s].limits = limits /\ submitter[s] \in SubmitState
    BY WorkerFacts DEF AddNotional, Goes, AdmissionInv, AtWork
  <1>1. passes \in SubmitState /\ passes.limits = limits /\ s \in Passed
    BY <1>0 DEF SubmitState, Passed
  <1>2. running /\ UNCHANGED <<running, configVars, initialized, orders, reconciled>> /\ counter' \in Int
    BY <1>0, WorkerFacts DEF AddNotional, OnlySubmitter, omsVars, AdmissionInv, AdmissionTypeOK
  <1>3. \/ submitter' = [submitter EXCEPT ![s] = Idle]
        \/ submitter' = [submitter EXCEPT ![s] = passes]
    BY DEF AddNotional, Goes
  <1> HIDE DEF passes
  <1> QED BY <1>1, <1>2, <1>3, IdleTyped, ThreadMoves

LEMMA AllocateStepAdmitted ==
  ASSUME AdmissionInv, NEW s \in Submitters, AllocateAdmitted(s)
  PROVE  AdmissionInv'
  <1> DEFINE goes == [submitter[s] EXCEPT !.pc = "create", !.order_id = NextId]
  <1>0. submitter[s].pc = "allocate" /\ submitter[s].limits = limits /\ submitter[s] \in SubmitState
    BY WorkerFacts DEF AllocateAdmitted, Goes, AdmissionInv, AtWork
  <1>1. goes \in SubmitState /\ goes.limits = limits /\ s \in Passed
    <2> DEFINE here == submitter[s]
               id   == NextId
    <2>1. here \in SubmitState /\ here.limits = limits /\ s \in Passed
      BY <1>0 DEF Passed
    <2>2. id \in Int
      BY DEF NextId, AdmissionInv, AdmissionTypeOK
    <2> HIDE DEF here, id
    <2>3. /\ [here EXCEPT !.pc = "create", !.order_id = id] \in SubmitState
          /\ [here EXCEPT !.pc = "create", !.order_id = id].limits = limits
      BY <2>1, <2>2 DEF SubmitState
    <2> QED BY <2>1, <2>3 DEF here, id
  <1>2. running /\ UNCHANGED <<running, configVars, initialized, orders, reconciled>> /\ counter' \in Int
    BY <1>0, WorkerFacts
    DEF AllocateAdmitted, AllocateOrderId, NextId, OnlySubmitter, omsVars, AdmissionInv, AdmissionTypeOK
  <1>3. \/ submitter' = [submitter EXCEPT ![s] = AfterOrder(s)]
        \/ submitter' = [submitter EXCEPT ![s] = goes]
    BY DEF AllocateAdmitted, Goes
  <1> HIDE DEF goes
  <1> QED BY <1>1, <1>2, <1>3, AfterOrderTyped, ThreadMoves

\* Creating takes a thread out of the passed ones and adds at most one order.
LEMMA CreateStepAdmitted ==
  ASSUME AdmissionInv, NEW s \in Submitters, CreateAdmitted(s)
  PROVE  AdmissionInv'
  <1> DEFINE req == submitter[s].request
             id  == submitter[s].order_id
  <1>0. submitter[s].pc = "create" /\ submitter[s] \in SubmitState /\ running /\ s \in Passed
    BY WorkerFacts DEF CreateAdmitted, Goes, Passed
  <1>1. PICK state : /\ state \in SubmitState /\ state.pc \in {"idle", "next"}
                     /\ submitter' = [submitter EXCEPT ![s] = state]
    BY IdleTyped, AfterOrderTyped DEF CreateAdmitted, Goes
  <1>2. UNCHANGED <<running, configVars, initialized, counter, reconciled>>
    BY DEF CreateAdmitted, CreateOrder, OnlySubmitter, omsVars
  <1>3. CASE orders' = orders
    <2>1. counter' \in Int
      BY <1>2 DEF AdmissionInv, AdmissionTypeOK
    <2> QED BY <1>0, <1>1, <1>2, <1>3, <2>1, ThreadMoves
  <1>4. CASE orders' = [orders EXCEPT ![id] = NewEntry(req)]
    <2>1. req.client \in ClientIds \cup {NoClient} /\ req.volume \in Nat
      <3>1. req \in Request \cup {NoRequest}
        BY <1>0 DEF SubmitState
      <3>2. NoRequest.client = NoClient /\ NoRequest.volume = 0
        BY DEF NoRequest
      <3>3. Volumes \subseteq Nat
        BY ConstantsAssumption
      <3> HIDE DEF req
      <3>4. CASE req \in Request
        BY <3>3, <3>4 DEF Request
      <3>5. CASE req = NoRequest
        BY <3>2, <3>5
      <3> QED BY <3>1, <3>4, <3>5
    <2>2. NewEntry(req) \in Entry
      <3> HIDE DEF req
      <3> QED BY <2>1 DEF NewEntry, Absent, Entry, Lifecycle, PreSend, Statuses
    <2>3. orders' \in [OrderIds -> Entry] /\ \A i \in OrderIds : i # id => orders'[i] = orders[i]
      BY <1>4, <2>2 DEF AdmissionInv, AdmissionTypeOK
    <2>4. AdmissionTypeOK' /\ ConfigCoherent' /\ limits' = limits
      BY <1>1, <1>2, <2>3 DEF AdmissionInv, AdmissionTypeOK, ConfigCoherent, configVars
    <2>5. AtWork'
      BY <1>0, <1>1, <1>2, <2>4 DEF AdmissionInv, AtWork, AdmissionTypeOK
    <2>6. IsFiniteSet(Active) /\ Active' \subseteq Active \cup {id}
      BY <2>3 DEF AdmissionInv, Active, Present
    <2>7. ASSUME NEW A, NEW B, IsFiniteSet(A), B \subseteq A \cup {id}
          PROVE  /\ IsFiniteSet(B) /\ Cardinality(A) \in Nat
                 /\ Cardinality(B) \in Nat /\ Cardinality(B) <= Cardinality(A) + 1
      <3>0. /\ IsFiniteSet(A \cup {id}) /\ Cardinality(A) \in Nat
            /\ Cardinality(A \cup {id}) =
                 IF id \in A THEN Cardinality(A) ELSE Cardinality(A) + 1
        BY <2>7, FS_AddElement, FS_CardinalityType
      <3>1. /\ IsFiniteSet(A \cup {id})
            /\ Cardinality(A \cup {id}) \in Nat /\ Cardinality(A) \in Nat
            /\ Cardinality(A \cup {id}) <= Cardinality(A) + 1
        BY <3>0
      <3>2. IsFiniteSet(B) /\ Cardinality(B) <= Cardinality(A \cup {id})
        BY <2>7, <3>1, FS_Subset
      <3> QED BY <3>1, <3>2, FS_CardinalityType
    <2>10. /\ IsFiniteSet(Active') /\ Cardinality(Active) \in Nat
           /\ Cardinality(Active') \in Nat /\ Cardinality(Active') <= Cardinality(Active) + 1
      BY <2>6, <2>7
    <2>11. /\ Cardinality(Admitted) \in Nat /\ Cardinality(Admitted') \in Nat
           /\ Cardinality(Admitted') <= Cardinality(Admitted) + 1
      <3>1. Admitted' \subseteq Admitted \cup {id}
        BY <1>2, <2>6 DEF Admitted
      <3>2. IsFiniteSet(Admitted)
        BY <2>6, AdmittedFacts
      <3> QED BY <2>7, <3>1, <3>2
    <2>8. Cardinality(Passed') = Cardinality(Passed) - 1
      <3>1. Passed' = Passed \ {s}
        BY <1>1 DEF Passed, AdmissionInv, AdmissionTypeOK
      <3> QED BY <1>0, <3>1, PassedFacts, FS_RemoveElement
    <2>9. Budget'
      <3>1. /\ Cardinality(Active') + Cardinality(Passed')
                 <= Cardinality(Active) + Cardinality(Passed)
            /\ Cardinality(Admitted') + Cardinality(Passed')
                 <= Cardinality(Admitted) + Cardinality(Passed)
        BY <2>8, <2>10, <2>11, PassedFacts
      <3> QED BY <2>4, <2>10, <3>1, BudgetKept
    <2> QED BY <2>4, <2>5, <2>9, <2>10 DEF AdmissionInv
  <1> QED BY <1>3, <1>4 DEF CreateAdmitted, CreateOrder, omsVars

-----------------------------------------------------------------------------
(* Steps of the EMS and the venue.                                         *)

\* What moves a row by a legal transition makes no order active.
LEMMA RowMoves ==
  ASSUME AdmissionInv, NEW id \in OrderIds, Present(id),
         NEW new, RowStep(orders[id], new),
         orders' = [orders EXCEPT ![id] = new],
         UNCHANGED <<initialized, counter, reconciled, running, configVars, submitter>>
  PROVE  AdmissionInv'
  <1>1. /\ orders' \in [OrderIds -> Entry]
        /\ \A i \in OrderIds : orders'[i] = IF i = id THEN new ELSE orders[i]
    BY DEF AdmissionInv, AdmissionTypeOK, RowStep
  <1>2. Active' \subseteq Active /\ Passed' = Passed /\ Admitted' \subseteq Admitted
    BY <1>1 DEF Active, Present, Passed, RowStep, Admitted
  <1>3. AdmissionTypeOK' /\ ConfigCoherent' /\ AtWork' /\ limits' = limits
    BY <1>1, <1>2 DEF AdmissionInv, AdmissionTypeOK, ConfigCoherent, configVars, AtWork
  <1>4. /\ IsFiniteSet(Active') /\ Cardinality(Active') <= Cardinality(Active)
        /\ Cardinality(Active') \in Nat /\ Cardinality(Active) \in Nat
    BY <1>2, FS_Subset, FS_CardinalityType DEF AdmissionInv
  <1>5. /\ Cardinality(Admitted') <= Cardinality(Admitted)
        /\ Cardinality(Admitted') \in Nat /\ Cardinality(Admitted) \in Nat
    BY <1>2, AdmittedFacts, FS_Subset, FS_CardinalityType DEF AdmissionInv
  <1>6. Budget'
    BY <1>2, <1>3, <1>4, <1>5, PassedFacts, BudgetKept
  <1> QED BY <1>3, <1>4, <1>6 DEF AdmissionInv

\* Nothing changes but identifiers of trades already applied.
LEMMA NothingMoves ==
  ASSUME AdmissionInv,
         UNCHANGED <<orders, initialized, counter, reconciled, running, configVars, submitter>>
  PROVE  AdmissionInv'
  <1>1. Active' = Active /\ Passed' = Passed /\ Admitted' = Admitted
    BY DEF Active, Present, Passed, Admitted
  <1> QED BY <1>1 DEF AdmissionInv, AdmissionTypeOK, ConfigCoherent, configVars, AtWork, Budget

LEMMA OrderMovesStep ==
  ASSUME AdmissionInv, NEW id \in OrderIds, OrderMoves(id)
  PROVE  AdmissionInv'
  <1>1. Present(id) /\ UNCHANGED <<running, configVars, submitter>>
    BY DEF OrderMoves
  <1>2. orders[id] \in Entry /\ orders[id].state \in Lifecycle
    BY <1>1 DEF AdmissionInv, AdmissionTypeOK, Present, Entry
  <1>3. ASSUME NEW target, RequestTransition(id, target)
        PROVE  AdmissionInv'
    <2> DEFINE new == ApplyTransition(orders[id], target)
    <2>1. RowStep(orders[id], new)
      BY <1>2, ApplyTransitionRow
    <2>2. /\ orders' = [orders EXCEPT ![id] = new]
          /\ UNCHANGED <<initialized, counter, reconciled>>
      BY <1>1, <1>3 DEF RequestTransition, OnlyOrders
    <2> HIDE DEF new
    <2> QED BY <1>1, <2>1, <2>2, RowMoves
  <1>4. ASSUME ApplyTradeReport(Fill(id))
        PROVE  AdmissionInv'
    <2> DEFINE t   == Fill(id)
               new == Traded(orders[id], t)
    <2>1. Find(t.order_id, t.client) = id /\ t.volume \in Nat
      BY <1>1 DEF Fill, Find
    <2>2. CASE TradeAccepted(id, t)
      <3>1. CanTransition(orders[id].state, TradeState(orders[id], t))
        BY <2>2 DEF TradeAccepted
      <3>2. /\ orders' = [orders EXCEPT ![id] = new]
            /\ UNCHANGED <<initialized, counter, reconciled>>
        BY <1>4, <2>1, <2>2 DEF ApplyTradeReport
      <3> HIDE DEF t
      <3>3. RowStep(orders[id], new)
        BY <1>2, <2>1, <3>1, TradedRow
      <3> HIDE DEF new
      <3> QED BY <1>1, <3>2, <3>3, RowMoves
    <2>3. CASE ~TradeAccepted(id, t)
      <3>1. UNCHANGED omsVars
        BY <1>4, <2>1, <2>3 DEF ApplyTradeReport
      <3> QED BY <1>1, <3>1, NothingMoves DEF omsVars
    <2> QED BY <2>2, <2>3
  <1>5. ASSUME ApplyOrderReport(Refusal(id))
        PROVE  AdmissionInv'
    <2> DEFINE r   == Refusal(id)
               new == Merged(orders[id], r)
    <2>1. Find(r.order_id, r.client) = id
      BY <1>1 DEF Refusal, Find
    <2>2. r \in OrderReport
      BY <1>2 DEF Refusal, OrderReport, Entry, Statuses
    <2>3. id # NoId
      BY ConstantsAssumption DEF OrderIds, LocalIds, NoId
    <2>4. /\ orders' = [orders EXCEPT ![id] = new]
          /\ UNCHANGED <<initialized, counter, reconciled>>
      BY <1>5, <2>1, <2>3 DEF ApplyOrderReport, OnlyOrders
    <2> HIDE DEF r
    <2>5. RowStep(orders[id], new)
      BY <1>2, <2>2, MergedRow
    <2> HIDE DEF new
    <2> QED BY <1>1, <2>4, <2>5, RowMoves
  <1> QED BY <1>3, <1>4, <1>5 DEF OrderMoves, MarkEmsQueued, MarkSendPending

-----------------------------------------------------------------------------
(* The theorems.                                                           *)

LEMMA AdmissionInitially == AdmissionInit => AdmissionInv
  <1> SUFFICES ASSUME AdmissionInit PROVE AdmissionInv
    OBVIOUS
  <1>1. /\ runtime = NoConfig /\ limits = LimitsOf(NoConfig) /\ rules = RulesOf(NoConfig)
        /\ subscribed = NoConfig.instruments
        /\ submitter = [s \in Submitters |-> Idle] /\ ~running /\ running \in BOOLEAN
        /\ initialized \in BOOLEAN /\ counter = 0 /\ orders = [i \in OrderIds |-> Absent]
    BY DEF AdmissionInit, Init, EmptyTables, NoConfig
  <1>2. Absent \in Entry /\ Absent.state = "Absent"
    BY DEF Absent, Entry, Statuses
  <1>3. AdmissionTypeOK /\ ConfigCoherent
    BY <1>1, <1>2, NoConfigIsConfig, IdleTyped DEF AdmissionTypeOK, ConfigCoherent
  <1>5. Active = {} /\ IsFiniteSet(Active)
    BY <1>1, <1>2, FS_EmptySet DEF Active, Present
  <1>4. AtWork
    BY <1>1, <1>5, IdleTyped DEF AtWork
  <1>6. LimitsOf(NoConfig).max_open_orders = 0
    BY DEF LimitsOf, NoConfig
  <1>7. Budget
    BY <1>1, <1>6 DEF Budget
  <1> QED BY <1>3, <1>4, <1>5, <1>7 DEF AdmissionInv

VersionsStep ==
  /\ runtime.version <= runtime'.version
  /\ limits.version <= limits'.version
  /\ rules.version <= rules'.version

LEMMA AdmissionStep ==
  AdmissionInv /\ [AdmissionNext]_admissionVars => AdmissionInv' /\ VersionsStep
  <1> SUFFICES ASSUME AdmissionInv, [AdmissionNext]_admissionVars
               PROVE  AdmissionInv' /\ VersionsStep
    OBVIOUS
  <1>1. CASE EngineInit
    <2>1. VersionsStep
      BY <1>1, ConfigStep DEF EngineInit, AdmissionInv, VersionsStep
    <2> QED BY <1>1, <2>1, InitStep
  <1>2. ASSUME UNCHANGED configVars
        PROVE  VersionsStep
    BY <1>2, ConfigKept DEF AdmissionInv, VersionsStep
  <1>3. CASE SyncBrokerSnapshot \/ EngineStart \/ EngineStop
    BY <1>2, <1>3, SyncStep, StartStep, StopStep DEF SyncBrokerSnapshot, EngineStart, EngineStop
  <1>4. ASSUME NEW s \in Submitters, Submit(s)
        PROVE  AdmissionInv' /\ VersionsStep
    <2>1. UNCHANGED configVars
      BY <1>4 DEF Submit, SubmitBatch, CheckRules, CopyLimits, CountOrders, AddNotional,
                  AllocateAdmitted, CreateAdmitted, OnlySubmitter
    <2>2. AdmissionInv'
      BY <1>4, SubmitBatchStep, CheckRulesStep, CopyLimitsStep, CountOrdersStep,
         AddNotionalStep, AllocateStepAdmitted, CreateStepAdmitted DEF Submit
    <2> QED BY <1>2, <2>1, <2>2
  <1>5. ASSUME NEW id \in OrderIds, OrderMoves(id)
        PROVE  AdmissionInv' /\ VersionsStep
    BY <1>2, <1>5, OrderMovesStep DEF OrderMoves
  <1>6. CASE UNCHANGED admissionVars
    BY <1>2, <1>6, NothingMoves DEF admissionVars, omsVars
  <1> QED BY <1>1, <1>3, <1>4, <1>5, <1>6 DEF AdmissionNext

\* The invariant holds in every behaviour of admission: types, configuration,
\* the threads at work and the budget of open orders.
THEOREM AdmissionInvariant == AdmissionSpec => []AdmissionInv
  BY AdmissionInitially, AdmissionStep, PTL DEF AdmissionSpec

\* The engine's configuration, the OMS's rows and the submitting threads keep
\* their types.
THEOREM AdmissionTypesKept == AdmissionSpec => []AdmissionTypeOK
  BY AdmissionInvariant, PTL DEF AdmissionInv

\* Limits, rules, runtime configuration and subscriptions always stem from one
\* configuration, whatever the config service answers.
THEOREM ConfigStaysCoherent == AdmissionSpec => []ConfigCoherent
  BY AdmissionInvariant, PTL DEF AdmissionInv

\* No sequence of sessions takes the configuration, its limits or its rules back
\* to an older version.
THEOREM VersionsNeverGoBack == AdmissionSpec => VersionsAdvance
  BY AdmissionInvariant, AdmissionStep, PTL DEF AdmissionSpec, VersionsAdvance, VersionsStep

\* Any number of threads that submit at once overrun the limit of open orders by
\* less than their number, unless the venue's own, adopted at start, do: then
\* those threads have fewer orders than that among the active ones.
THEOREM OpenOrdersStayBounded == AdmissionSpec => []OpenOrdersBounded
  <1>1. AdmissionInv => OpenOrdersBounded
    <2> SUFFICES ASSUME AdmissionInv, limits.max_open_orders > 0
                 PROVE  \/ Cardinality(Active)
                             <= limits.max_open_orders + Cardinality(Submitters) - 1
                        \/ Cardinality(Admitted) <= Cardinality(Submitters) - 1
      BY DEF OpenOrdersBounded, GetActiveOrderCount
    <2>1. Cardinality(Admitted) \in Nat /\ Cardinality(Active) \in Nat
      BY AdmittedFacts DEF AdmissionInv
    <2> QED BY <2>1, PassedFacts, LimitFacts DEF AdmissionInv, Budget
  <1> QED BY <1>1, AdmissionInvariant, PTL

-----------------------------------------------------------------------------
(* The notional.                                                           *)

\* What the sums are over, and that they are numbers.
NotionalTyped ==
  /\ limits.max_notional \in Int /\ limits.safety_buffer \in Int /\ Room \in Int
  /\ IsFiniteSet(Active) /\ IsFiniteSet(Holders)
  /\ \A id \in OrderIds : LeftVolumes[id] \in Nat /\ LeftVolumes[id] = orders[id].left
  /\ \A s \in Submitters : Held[s] \in Nat /\ Held[s] = submitter[s].request.volume
  /\ GetOpenNotional \in Nat /\ SumFunctionOnSet(Held, Holders) \in Nat
  /\ Admitted \subseteq Active /\ IsFiniteSet(Admitted)
  /\ SumFunctionOnSet(LeftVolumes, Admitted) \in Nat

LEMMA NotionalFacts == AdmissionInv => NotionalTyped
  <1> SUFFICES ASSUME AdmissionInv PROVE NotionalTyped
    OBVIOUS
  <1>1. limits.max_notional \in Int /\ limits.safety_buffer \in Int /\ Room \in Int
    BY LimitFacts DEF AdmissionInv, Limits, Room
  <1>2. IsFiniteSet(Active) /\ IsFiniteSet(Holders)
    BY AdmissionAssumption, FS_Subset DEF AdmissionInv, Holders
  <1>3. \A id \in OrderIds : LeftVolumes[id] \in Nat /\ LeftVolumes[id] = orders[id].left
    BY DEF AdmissionInv, AdmissionTypeOK, LeftVolumes, Entry
  <1>4. \A s \in Submitters : Held[s] \in Nat /\ Held[s] = submitter[s].request.volume
    <2> SUFFICES ASSUME NEW s \in Submitters
                 PROVE  submitter[s].request.volume \in Nat
      BY DEF Held
    <2>1. PICK r \in Request \cup {NoRequest} : r = submitter[s].request
      BY DEF AdmissionInv, AdmissionTypeOK, SubmitState
    <2>2. NoRequest.volume = 0 /\ Volumes \subseteq Nat
      BY ConstantsAssumption DEF NoRequest
    <2>3. CASE r \in Request
      BY <2>1, <2>2, <2>3 DEF Request
    <2> QED BY <2>1, <2>2, <2>3
  <1>5. GetOpenNotional \in Nat
    <2>1. \A id \in Active : LeftVolumes[id] \in Nat
      BY <1>3 DEF Active
    <2> QED BY <1>2, <2>1, SumNat DEF GetOpenNotional
  <1>6. SumFunctionOnSet(Held, Holders) \in Nat
    <2>1. \A s \in Holders : Held[s] \in Nat
      BY <1>4 DEF Holders
    <2> QED BY <1>2, <2>1, SumNat
  <1>7. Admitted \subseteq Active /\ IsFiniteSet(Admitted)
    BY <1>2, FS_Subset DEF Admitted
  <1>8. SumFunctionOnSet(LeftVolumes, Admitted) \in Nat
    <2>1. \A id \in Admitted : LeftVolumes[id] \in Nat
      BY <1>3, <1>7 DEF Active
    <2> QED BY <1>7, <2>1, SumNat
  <1> QED BY <1>1, <1>2, <1>3, <1>4, <1>5, <1>6, <1>7, <1>8 DEF NotionalTyped

LEMMA NotionalFactsNext == AdmissionInv' => NotionalTyped'
  BY NotionalFacts, PTL

\* The limit's share for every thread is itself a number.
LEMMA RoomFacts ==
  ASSUME AdmissionInv, RoomBesideBuffer, limits.max_notional > 0
  PROVE  /\ Room \in Nat /\ Cardinality(Submitters) * Room \in Nat
         /\ (Cardinality(Submitters) - 1) * Room \in Nat
  <1>1. Room \in Nat
    BY NotionalFacts DEF NotionalTyped, RoomBesideBuffer, Room
  <1>2. \A a, b \in Nat : a * b \in Nat
    OBVIOUS
  <1>3. Cardinality(Submitters) \in Nat /\ Cardinality(Submitters) - 1 \in Nat
    BY PassedFacts
  <1> QED BY <1>1, <1>2, <1>3

RoomForAll ==
  RoomBesideBuffer /\ limits.max_notional > 0 =>
    /\ Cardinality(Submitters) * Room \in Nat
    /\ (Cardinality(Submitters) - 1) * Room \in Nat

LEMMA RoomFactsNext == AdmissionInv' => RoomForAll'
  <1>1. AdmissionInv => RoomForAll
    BY RoomFacts DEF RoomForAll
  <1> QED BY <1>1, PTL

\* A step that commits no more than there was keeps the invariant.
LEMMA CommitsNoMore ==
  ASSUME AdmissionInv, AdmissionInv', NotionalInv, RowsAddUp', limits' = limits,
         Committed' <= Committed, OwnCommitted' <= OwnCommitted,
         \A s \in Holders' : s \in Holders /\ Held'[s] = Held[s]
  PROVE  NotionalInv'
  <1>1. Room' = Room /\ RoomBesideBuffer'
    BY DEF Room, NotionalInv, RoomBesideBuffer
  <1>2. CASE limits.max_notional > 0
    <2>1. \A s \in Holders' : Held'[s] <= Room'
      BY <1>1, <1>2 DEF NotionalInv
    <2>2. /\ Committed \in Int /\ Committed' \in Int
          /\ OwnCommitted \in Int /\ OwnCommitted' \in Int
      BY NotionalFacts, NotionalFactsNext DEF Committed, OwnCommitted, NotionalTyped
    <2>3. PICK all \in Int, others \in Int :
            /\ all = Cardinality(Submitters) * Room
            /\ others = (Cardinality(Submitters) - 1) * Room
      BY <1>2, RoomFacts DEF NotionalInv
    <2>4. Committed <= all \/ OwnCommitted <= others
      BY <1>2, <2>3 DEF NotionalInv
    <2>5. Committed' <= all \/ OwnCommitted' <= others
      BY <2>2, <2>3, <2>4
    <2> QED BY <1>1, <2>1, <2>3, <2>5 DEF NotionalInv
  <1>3. CASE ~(limits.max_notional > 0)
    BY <1>1, <1>3 DEF NotionalInv
  <1> QED BY <1>2, <1>3

\* A thread moves on without passing the limit, the orders stay.
LEMMA ThreadCommitsNoMore ==
  ASSUME AdmissionInv, AdmissionInv', NotionalInv, limits' = limits, orders' = orders,
         reconciled' = reconciled,
         \A s \in Holders' : s \in Holders /\ Held'[s] = Held[s]
  PROVE  NotionalInv'
  <1>1. /\ RowsAddUp' /\ GetOpenNotional' = GetOpenNotional
        /\ SumFunctionOnSet(LeftVolumes, Admitted)' = SumFunctionOnSet(LeftVolumes, Admitted)
    BY DEF NotionalInv, RowsAddUp, GetOpenNotional, LeftVolumes, Active, Present, Admitted
  <1>2. SumFunctionOnSet(Held', Holders') <= SumFunctionOnSet(Held, Holders)
    <2>1. Holders' \in SUBSET Holders /\ \A s \in Holders' : Held'[s] <= Held[s]
      BY NotionalFacts DEF NotionalTyped, Holders
    <2>2. \A s \in Holders : Held'[s] \in Nat /\ Held[s] \in Nat
      BY NotionalFacts, NotionalFactsNext DEF NotionalTyped, Holders
    <2> QED BY <2>1, <2>2, NotionalFacts, SumShrinks DEF NotionalTyped
  <1>3. Committed' <= Committed /\ OwnCommitted' <= OwnCommitted
    BY <1>1, <1>2, NotionalFacts, NotionalFactsNext DEF NotionalTyped, Committed, OwnCommitted
  <1> QED BY <1>1, <1>3, CommitsNoMore

\* A row is moved on, and has no more left than before.
LEMMA RowCommitsNoMore ==
  ASSUME AdmissionInv, AdmissionInv', NotionalInv, NEW id \in OrderIds,
         NEW new, RowStep(orders[id], new), Present(id), new.left <= orders[id].left,
         new.left = new.volume - new.traded,
         orders' = [orders EXCEPT ![id] = new], reconciled' = reconciled,
         limits' = limits, submitter' = submitter
  PROVE  NotionalInv'
  <1>1. \A i \in OrderIds : orders'[i] = IF i = id THEN new ELSE orders[i]
    BY DEF AdmissionInv, AdmissionTypeOK
  <1>2. RowsAddUp' /\ Active' \in SUBSET Active
    BY <1>1 DEF NotionalInv, RowsAddUp, Active, Present, RowStep
  <1>3. Holders' = Holders /\ Held' = Held
    BY DEF Holders, Held
  <1>4. ASSUME NEW A \in SUBSET Active, NEW B \in SUBSET Active', B \in SUBSET A, IsFiniteSet(A)
        PROVE  SumFunctionOnSet(LeftVolumes', B) <= SumFunctionOnSet(LeftVolumes, A)
    <2>1. \A i \in B : LeftVolumes'[i] <= LeftVolumes[i]
      BY <1>1, NotionalFacts, NotionalFactsNext DEF NotionalTyped, Active
    <2>2. \A i \in A : LeftVolumes'[i] \in Nat /\ LeftVolumes[i] \in Nat
      BY NotionalFacts, NotionalFactsNext DEF NotionalTyped, Active
    <2> QED BY <1>4, <2>1, <2>2, SumShrinks
  <1>5. GetOpenNotional' <= GetOpenNotional
    BY <1>2, <1>4, NotionalFacts DEF NotionalTyped, GetOpenNotional
  <1>6. SumFunctionOnSet(LeftVolumes, Admitted)' <= SumFunctionOnSet(LeftVolumes, Admitted)
    <2>1. /\ Admitted \in SUBSET Active /\ Admitted' \in SUBSET Active'
          /\ Admitted' \in SUBSET Admitted /\ IsFiniteSet(Admitted)
      BY <1>2, NotionalFacts DEF NotionalTyped, Admitted
    <2> QED BY <1>4, <2>1
  <1>7. Committed' <= Committed /\ OwnCommitted' <= OwnCommitted
    BY <1>3, <1>5, <1>6, NotionalFacts, NotionalFactsNext
    DEF NotionalTyped, Committed, OwnCommitted
  <1> QED BY <1>2, <1>3, <1>7, CommitsNoMore

\* Passing the limit commits the request's volume, for which there is room: all
\* the others hold no more than a share each.
LEMMA PassCommits ==
  ASSUME AdmissionInv, AdmissionInv', NotionalInv, NEW s \in Submitters,
         submitter[s].pc = "notional",
         submitter' = [submitter EXCEPT ![s] = [submitter[s] EXCEPT !.pc = "allocate"]],
         limits' = limits, orders' = orders,
         limits.max_notional > 0 => GetOpenNotional + submitter[s].request.volume <= Room
  PROVE  NotionalInv'
  <1>1. /\ RowsAddUp' /\ RoomBesideBuffer' /\ GetOpenNotional' = GetOpenNotional /\ Room' = Room
    BY DEF NotionalInv, RowsAddUp, RoomBesideBuffer, GetOpenNotional, LeftVolumes, Active,
           Present, Room
  <1>2. CASE limits.max_notional > 0
    <2>1. Room \in Nat /\ RoomBesideBuffer
      BY <1>2, RoomFacts DEF NotionalInv
    <2>2. /\ s \notin Holders /\ Holders \subseteq Submitters
          /\ Holders' = Holders \cup {s} /\ Held' = Held
      BY DEF Holders, Held, AdmissionInv, AdmissionTypeOK, SubmitState
    <2>3. PICK open \in Nat, mine \in Nat, rest \in Nat :
            /\ open = GetOpenNotional /\ mine = Held[s]
            /\ rest = SumFunctionOnSet(Held, Holders)
      BY NotionalFacts DEF NotionalTyped
    <2>4. open + mine <= Room
      BY <1>2, <2>3, NotionalFacts DEF NotionalTyped
    <2>5. \A x \in Holders' : Held'[x] <= Room'
      BY <1>1, <1>2, <2>1, <2>2, <2>3, <2>4 DEF NotionalInv
    <2>6. SumFunctionOnSet(Held', Holders') = mine + rest
      <3>1. \A x \in Holders' : Held[x] \in Int
        BY <2>2, NotionalFacts DEF NotionalTyped
      <3>2. s \in Holders' /\ Holders' \ {s} = Holders /\ IsFiniteSet(Holders')
        BY <2>2, NotionalFactsNext DEF NotionalTyped
      <3>3. SumFunctionOnSet(Held, Holders') = Held[s] + SumFunctionOnSet(Held, Holders' \ {s})
        BY <3>1, <3>2, SumRemove
      <3> QED BY <2>2, <2>3, <3>2, <3>3
    <2>7. PICK n \in Nat, k \in Nat :
            n = Cardinality(Submitters) /\ k = Cardinality(Holders) /\ k + 1 <= n
      <3>1. IsFiniteSet(Holders \cup {s}) /\ IsFiniteSet(Holders)
        BY <2>2, NotionalFacts, NotionalFactsNext DEF NotionalTyped
      <3>2. Cardinality(Holders \cup {s}) = Cardinality(Holders) + 1
        BY <2>2, <3>1, FS_AddElement
      <3>3. Cardinality(Holders \cup {s}) <= Cardinality(Submitters)
        BY <2>2, AdmissionAssumption, FS_Subset
      <3> QED BY <3>1, <3>2, <3>3, PassedFacts, FS_CardinalityType
    <2>8. rest <= k * Room
      <3>1. \A x \in Holders : Held[x] \in Int /\ Held[x] <= Room
        BY <1>2, <2>2, NotionalFacts DEF NotionalTyped, NotionalInv
      <3> QED BY <2>1, <2>3, <2>7, <3>1, NotionalFacts, SumBound DEF NotionalTyped
    <2>9. k * Room + Room <= n * Room
      <3>1. \A a, b, c \in Nat : a + 1 <= b => a * c + c <= b * c
        <4>1. ASSUME NEW a \in Nat, NEW b \in Nat, NEW c \in Nat, a + 1 <= b
              PROVE  a * c + c <= b * c
          <5>1. PICK d \in Nat : b = a + 1 + d
            <6>1. b - (a + 1) \in Nat
              BY <4>1
            <6> QED BY <6>1
          <5>2. b * c = a * c + c + d * c
            BY <5>1
          <5>3. d * c \in Nat /\ a * c \in Nat
            OBVIOUS
          <5> QED BY <5>2, <5>3
        <4> QED BY <4>1
      <3> QED BY <2>1, <2>7, <3>1
    <2>10. k * Room \in Int /\ n * Room \in Int
      BY <2>1
    <2>11. open + (mine + rest) <= n * Room
      BY <2>1, <2>4, <2>8, <2>9, <2>10
    <2>12. Committed' <= Cardinality(Submitters) * Room'
      BY <1>1, <2>3, <2>6, <2>7, <2>11 DEF Committed
    <2> QED BY <1>1, <2>5, <2>12 DEF NotionalInv
  <1>3. CASE ~(limits.max_notional > 0)
    BY <1>1, <1>3 DEF NotionalInv
  <1> QED BY <1>2, <1>3

\* Creating turns what the thread held into what is open.
LEMMA CreateCommitsNoMore ==
  ASSUME AdmissionInv, AdmissionInv', NotionalInv, NEW s \in Submitters, NEW id,
         submitter[s].pc = "create",
         NEW state, state.pc \notin {"allocate", "create"},
         submitter' = [submitter EXCEPT ![s] = state],
         orders' = [orders EXCEPT ![id] = NewEntry(submitter[s].request)],
         reconciled' = reconciled, limits' = limits
  PROVE  NotionalInv'
  <1> DEFINE req == submitter[s].request
  <1>1. \A i \in OrderIds : orders'[i] = IF i = id THEN NewEntry(req) ELSE orders[i]
    BY DEF AdmissionInv, AdmissionTypeOK
  <1>2. /\ NewEntry(req).left = req.volume /\ NewEntry(req).volume = req.volume
        /\ NewEntry(req).traded = 0 /\ req.volume \in Nat /\ req.volume = Held[s]
    BY NotionalFacts DEF NewEntry, Absent, NotionalTyped
  <1> HIDE DEF req
  <1>3. RowsAddUp'
    BY <1>1, <1>2 DEF NotionalInv, RowsAddUp
  <1>4. /\ s \in Holders /\ Holders' = Holders \ {s}
        /\ \A x \in Holders : x # s => Held'[x] = Held[x]
    BY DEF Holders, Held, AdmissionInv, AdmissionTypeOK
  <1>5. SumFunctionOnSet(Held', Holders') = SumFunctionOnSet(Held, Holders) - Held[s]
    <2>1. \A x \in Holders : Held[x] \in Int
      BY NotionalFacts DEF NotionalTyped, Holders
    <2>2. IsFiniteSet(Holders)
      BY NotionalFacts DEF NotionalTyped
    <2>3. SumFunctionOnSet(Held', Holders \ {s}) = SumFunctionOnSet(Held, Holders) - Held[s]
      BY <1>4, <2>1, <2>2, SumWithout
    <2> QED BY <1>4, <2>3
  <1>6. ASSUME NEW A \in SUBSET Active, NEW B \in SUBSET Active', B \in SUBSET (A \cup {id}),
               IsFiniteSet(A), id \notin OrderIds => B = A
        PROVE  SumFunctionOnSet(LeftVolumes', B) <= SumFunctionOnSet(LeftVolumes, A) + Held[s]
    <2> DEFINE all == A \cup {id}
    <2>0. A \subseteq OrderIds /\ \A i \in A : LeftVolumes'[i] \in Nat /\ LeftVolumes[i] \in Nat
      BY NotionalFacts, NotionalFactsNext DEF NotionalTyped, Active
    <2>1. CASE id \in OrderIds
      <3>1. B \in SUBSET all /\ all \subseteq OrderIds /\ id \in all
        BY <1>6, <2>0, <2>1
      <3>2. IsFiniteSet(all)
        BY <1>6, FS_AddElement
      <3>3. \A i \in all : LeftVolumes'[i] \in Nat /\ LeftVolumes'[i] \in Int
        BY <3>1, NotionalFactsNext DEF NotionalTyped
      <3>4. LeftVolumes'[id] = Held[s]
        BY <1>1, <1>2, <2>1, NotionalFactsNext DEF NotionalTyped
      <3>7. SumFunctionOnSet(LeftVolumes', all \ {id}) <= SumFunctionOnSet(LeftVolumes, A)
        <4>1. /\ all \ {id} \in SUBSET A
              /\ \A i \in all \ {id} : LeftVolumes'[i] <= LeftVolumes[i]
          BY <1>1, <3>1, NotionalFacts, NotionalFactsNext DEF NotionalTyped, all
        <4> HIDE DEF all
        <4> QED BY <1>6, <2>0, <4>1, SumShrinks
      <3> HIDE DEF all
      <3>5. SumFunctionOnSet(LeftVolumes', B) <= SumFunctionOnSet(LeftVolumes', all)
        BY <3>1, <3>2, <3>3, SumShrinks
      <3>6. SumFunctionOnSet(LeftVolumes', all)
              = Held[s] + SumFunctionOnSet(LeftVolumes', all \ {id})
        BY <3>1, <3>2, <3>3, <3>4, SumRemove
      <3>8. /\ SumFunctionOnSet(LeftVolumes', all \ {id}) \in Int /\ Held[s] \in Int
            /\ SumFunctionOnSet(LeftVolumes, A) \in Int
            /\ SumFunctionOnSet(LeftVolumes', B) \in Int
        <4>1. IsFiniteSet(all \ {id}) /\ \A i \in all \ {id} : LeftVolumes'[i] \in Int
          BY <3>2, <3>3, FS_RemoveElement, FS_Subset
        <4>2. IsFiniteSet(B) /\ \A i \in B : LeftVolumes'[i] \in Int
          BY <3>1, <3>2, <3>3, FS_Subset
        <4>3. \A i \in A : LeftVolumes[i] \in Int
          BY <2>0
        <4> QED BY <4>1, <4>2, <4>3, <1>2, <1>6, SumType
      <3> QED BY <3>5, <3>6, <3>7, <3>8
    <2>2. CASE id \notin OrderIds
      <3>1. LeftVolumes' = LeftVolumes /\ B = A
        BY <1>1, <1>6, <2>2 DEF LeftVolumes
      <3>2. SumFunctionOnSet(LeftVolumes, A) \in Int
        BY <1>6, <2>0, SumNat
      <3> QED BY <1>2, <3>1, <3>2
    <2> QED BY <2>1, <2>2
  <1>7. Active' \in SUBSET (Active \cup {id}) /\ (id \notin OrderIds => Active' = Active)
    BY <1>1 DEF Active, Present
  <1>8. GetOpenNotional' <= GetOpenNotional + Held[s]
    BY <1>6, <1>7, NotionalFacts DEF GetOpenNotional, NotionalTyped
  <1>9. SumFunctionOnSet(LeftVolumes, Admitted)'
          <= SumFunctionOnSet(LeftVolumes, Admitted) + Held[s]
    <2>1. /\ Admitted \in SUBSET Active /\ Admitted' \in SUBSET Active'
          /\ Admitted' \in SUBSET (Admitted \cup {id}) /\ IsFiniteSet(Admitted)
          /\ id \notin OrderIds => Admitted' = Admitted
      BY <1>7, NotionalFacts DEF NotionalTyped, Admitted
    <2> QED BY <1>6, <2>1
  <1>10. Committed' <= Committed /\ OwnCommitted' <= OwnCommitted
    BY <1>2, <1>5, <1>8, <1>9, NotionalFacts, NotionalFactsNext
    DEF NotionalTyped, Committed, OwnCommitted
  <1> QED BY <1>3, <1>4, <1>10, CommitsNoMore

\* A submission's step: only passing the limit and creating change what is
\* committed.
LEMMA SubmitNotional ==
  ASSUME AdmissionInv, AdmissionInv', NotionalInv, NEW s \in Submitters, Submit(s)
  PROVE  NotionalInv'
  <1>1. /\ limits' = limits /\ submitter \in [Submitters -> SubmitState]
        /\ submitter[s] \in SubmitState
    BY DEF Submit, SubmitBatch, CheckRules, CopyLimits, CountOrders, AddNotional,
           AllocateAdmitted, CreateAdmitted, OnlySubmitter, configVars, AdmissionInv,
           AdmissionTypeOK
  <1>1a. reconciled' = reconciled
    BY DEF Submit, SubmitBatch, CheckRules, CopyLimits, CountOrders, AddNotional,
           AllocateAdmitted, AllocateOrderId, CreateAdmitted, CreateOrder, omsVars
  <1>2. ASSUME NEW state, submitter' = [submitter EXCEPT ![s] = state], orders' = orders,
               \/ state.pc \notin {"allocate", "create"}
               \/ s \in Holders /\ state.request = submitter[s].request
        PROVE  NotionalInv'
    <2>1. \A x \in Holders' : x \in Holders /\ Held'[x] = Held[x]
      BY <1>1, <1>2 DEF Holders, Held
    <2> QED BY <1>1a, <1>1, <1>2, <2>1, ThreadCommitsNoMore
  <1>3. CASE SubmitBatch(s)
    <2>1. PICK n \in 1..BatchSize : Goes(s, "idle", [Idle EXCEPT !.pc = "next", !.left = n])
      BY <1>3 DEF SubmitBatch
    <2> DEFINE state == [Idle EXCEPT !.pc = "next", !.left = n]
    <2>2. submitter' = [submitter EXCEPT ![s] = state] /\ orders' = orders
      BY <1>3, <2>1 DEF SubmitBatch, Goes, omsVars
    <2>3. state.pc = "next"
      <3>1. n \in Int
        OBVIOUS
      <3> QED BY <3>1, IdleAgain
    <2> HIDE DEF state
    <2> QED BY <1>2, <2>2, <2>3
  <1>4. CASE CheckRules(s)
    <2>1. PICK r \in Request :
            \/ Goes(s, "next", [submitter[s] EXCEPT !.pc = "limits", !.request = r])
            \/ Goes(s, "next", Idle)
      BY <1>4 DEF CheckRules
    <2>2. PICK state : state.pc \in {"limits", "idle"} /\ Goes(s, "next", state)
      <3> DEFINE passes == [submitter[s] EXCEPT !.pc = "limits", !.request = r]
      <3>1. passes.pc = "limits"
        BY <1>1 DEF SubmitState
      <3>2. Goes(s, "next", passes) \/ Goes(s, "next", Idle)
        BY <2>1
      <3> HIDE DEF passes
      <3> QED BY <3>1, <3>2, IdleTyped
    <2>3. submitter' = [submitter EXCEPT ![s] = state] /\ orders' = orders
      BY <1>4, <2>2 DEF CheckRules, Goes, omsVars
    <2> QED BY <1>2, <2>2, <2>3
  <1>5. CASE CopyLimits(s)
    <2>1. PICK state : state.pc \in {"count", "idle"} /\ Goes(s, "limits", state)
      <3> DEFINE copied == [submitter[s] EXCEPT !.pc = "count", !.limits = limits]
      <3>1. copied.pc = "count"
        BY <1>1 DEF SubmitState
      <3>2. Goes(s, "limits", Idle) \/ Goes(s, "limits", copied)
        BY <1>5 DEF CopyLimits
      <3> HIDE DEF copied
      <3> QED BY <3>1, <3>2, IdleTyped
    <2>2. submitter' = [submitter EXCEPT ![s] = state] /\ orders' = orders
      BY <1>5, <2>1 DEF CopyLimits, Goes, omsVars
    <2> QED BY <1>2, <2>1, <2>2
  <1>6. CASE CountOrders(s)
    <2>1. PICK state : state.pc \in {"notional", "idle"} /\ Goes(s, "count", state)
      BY <1>1, <1>6, IdleTyped DEF CountOrders, SubmitState
    <2>2. submitter' = [submitter EXCEPT ![s] = state] /\ orders' = orders
      BY <1>6, <2>1 DEF CountOrders, Goes, omsVars
    <2> QED BY <1>2, <2>1, <2>2
  <1>7. CASE AddNotional(s)
    <2> DEFINE refused == /\ limits.max_notional > 0
                          /\ GetOpenNotional + submitter[s].request.volume
                               > limits.max_notional - limits.safety_buffer
    <2>1. submitter[s].pc = "notional" /\ submitter[s].limits = limits /\ orders' = orders
      BY <1>7 DEF AddNotional, Goes, AdmissionInv, AtWork, omsVars
    <2>2. submitter' = [submitter EXCEPT ![s] =
                          IF refused THEN Idle ELSE [submitter[s] EXCEPT !.pc = "allocate"]]
      BY <1>7, <2>1 DEF AddNotional, Goes
    <2>3. CASE refused
      BY <1>2, <2>1, <2>2, <2>3, IdleTyped
    <2>4. CASE ~refused
      <3>1. limits.max_notional > 0 =>
              GetOpenNotional + submitter[s].request.volume <= Room
        BY <2>4, NotionalFacts DEF NotionalTyped, Room
      <3>2. submitter' = [submitter EXCEPT ![s] = [submitter[s] EXCEPT !.pc = "allocate"]]
        BY <2>2, <2>4
      <3> QED BY <1>1, <2>1, <3>1, <3>2, PassCommits
    <2> QED BY <2>3, <2>4
  <1>8. CASE AllocateAdmitted(s)
    <2> DEFINE goes == [submitter[s] EXCEPT !.pc = "create", !.order_id = NextId]
    <2>1. s \in Holders /\ orders' = orders /\ goes.request = submitter[s].request
      BY <1>1, <1>8 DEF AllocateAdmitted, Goes, Holders, omsVars, AllocateOrderId, SubmitState
    <2>2. \/ submitter' = [submitter EXCEPT ![s] = AfterOrder(s)]
          \/ submitter' = [submitter EXCEPT ![s] = goes]
      BY <1>8 DEF AllocateAdmitted, Goes
    <2> HIDE DEF goes
    <2> QED BY <1>2, <2>1, <2>2, AfterOrderTyped
  <1>9. CASE CreateAdmitted(s)
    <2>1. PICK state : /\ state.pc \notin {"allocate", "create"}
                       /\ submitter' = [submitter EXCEPT ![s] = state]
      BY <1>9, IdleTyped, AfterOrderTyped DEF CreateAdmitted, Goes
    <2>2. \/ orders' = orders
          \/ orders' = [orders EXCEPT ![submitter[s].order_id] = NewEntry(submitter[s].request)]
      BY <1>9 DEF CreateAdmitted, CreateOrder, omsVars
    <2>3. submitter[s].pc = "create"
      BY <1>9 DEF CreateAdmitted, Goes
    <2> QED BY <1>1a, <1>1, <1>2, <2>1, <2>2, <2>3, CreateCommitsNoMore
  <1> QED BY <1>3, <1>4, <1>5, <1>6, <1>7, <1>8, <1>9 DEF Submit

\* The EMS and the venue move a row on; a fill takes from what is left.
LEMMA OrderMovesNotional ==
  ASSUME AdmissionInv, AdmissionInv', NotionalInv, NEW id \in OrderIds, OrderMoves(id)
  PROVE  NotionalInv'
  <1>1. /\ Present(id) /\ limits' = limits /\ submitter' = submitter
        /\ orders[id] \in Entry /\ orders[id].state \in Lifecycle
        /\ orders[id].left = orders[id].volume - orders[id].traded
    BY DEF OrderMoves, configVars, AdmissionInv, AdmissionTypeOK, Present, Entry,
           NotionalInv, RowsAddUp
  <1>1a. reconciled' = reconciled
    BY DEF OrderMoves, MarkEmsQueued, MarkSendPending, RequestTransition, ApplyTradeReport,
           ApplyOrderReport, OnlyOrders, omsVars
  <1>2. ASSUME orders' = orders PROVE NotionalInv'
    BY <1>1a, <1>1, <1>2, ThreadCommitsNoMore DEF Holders, Held
  <1>3. ASSUME NEW target, RequestTransition(id, target)
        PROVE  NotionalInv'
    <2> DEFINE new == ApplyTransition(orders[id], target)
    <2>1. RowStep(orders[id], new)
      BY <1>1, ApplyTransitionRow
    <2>2. /\ new.left = orders[id].left /\ new.volume = orders[id].volume
          /\ new.traded = orders[id].traded
      BY <1>1 DEF ApplyTransition, Entry
    <2>3. orders' = [orders EXCEPT ![id] = new]
      BY <1>1, <1>3 DEF RequestTransition
    <2>4. new.left <= orders[id].left
      BY <1>1, <2>2 DEF Entry
    <2> HIDE DEF new
    <2> QED BY <1>1a, <1>1, <2>1, <2>2, <2>3, <2>4, RowCommitsNoMore
  <1>4. ASSUME orders[id].traded < orders[id].volume, ApplyTradeReport(Fill(id))
        PROVE  NotionalInv'
    <2> DEFINE t   == Fill(id)
               new == Traded(orders[id], t)
    <2>1. Find(t.order_id, t.client) = id /\ t.volume = 1
      BY <1>1 DEF Fill, Find
    <2>2. CASE TradeAccepted(id, t)
      <3>1. /\ CanTransition(orders[id].state, TradeState(orders[id], t))
            /\ orders' = [orders EXCEPT ![id] = new]
        BY <1>4, <2>1, <2>2 DEF ApplyTradeReport, TradeAccepted
      <3> HIDE DEF t
      <3>2. RowStep(orders[id], new)
        BY <1>1, <2>1, <3>1, TradedRow
      <3>3. /\ new.traded = orders[id].traded + 1 /\ new.volume = orders[id].volume
            /\ new.left = IF orders[id].traded + 1 >= orders[id].volume THEN 0
                          ELSE orders[id].volume - (orders[id].traded + 1)
        BY <1>1, <2>1 DEF Traded, TradeTotal, Entry
      <3>4. new.left <= orders[id].left /\ new.left = new.volume - new.traded
        BY <1>1, <1>4, <3>3 DEF Entry
      <3> HIDE DEF new
      <3> QED BY <1>1a, <1>1, <3>1, <3>2, <3>4, RowCommitsNoMore
    <2>3. CASE ~TradeAccepted(id, t)
      <3>1. UNCHANGED omsVars
        BY <1>4, <2>1, <2>3 DEF ApplyTradeReport
      <3> QED BY <1>2, <3>1 DEF omsVars
    <2> QED BY <2>2, <2>3
  <1>5. ASSUME ApplyOrderReport(Refusal(id))
        PROVE  NotionalInv'
    <2> DEFINE r   == Refusal(id)
               new == Merged(orders[id], r)
    <2>1. Find(r.order_id, r.client) = id
      BY <1>1 DEF Refusal, Find
    <2>2. r \in OrderReport
      BY <1>1 DEF Refusal, OrderReport, Entry, Statuses
    <2>3. id # NoId
      BY ConstantsAssumption DEF OrderIds, LocalIds, NoId
    <2>4. orders' = [orders EXCEPT ![id] = new]
      BY <1>5, <2>1, <2>3 DEF ApplyOrderReport
    <2>5. /\ r.volume = orders[id].volume /\ r.left = orders[id].left
          /\ r.traded = orders[id].traded
      BY DEF Refusal
    <2> HIDE DEF r
    <2>6. RowStep(orders[id], new)
      BY <1>1, <2>2, MergedRow
    <2>7. /\ new.left = orders[id].left /\ new.volume = orders[id].volume
          /\ new.traded = orders[id].traded
      BY <1>1, <2>5 DEF Merged, MergeSnapshot, Entry
    <2>8. new.left <= orders[id].left
      BY <1>1, <2>7 DEF Entry
    <2> HIDE DEF new
    <2> QED BY <1>1a, <1>1, <2>4, <2>6, <2>7, <2>8, RowCommitsNoMore
  <1> QED BY <1>3, <1>4, <1>5 DEF OrderMoves, MarkEmsQueued, MarkSendPending

\* With nothing admitted and nobody submitting nothing of the engine's own is
\* committed, whatever the limits are and whatever is adopted.
LEMMA NothingCommitted ==
  ASSUME AdmissionInv', RoomBesideBuffer', RowsAddUp', Admitted' = {},
         \A s \in Submitters : submitter'[s].pc = "idle"
  PROVE  NotionalInv'
  <1>1. Holders' = {}
    BY DEF Holders
  <1>2. OwnCommitted' = 0
    BY <1>1, SumEmpty DEF OwnCommitted
  <1>3. limits'.max_notional > 0 => 0 <= (Cardinality(Submitters) - 1) * Room'
    BY RoomFactsNext DEF RoomForAll
  <1> QED BY <1>1, <1>2, <1>3 DEF NotionalInv

\* Between sessions there are no rows.
LEMMA NoRows ==
  ASSUME \A id \in OrderIds : orders'[id] = Absent
  PROVE  RowsAddUp' /\ Admitted' = {}
  BY DEF RowsAddUp, Absent, Active, Present, Admitted

LEMMA SyncNotional ==
  ASSUME AdmissionInv, AdmissionInv', NotionalInv, SyncBrokerSnapshot
  PROVE  NotionalInv'
  <1>1. \E id : \E new \in Entry :
          /\ orders' = [orders EXCEPT ![id] = new] /\ new.left = new.volume - new.traded
    BY ReconcileRow DEF AdmissionInv
  <1>2. RowsAddUp'
    BY <1>1 DEF NotionalInv, RowsAddUp, AdmissionInv, AdmissionTypeOK
  <1>3. /\ ~running' /\ RoomBesideBuffer'
        /\ \A s \in Submitters : submitter'[s].pc = "idle"
    BY DEF SyncBrokerSnapshot, configVars, NotionalInv, RoomBesideBuffer, AdmissionInv, AtWork
  <1>4. Admitted' = {}
    BY <1>3 DEF AdmissionInv, AtWork, Admitted
  <1> QED BY <1>2, <1>3, <1>4, NothingCommitted

\* Init takes only limits with room beside the buffer.
LEMMA ConfigLeavesRoom ==
  ASSUME RoomBesideBuffer, NEW c, OnEngineConfig(c)
  PROVE  RoomBesideBuffer'
  BY DEF OnEngineConfig, RiskAccepts, configVars, RoomBesideBuffer

LEMMA NotionalInitially == AdmissionInit => NotionalInv
  <1> SUFFICES ASSUME AdmissionInit PROVE NotionalInv
    OBVIOUS
  <1>1. limits.max_notional = 0 /\ orders = [i \in OrderIds |-> Absent]
    BY DEF AdmissionInit, LimitsOf, NoConfig, Init, EmptyTables
  <1>2. RowsAddUp
    BY <1>1 DEF RowsAddUp, Absent
  <1> QED BY <1>1, <1>2 DEF NotionalInv, RoomBesideBuffer

LEMMA NotionalStep ==
  AdmissionInv /\ AdmissionInv' /\ NotionalInv /\ [AdmissionNext]_admissionVars => NotionalInv'
  <1> SUFFICES ASSUME AdmissionInv, AdmissionInv', NotionalInv, [AdmissionNext]_admissionVars
               PROVE  NotionalInv'
    OBVIOUS
  <1>1. CASE EngineInit
    <2>1. RoomBesideBuffer'
      BY <1>1, ConfigLeavesRoom DEF EngineInit, NotionalInv
    <2>2. /\ \A id \in OrderIds : orders'[id] = Absent
          /\ \A s \in Submitters : submitter'[s].pc = "idle"
      BY <1>1 DEF EngineInit, Initialize, ClearTables, AdmissionInv, AtWork
    <2> QED BY <2>1, <2>2, NoRows, NothingCommitted
  <1>2. CASE EngineStop
    <2>1. RoomBesideBuffer'
      BY <1>2 DEF EngineStop, configVars, NotionalInv, RoomBesideBuffer
    <2>2. /\ \A id \in OrderIds : orders'[id] = Absent
          /\ \A s \in Submitters : submitter'[s].pc = "idle"
      BY <1>2 DEF EngineStop, Shutdown, ClearTables, Rests
    <2> QED BY <2>1, <2>2, NoRows, NothingCommitted
  <1>3. CASE EngineStart \/ UNCHANGED admissionVars
    <2>1. /\ limits' = limits /\ orders' = orders /\ submitter' = submitter
          /\ reconciled' = reconciled
      BY <1>3 DEF EngineStart, admissionVars, omsVars, configVars
    <2> QED BY <2>1, ThreadCommitsNoMore DEF Holders, Held
  <1>4. CASE \E s \in Submitters : Submit(s)
    BY <1>4, SubmitNotional
  <1>5. CASE \E id \in OrderIds : OrderMoves(id)
    BY <1>5, OrderMovesNotional
  <1> QED BY <1>1, <1>2, <1>3, <1>4, <1>5, SyncNotional DEF AdmissionNext

\* What is open and what the threads hold stay within the limit's shares, or
\* what is admitted and held within the other threads' shares of it.
THEOREM NotionalInvariant == AdmissionSpec => []NotionalInv
  BY AdmissionInvariant, NotionalInitially, NotionalStep, PTL DEF AdmissionSpec

\* Any number of threads that submit at once keep the open notional within what
\* the limit leaves beside its safety buffer, once for each of them, unless the
\* orders adopted at start exceed it: then the admitted ones stay within one
\* share less.
THEOREM OpenNotionalStaysBounded == AdmissionSpec => []OpenNotionalBounded
  <1>1. AdmissionInv /\ NotionalInv => OpenNotionalBounded
    <2> SUFFICES ASSUME AdmissionInv, NotionalInv, limits.max_notional > 0
                 PROVE  \/ GetOpenNotional <= Cardinality(Submitters) * Room
                        \/ SumFunctionOnSet(LeftVolumes, Admitted)
                             <= (Cardinality(Submitters) - 1) * Room
      BY DEF OpenNotionalBounded
    <2>1. PICK all \in Int, others \in Int :
            /\ all = Cardinality(Submitters) * Room
            /\ others = (Cardinality(Submitters) - 1) * Room
      BY RoomFacts DEF NotionalInv
    <2>2. Committed <= all \/ OwnCommitted <= others
      BY <2>1 DEF NotionalInv
    <2> QED BY <2>1, <2>2, NotionalFacts DEF NotionalTyped, Committed, OwnCommitted
  <1> QED BY <1>1, AdmissionInvariant, NotionalInvariant, PTL
=============================================================================
