--------------------------- MODULE EventReactorLoop ---------------------------
(***************************************************************************)
(* EventReactorLoop, event_bus/event_reactor_loop.cpp: the bounded queue   *)
(* with one consumer thread under Lane-Q and Lane-T.  The steps are those  *)
(* of the threads between mutex_, cv_ and the atomics: Publish holds the   *)
(* mutex for the whole insertion and notifies after it; RunOnce waits on   *)
(* cv_ with the mutex; Stop writes its two flags and notifies WITHOUT the  *)
(* mutex, so it can come between the test of the wait and the wait.        *)
(*                                                                         *)
(* One control thread starts and stops the lane, as TradingEngine does.    *)
(* An event is its number in the order of insertion and the session it was *)
(* inserted in; sessions, `cleared' and `handled' are history.  A          *)
(* definition marked "Fault:" is a bug this code could have had, which no  *)
(* behaviour uses; PROJECT.json pairs it with a property that would notice.*)
(***************************************************************************)
EXTENDS Integers, Sequences

CONSTANTS
  Producers,    \* adapter callback threads
  Policies,     \* LanePolicy values that may be set; Lane-Q drops its oldest
                \* event when full, Lane-T refuses the newest
  MaxEvents,    \* bound: calls of Publish per producer
  MaxSessions   \* bound: calls of Start

ASSUME LoopAssumption ==
  /\ Policies \subseteq [capacity : Nat \ {0}, drop_oldest : BOOLEAN]
  /\ MaxEvents \in Nat /\ MaxSessions \in Nat

VARIABLES
  policy,     \* policy_
  running,    \* running_
  accepting,  \* accepting_
  queue,      \* queue_
  dropped,    \* dropped_
  rejected,   \* rejected_
  mutex,      \* whether the consumer holds mutex_
  consumer,   \* the reactor thread: where it is in RunLoop
  publisher,  \* each producer: where it is in Publish, calls made
  control,    \* where the control thread is in Start or Stop
  session,    \* history: calls of Start
  accepted,   \* history: events Publish has answered true for
  handled,    \* history: events given to the handler
  cleared     \* history: events Stop has discarded

flags   == <<policy, running, accepting>>
history == <<session, accepted, handled, cleared>>
loopVars == <<policy, running, accepting, queue, dropped, rejected, mutex, consumer,
              publisher, control, session, accepted, handled, cleared>>

Event == [number : Nat, session : Nat]

Init ==
  /\ policy \in Policies
  /\ running = FALSE /\ accepting = FALSE
  /\ queue = <<>> /\ dropped = 0 /\ rejected = 0
  /\ mutex = FALSE
  /\ consumer = "none"
  /\ publisher = [p \in Producers |-> [pc |-> "idle", calls |-> 0]]
  /\ control = "idle"
  /\ session = 0 /\ accepted = 0 /\ handled = <<>> /\ cleared = 0

-----------------------------------------------------------------------------
(* SetLanePolicy, Start and Stop, on the control thread.                   *)

SetLanePolicy ==
  /\ control = "idle" /\ ~running
  /\ policy' \in Policies
  /\ UNCHANGED <<running, accepting, queue, dropped, rejected, mutex, consumer,
                 publisher, control, history>>

Start ==
  /\ control = "idle" /\ session < MaxSessions
  /\ ~running
  /\ running' = TRUE
  /\ session' = session + 1
  /\ control' = "starting"
  /\ UNCHANGED <<policy, accepting, queue, dropped, rejected, mutex, consumer, publisher,
                 accepted, handled, cleared>>

\* accepting_ is set, then the thread begins in RunLoop.
Spawn ==
  /\ control = "starting"
  /\ accepting' = TRUE
  /\ consumer' = "lock"
  /\ control' = "idle"
  /\ UNCHANGED <<policy, running, queue, dropped, rejected, mutex, publisher, history>>

Stop ==
  /\ control = "idle" /\ running
  /\ running' = FALSE
  /\ control' = "refuse"
  /\ UNCHANGED <<policy, accepting, queue, dropped, rejected, mutex, consumer, publisher,
                 history>>

StopRefuse ==
  /\ control = "refuse"
  /\ accepting' = FALSE
  /\ control' = "notify"
  /\ UNCHANGED <<policy, running, queue, dropped, rejected, mutex, consumer, publisher, history>>

\* cv_: a notification reaches a consumer that is waiting, and no other.
Notified == IF consumer = "waiting" THEN "lock" ELSE consumer

StopNotify ==
  /\ control = "notify"
  /\ consumer' = Notified
  /\ control' = "join"
  /\ UNCHANGED <<flags, queue, dropped, rejected, mutex, publisher, history>>

StopJoin ==
  /\ control = "join" /\ consumer = "exited"
  /\ consumer' = "none"
  /\ control' = "clear"
  /\ UNCHANGED <<flags, queue, dropped, rejected, mutex, publisher, history>>

\* Fault: Stop leaves the queue as it is.
StopKeepsQueue ==
  /\ control = "clear" /\ ~mutex
  /\ control' = "idle"
  /\ UNCHANGED <<flags, queue, dropped, rejected, mutex, consumer, publisher, history>>

\* What the queue still holds is discarded, and counted nowhere.
StopClear ==
  /\ control = "clear" /\ ~mutex
  /\ cleared' = cleared + Len(queue)
  /\ queue' = <<>>
  /\ control' = "idle"
  /\ UNCHANGED <<flags, dropped, rejected, mutex, consumer, publisher,
                 session, accepted, handled>>

Control ==
  SetLanePolicy \/ Start \/ Spawn \/ Stop \/ StopRefuse \/ StopNotify \/ StopJoin \/ StopClear

-----------------------------------------------------------------------------
(* Publish.                                                                *)

\* Fault: the capacity is tested one too late.
FullLate == Len(queue) > policy.capacity

Full == Len(queue) >= policy.capacity

PublishRefused ==
  /\ ~accepting \/ (Full /\ ~policy.drop_oldest)
  /\ rejected' = rejected + 1
  /\ UNCHANGED <<queue, dropped, accepted>>

\* Fault: the event goes to the front of the queue.
PublishInFront ==
  /\ accepting
  /\ ~Full \/ policy.drop_oldest
  /\ accepted' = accepted + 1
  /\ queue' = <<[number |-> accepted + 1, session |-> session]>>
                \o (IF Full THEN Tail(queue) ELSE queue)
  /\ dropped' = IF Full THEN dropped + 1 ELSE dropped
  /\ UNCHANGED rejected

PublishInserted ==
  /\ accepting
  /\ ~Full \/ policy.drop_oldest
  /\ accepted' = accepted + 1
  /\ queue' = Append(IF Full THEN Tail(queue) ELSE queue,
                     [number |-> accepted + 1, session |-> session])
  /\ dropped' = IF Full THEN dropped + 1 ELSE dropped
  /\ UNCHANGED rejected

\* The locked region of Publish.
Publish(p) ==
  /\ publisher[p].pc = "idle" /\ publisher[p].calls < MaxEvents
  /\ ~mutex
  /\ PublishRefused \/ PublishInserted
  /\ publisher' = [publisher EXCEPT ![p].pc = IF accepted' # accepted THEN "notify" ELSE @,
                                    ![p].calls = @ + 1]
  /\ UNCHANGED <<flags, mutex, consumer, control, session, handled, cleared>>

\* Fault: Publish wakes nobody.
PublishSilently(p) ==
  /\ publisher[p].pc = "notify"
  /\ publisher' = [publisher EXCEPT ![p].pc = "idle"]
  /\ UNCHANGED <<flags, queue, dropped, rejected, mutex, consumer, control, history>>

PublishNotify(p) ==
  /\ publisher[p].pc = "notify"
  /\ publisher' = [publisher EXCEPT ![p].pc = "idle"]
  /\ consumer' = Notified
  /\ UNCHANGED <<flags, queue, dropped, rejected, mutex, control, history>>

-----------------------------------------------------------------------------
(* RunLoop and RunOnce, on the reactor thread.                             *)

Lock ==
  /\ consumer = "lock" /\ ~mutex
  /\ mutex' = TRUE
  /\ consumer' = "test"
  /\ UNCHANGED <<flags, queue, dropped, rejected, publisher, control, history>>

\* The predicate of cv_.wait.
Test ==
  /\ consumer = "test"
  /\ consumer' = IF ~running \/ queue # <<>> THEN "take" ELSE "block"
  /\ UNCHANGED <<flags, queue, dropped, rejected, mutex, publisher, control, history>>

\* The wait itself gives up the mutex and starts waiting in one step.
Block ==
  /\ consumer = "block"
  /\ mutex' = FALSE
  /\ consumer' = "waiting"
  /\ UNCHANGED <<flags, queue, dropped, rejected, publisher, control, history>>

SpuriousWakeup ==
  /\ consumer = "waiting"
  /\ consumer' = "lock"
  /\ UNCHANGED <<flags, queue, dropped, rejected, mutex, publisher, control, history>>

\* Fault: the event is copied and stays in the queue.
TakeCopy ==
  /\ queue # <<>>
  /\ handled' = Append(handled, Head(queue))
  /\ consumer' = "handle"
  /\ UNCHANGED queue

\* kHandled, kStopped or kIdle; the mutex is given up in each case.
TakeEvent ==
  /\ queue # <<>>
  /\ handled' = Append(handled, Head(queue))
  /\ queue' = Tail(queue)
  /\ consumer' = "handle"

TakeNothing ==
  /\ queue = <<>>
  /\ consumer' = IF running THEN "lock" ELSE "exited"
  /\ UNCHANGED <<queue, handled>>

Take ==
  /\ consumer = "take"
  /\ TakeEvent \/ TakeNothing
  /\ mutex' = FALSE
  /\ UNCHANGED <<flags, dropped, rejected, publisher, control, session, accepted, cleared>>

\* handle_event returns.
Handle ==
  /\ consumer = "handle"
  /\ consumer' = "lock"
  /\ UNCHANGED <<flags, queue, dropped, rejected, mutex, publisher, control, history>>

Consumer == Lock \/ Test \/ Block \/ Take \/ Handle

-----------------------------------------------------------------------------
Next ==
  \/ Control
  \/ \E p \in Producers : Publish(p) \/ PublishNotify(p)
  \/ Consumer
  \/ SpuriousWakeup

Spec == Init /\ [][Next]_loopVars

\* Threads inside the loop's code go on; nobody is obliged to call it, and no
\* spurious wakeup is owed to anyone.
Fairness ==
  /\ WF_loopVars(Consumer)
  /\ \A p \in Producers : WF_loopVars(PublishNotify(p))
  /\ WF_loopVars(Spawn \/ StopRefuse \/ StopNotify \/ StopJoin \/ StopClear)

FairSpec == Spec /\ Fairness

-----------------------------------------------------------------------------
(* Correctness.                                                            *)

\* Type invariant; the queue never exceeds its capacity, nor that of a policy set
\* between two sessions.
TypeOK ==
  /\ policy \in Policies
  /\ running \in BOOLEAN /\ accepting \in BOOLEAN /\ mutex \in BOOLEAN
  /\ queue \in Seq(Event) /\ Len(queue) <= policy.capacity
  /\ dropped \in Nat /\ rejected \in Nat
  /\ consumer \in {"none", "lock", "test", "block", "waiting", "take", "handle", "exited"}
  /\ publisher \in [Producers -> [pc : {"idle", "notify"}, calls : 0..MaxEvents]]
  /\ control \in {"idle", "starting", "refuse", "notify", "join", "clear"}
  /\ session \in 0..MaxSessions
  /\ accepted \in Nat /\ cleared \in Nat /\ handled \in Seq(Event)

\* Every event that Publish has taken is handled, queued, dropped for a newer
\* one or discarded by Stop, each exactly once, in whatever order producers,
\* consumer and Stop run.
EveryEventAccounted ==
  accepted = Len(handled) + Len(queue) + dropped + cleared

\* Events are handled in the order Publish took them, across restarts too.
HandledInOrder ==
  LET all == handled \o queue
  IN \A i, j \in DOMAIN all : i < j => all[i].number < all[j].number

\* After Stop has returned the queue is empty and stays so, and no event of an
\* earlier session reaches the handlers of a later one.
NothingCrossesSessions ==
  /\ ~running /\ control = "idle" => queue = <<>>
  /\ \A i \in DOMAIN queue : queue[i].session = session

\* The consumer does not sleep on a queue that holds events.
QueueIsConsumed == (queue # <<>>) ~> (queue = <<>>)

-----------------------------------------------------------------------------
(* The abstract specification it implements.                               *)

LanePhase == CASE accepting                                          -> "open"
               [] ~accepting /\ control \in {"notify", "join", "clear"} -> "closing"
               [] OTHER                                              -> "closed"

Contract == INSTANCE LaneContract WITH
  Capacities <- {p.capacity : p \in Policies},
  phase <- LanePhase, waiting <- queue, given <- handled

\* However producers, consumer and Stop interleave, the lane is a queue that takes
\* events while it is open, hands each over once and in order, loses none but
\* the oldest of a full one, and hands over nothing once it has closed.
LaneIsQueue == Contract!LaneSpec
=============================================================================
