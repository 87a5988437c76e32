------------------------ MODULE EventReactorLoopProofs ------------------------
(***************************************************************************)
(* Safety of the reactor loop for any number of producers, events and      *)
(* sessions, any policies and any interleaving.  What is not plain from    *)
(* the properties themselves: numbers of events in the queue lie between   *)
(* those handled and the count of those accepted, and whatever Stop has    *)
(* reached, the entrance is closed before the queue is cleared, so that    *)
(* nothing can be left in it when the next session begins.  From these the *)
(* refinement of LaneContract follows step by step.                        *)
(***************************************************************************)
EXTENDS EventReactorLoop, TLAPS

\* Events are numbered in the order they were taken: `handled' first, the queue
\* next, and nothing in either is newer than the last one accepted.
Numbered ==
  /\ \A i, j \in 1..Len(handled) : i < j => handled[i].number < handled[j].number
  /\ \A i, j \in 1..Len(queue) : i < j => queue[i].number < queue[j].number
  /\ \A i \in 1..Len(handled), j \in 1..Len(queue) : handled[i].number < queue[j].number
  /\ \A i \in 1..Len(handled) : handled[i].number <= accepted
  /\ \A i \in 1..Len(queue) : queue[i].number <= accepted

\* The phases of Stop and Start: what running_, accepting_ and the queue are in
\* each, and that the queue holds events of the current session only.
Phases ==
  /\ control \in {"refuse", "notify", "join", "clear"} => ~running
  /\ control \in {"notify", "join", "clear", "starting"} => ~accepting
  /\ control = "starting" => running /\ queue = <<>>
  /\ control = "idle" /\ ~running => ~accepting /\ queue = <<>>
  /\ \A i \in 1..Len(queue) : queue[i].session = session

LoopInv == TypeOK /\ EveryEventAccounted /\ Numbered /\ Phases

\* The steps that touch neither the queue nor what has become of the events.
Quiet ==
  UNCHANGED <<queue, dropped, accepted, handled, cleared>>

LEMMA InitLoopInv == Init => LoopInv
  <1> SUFFICES ASSUME Init PROVE LoopInv
    OBVIOUS
  <1>0. queue = <<>> /\ handled = <<>> /\ Len(queue) = 0 /\ Len(handled) = 0
    BY DEF Init
  <1>1. TypeOK
    <2>1. policy.capacity \in Nat
      BY LoopAssumption DEF Init
    <2>2. queue \in Seq(Event) /\ handled \in Seq(Event)
      BY <1>0
    <2>3. publisher \in [Producers -> [pc : {"idle", "notify"}, calls : 0..MaxEvents]]
      <3>1. 0 \in 0..MaxEvents
        BY LoopAssumption
      <3> QED
        BY <3>1 DEF Init
    <2>4. /\ policy \in Policies /\ running = FALSE /\ accepting = FALSE /\ mutex = FALSE
          /\ dropped = 0 /\ rejected = 0 /\ consumer = "none" /\ control = "idle"
          /\ session \in 0..MaxSessions /\ accepted = 0 /\ cleared = 0
      BY LoopAssumption DEF Init
    <2>5. Len(queue) <= policy.capacity
      BY <1>0, <2>1
    <2> QED
      BY <2>2, <2>3, <2>4, <2>5 DEF TypeOK
  <1>2. EveryEventAccounted
    BY <1>0 DEF Init, EveryEventAccounted
  <1>3. Numbered
    BY <1>0 DEF Numbered
  <1>4. Phases
    BY <1>0 DEF Init, Phases
  <1> QED
    BY <1>1, <1>2, <1>3, <1>4 DEF LoopInv

\* Every step of the loop is quiet, or an insertion, or a removal, or the clearing.
LEMMA StepCases ==
  ASSUME [Next]_loopVars
  PROVE  \/ Quiet
         \/ \E p \in Producers : Publish(p) /\ PublishInserted
         \/ Take /\ TakeEvent
         \/ StopClear
  <1>1. CASE \E p \in Producers : Publish(p)
    <2>1. PICK p \in Producers : Publish(p)
      BY <1>1
    <2>2. CASE PublishRefused
      BY <2>1, <2>2 DEF Publish, PublishRefused, Quiet
    <2>3. CASE PublishInserted
      BY <2>1, <2>3
    <2> QED
      BY <2>1, <2>2, <2>3 DEF Publish
  <1>2. CASE Take
    <2>1. CASE TakeNothing
      BY <1>2, <2>1 DEF Take, TakeNothing, Quiet
    <2> QED
      BY <1>2, <2>1 DEF Take
  <1>3. CASE UNCHANGED loopVars
    BY <1>3 DEF loopVars, Quiet
  <1>4. CASE \/ SetLanePolicy \/ Start \/ Spawn \/ Stop \/ StopRefuse \/ StopNotify \/ StopJoin
             \/ (\E p \in Producers : PublishNotify(p))
             \/ Lock \/ Test \/ Block \/ Handle \/ SpuriousWakeup
    BY <1>4 DEF SetLanePolicy, Start, Spawn, Stop, StopRefuse, StopNotify, StopJoin,
                PublishNotify, Lock, Test, Block, Handle, SpuriousWakeup,
                flags, history, Quiet
  <1> QED
    BY <1>1, <1>2, <1>3, <1>4 DEF Next, Control, Consumer

\* What an insertion does to the queue: at most its head goes, the new event,
\* numbered last and of this session, goes to the end.
LEMMA Insertion ==
  ASSUME TypeOK, PublishInserted
  PROVE  /\ queue' \in Seq(Event)
         /\ accepted' = accepted + 1 /\ accepted' \in Nat /\ dropped' \in Nat
         /\ Len(queue') + dropped' = Len(queue) + dropped + 1
         /\ queue'[Len(queue')] = [number |-> accepted + 1, session |-> session]
         /\ Len(queue') <= policy.capacity
         /\ \E d \in {0, 1} :
              /\ Len(queue') = Len(queue) + 1 - d
              /\ \A i \in 1..Len(queue') - 1 :
                   i + d \in 1..Len(queue) /\ queue'[i] = queue[i + d]
  <1> DEFINE e == [number |-> accepted + 1, session |-> session]
  <1>0. /\ queue \in Seq(Event) /\ accepted \in Nat /\ dropped \in Nat
        /\ policy.capacity \in Nat \ {0} /\ Len(queue) <= policy.capacity
        /\ e \in Event
    BY LoopAssumption DEF TypeOK, Event
  <1>1. CASE Full
    <2>1. queue # <<>> /\ Len(queue) = policy.capacity
      BY <1>0, <1>1 DEF Full
    <2>2. queue' = Append(Tail(queue), e) /\ dropped' = dropped + 1 /\ accepted' = accepted + 1
      BY <1>1 DEF PublishInserted
    <2>3. /\ Tail(queue) \in Seq(Event) /\ Len(Tail(queue)) = Len(queue) - 1
          /\ \A i \in 1..Len(queue) - 1 : Tail(queue)[i] = queue[i + 1]
      BY <1>0, <2>1
    <2>4. /\ queue' \in Seq(Event) /\ Len(queue') = Len(queue)
          /\ queue'[Len(queue')] = e
          /\ \A i \in 1..Len(queue') - 1 : queue'[i] = Tail(queue)[i]
      BY <1>0, <2>2, <2>3
    <2>5. \A i \in 1..Len(queue') - 1 : i + 1 \in 1..Len(queue) /\ queue'[i] = queue[i + 1]
      BY <1>0, <2>3, <2>4
    <2> QED
      BY <1>0, <2>1, <2>2, <2>4, <2>5
  <1>2. CASE ~Full
    <2>1. Len(queue) < policy.capacity
      BY <1>0, <1>2 DEF Full
    <2>2. queue' = Append(queue, e) /\ dropped' = dropped /\ accepted' = accepted + 1
      BY <1>2 DEF PublishInserted
    <2>3. /\ queue' \in Seq(Event) /\ Len(queue') = Len(queue) + 1
          /\ queue'[Len(queue')] = e
          /\ \A i \in 1..Len(queue') - 1 : queue'[i] = queue[i]
      BY <1>0, <2>2
    <2>4. \A i \in 1..Len(queue') - 1 : i + 0 \in 1..Len(queue) /\ queue'[i] = queue[i + 0]
      BY <1>0, <2>3
    <2> QED
      BY <1>0, <2>1, <2>2, <2>3, <2>4
  <1> QED
    BY <1>1, <1>2

\* What a removal does: the head goes from the queue to the end of `handled'.
LEMMA Removal ==
  ASSUME TypeOK, TakeEvent
  PROVE  /\ queue' \in Seq(Event) /\ handled' \in Seq(Event)
         /\ Len(queue) > 0
         /\ Len(queue') = Len(queue) - 1 /\ Len(handled') = Len(handled) + 1
         /\ \A i \in 1..Len(queue') : queue'[i] = queue[i + 1]
         /\ \A i \in 1..Len(handled) : handled'[i] = handled[i]
         /\ handled'[Len(handled')] = queue[1]
  <1>1. /\ queue \in Seq(Event) /\ handled \in Seq(Event) /\ queue # <<>>
        /\ queue' = Tail(queue) /\ handled' = Append(handled, Head(queue))
    BY DEF TypeOK, TakeEvent
  <1>2. Head(queue) = queue[1] /\ queue[1] \in Event /\ Len(queue) > 0
    BY <1>1
  <1> QED
    BY <1>1, <1>2

\* The types are kept, and with them the bound on the queue: a policy is only set
\* when the queue is empty.
LEMMA TypeStep == LoopInv /\ [Next]_loopVars => TypeOK'
  <1> SUFFICES ASSUME LoopInv, [Next]_loopVars PROVE TypeOK'
    OBVIOUS
  <1> USE DEF LoopInv
  <1>1. ASSUME NEW p \in Producers, Publish(p) PROVE TypeOK'
    <2>1. CASE PublishRefused
      BY <1>1, <2>1 DEF Publish, PublishRefused, TypeOK, flags
    <2>2. CASE PublishInserted
      <3>1. /\ queue' \in Seq(Event) /\ Len(queue') <= policy.capacity
            /\ dropped' \in Nat /\ accepted' \in Nat
        BY <2>2, Insertion
      <3>2. publisher' \in [Producers -> [pc : {"idle", "notify"}, calls : 0..MaxEvents]]
        <4>1. /\ publisher \in [Producers -> [pc : {"idle", "notify"}, calls : 0..MaxEvents]]
              /\ MaxEvents \in Nat
          BY LoopAssumption DEF TypeOK
        <4>2. publisher[p].calls + 1 \in 0..MaxEvents
          BY <1>1, <4>1 DEF Publish
        <4>3. PICK pc \in {"idle", "notify"} :
                publisher' = [publisher EXCEPT ![p].pc = pc, ![p].calls = @ + 1]
          <5>1. CASE accepted' # accepted
            BY <1>1, <5>1 DEF Publish
          <5>2. CASE accepted' = accepted
            <6>1. publisher' = [publisher EXCEPT ![p].pc = publisher[p].pc, ![p].calls = @ + 1]
              BY <1>1, <5>2 DEF Publish
            <6>2. publisher[p].pc \in {"idle", "notify"}
              BY <4>1
            <6> QED
              BY <6>1, <6>2
          <5> QED
            BY <5>1, <5>2
        <4> QED
          BY <4>1, <4>2, <4>3
      <3>3. /\ UNCHANGED <<flags, mutex, consumer, control, session, handled, cleared>>
            /\ UNCHANGED rejected
        BY <1>1, <2>2 DEF Publish, PublishInserted
      <3> QED
        BY <3>1, <3>2, <3>3 DEF TypeOK, flags
    <2> QED
      BY <1>1, <2>1, <2>2 DEF Publish
  <1>2. CASE Take
    <2>1. CASE TakeEvent
      <3>1. /\ queue' \in Seq(Event) /\ handled' \in Seq(Event)
            /\ Len(queue') = Len(queue) - 1
        BY <2>1, Removal
      <3>2. Len(queue') <= policy.capacity
        <4>1. policy.capacity \in Nat /\ Len(queue) \in Nat /\ Len(queue) <= policy.capacity
          BY LoopAssumption DEF TypeOK
        <4> QED
          BY <3>1, <4>1
      <3>3. consumer' = "handle" /\ mutex' = FALSE
        BY <1>2, <2>1 DEF Take, TakeEvent
      <3>4. UNCHANGED <<flags, dropped, rejected, publisher, control, session, accepted, cleared>>
        BY <1>2 DEF Take
      <3> QED
        BY <3>1, <3>2, <3>3, <3>4 DEF TypeOK, flags
    <2>2. CASE TakeNothing
      BY <1>2, <2>2 DEF Take, TakeNothing, TypeOK, flags
    <2> QED
      BY <1>2, <2>1, <2>2 DEF Take
  <1>3. CASE UNCHANGED loopVars
    BY <1>3 DEF loopVars, TypeOK
  <1>4. CASE SetLanePolicy
    BY <1>4, LoopAssumption DEF SetLanePolicy, TypeOK, history, Phases
  <1>5. CASE Start
    BY <1>5, LoopAssumption DEF Start, TypeOK
  <1>6. CASE StopClear
    BY <1>6, LoopAssumption DEF StopClear, TypeOK, flags
  <1>7. CASE Spawn \/ Stop \/ StopRefuse \/ StopNotify \/ StopJoin
    BY <1>7 DEF Spawn, Stop, StopRefuse, StopNotify, StopJoin, Notified, TypeOK, flags, history
  <1>8. ASSUME NEW p \in Producers, PublishNotify(p) PROVE TypeOK'
    BY <1>8 DEF PublishNotify, Notified, TypeOK, flags, history
  <1>9. CASE Lock \/ Test \/ Block \/ Handle \/ SpuriousWakeup
    BY <1>9 DEF Lock, Test, Block, Handle, SpuriousWakeup, TypeOK, flags, history
  <1> QED
    BY <1>1, <1>2, <1>3, <1>4, <1>5, <1>6, <1>7, <1>8, <1>9 DEF Next, Control, Consumer

\* Every event stays in exactly one place.
LEMMA AccountStep == LoopInv /\ [Next]_loopVars => EveryEventAccounted'
  <1> SUFFICES ASSUME LoopInv, [Next]_loopVars PROVE EveryEventAccounted'
    OBVIOUS
  <1> USE DEF LoopInv
  <1>0. /\ Len(queue) \in Nat /\ Len(handled) \in Nat
        /\ dropped \in Nat /\ cleared \in Nat /\ accepted \in Nat
    BY DEF TypeOK
  <1>1. CASE Quiet
    BY <1>1 DEF Quiet, EveryEventAccounted
  <1>2. ASSUME NEW p \in Producers, Publish(p), PublishInserted PROVE EveryEventAccounted'
    <2>1. UNCHANGED <<handled, cleared>>
      BY <1>2 DEF Publish
    <2>2. /\ queue' \in Seq(Event) /\ dropped' \in Nat /\ accepted' = accepted + 1
          /\ Len(queue') + dropped' = Len(queue) + dropped + 1
      BY <1>2, Insertion
    <2>3. Len(queue') \in Nat
      BY <2>2
    <2> QED
      BY <1>0, <2>1, <2>2, <2>3, SMTT(20) DEF EveryEventAccounted
  <1>3. CASE Take /\ TakeEvent
    <2>1. /\ Len(queue') = Len(queue) - 1 /\ Len(handled') = Len(handled) + 1
          /\ Len(queue) > 0
      BY <1>3, Removal
    <2>2. UNCHANGED <<accepted, dropped, cleared>>
      BY <1>3 DEF Take
    <2> QED
      BY <1>0, <2>1, <2>2 DEF EveryEventAccounted
  <1>4. CASE StopClear
    <2>1. /\ cleared' = cleared + Len(queue) /\ Len(queue') = 0
          /\ UNCHANGED <<accepted, dropped, handled>>
      BY <1>4 DEF StopClear
    <2> QED
      BY <1>0, <2>1 DEF EveryEventAccounted
  <1> QED
    BY <1>1, <1>2, <1>3, <1>4, StepCases

\* The numbering is kept: insertions go to the end, removals come from the front.
LEMMA NumberStep == LoopInv /\ [Next]_loopVars => Numbered'
  <1> SUFFICES ASSUME LoopInv, [Next]_loopVars PROVE Numbered'
    OBVIOUS
  <1> USE DEF LoopInv
  <1>0. /\ queue \in Seq(Event) /\ handled \in Seq(Event) /\ accepted \in Nat
        /\ \A i \in 1..Len(queue) : queue[i].number \in Nat
        /\ \A i \in 1..Len(handled) : handled[i].number \in Nat
    <2>1. queue \in Seq(Event) /\ handled \in Seq(Event) /\ accepted \in Nat
      BY DEF TypeOK
    <2>2. /\ \A i \in 1..Len(queue) : queue[i] \in Event
          /\ \A i \in 1..Len(handled) : handled[i] \in Event
      BY <2>1
    <2> QED
      BY <2>1, <2>2 DEF Event
  <1>1. CASE Quiet
    <2>1. queue' = queue /\ handled' = handled /\ accepted' = accepted
      BY <1>1 DEF Quiet
    <2>2. Numbered
      OBVIOUS
    <2> QED
      BY <2>1, <2>2 DEF Numbered
  <1>2. ASSUME NEW p \in Producers, Publish(p), PublishInserted PROVE Numbered'
    <2>1. UNCHANGED handled
      BY <1>2 DEF Publish
    <2>2. PICK d \in {0, 1} :
            /\ Len(queue') = Len(queue) + 1 - d
            /\ \A i \in 1..Len(queue') - 1 :
                 i + d \in 1..Len(queue) /\ queue'[i] = queue[i + d]
      BY <1>2, Insertion
    <2>3. /\ accepted' = accepted + 1
          /\ queue'[Len(queue')].number = accepted + 1
          /\ queue' \in Seq(Event) /\ Len(queue') \in Nat
      BY <1>2, Insertion
    <2>8. \A i \in 1..Len(queue') : i < Len(queue') => i \in 1..Len(queue') - 1
      BY <2>3
    <2>4. ASSUME NEW i \in 1..Len(queue'), NEW j \in 1..Len(queue'), i < j
          PROVE  queue'[i].number < queue'[j].number
      <3>1. /\ i \in 1..Len(queue') - 1 /\ i + d \in 1..Len(queue)
            /\ queue'[i].number = queue[i + d].number
        BY <2>2, <2>3, <2>4
      <3>2. CASE j = Len(queue')
        <4>1. queue[i + d].number <= accepted /\ queue[i + d].number \in Nat
          BY <1>0, <3>1 DEF Numbered
        <4> QED
          BY <1>0, <2>3, <3>1, <3>2, <4>1
      <3>3. CASE j < Len(queue')
        <4>1. j + d \in 1..Len(queue) /\ queue'[j].number = queue[j + d].number
          BY <2>2, <2>8, <3>3
        <4>2. i + d < j + d
          BY <2>4
        <4>3. queue[i + d].number < queue[j + d].number
          BY <3>1, <4>1, <4>2 DEF Numbered
        <4> QED
          BY <3>1, <4>1, <4>3
      <3> QED
        BY <2>3, <3>2, <3>3
    <2>5. ASSUME NEW i \in 1..Len(handled), NEW j \in 1..Len(queue')
          PROVE  handled[i].number < queue'[j].number
      <3>1. CASE j = Len(queue')
        <4>1. handled[i].number <= accepted /\ handled[i].number \in Nat
          BY <1>0 DEF Numbered
        <4> QED
          BY <1>0, <2>3, <3>1, <4>1
      <3>2. CASE j < Len(queue')
        <4>1. j + d \in 1..Len(queue) /\ queue'[j].number = queue[j + d].number
          BY <2>2, <2>8, <3>2
        <4>2. handled[i].number < queue[j + d].number
          BY <4>1 DEF Numbered
        <4> QED
          BY <4>1, <4>2
      <3> QED
        BY <2>3, <3>1, <3>2
    <2>6. ASSUME NEW i \in 1..Len(queue')
          PROVE  queue'[i].number <= accepted + 1
      <3>1. CASE i = Len(queue')
        BY <1>0, <2>3, <3>1
      <3>2. CASE i < Len(queue')
        <4>1. i + d \in 1..Len(queue) /\ queue'[i].number = queue[i + d].number
          BY <2>2, <2>8, <3>2
        <4>2. queue[i + d].number <= accepted /\ queue[i + d].number \in Nat
          BY <1>0, <4>1 DEF Numbered
        <4> QED
          BY <1>0, <4>1, <4>2
      <3> QED
        BY <2>3, <3>1, <3>2
    <2> QED
      BY <1>0, <2>1, <2>3, <2>4, <2>5, <2>6 DEF Numbered
  <1>3. CASE Take /\ TakeEvent
    <2>1. UNCHANGED accepted
      BY <1>3 DEF Take
    <2>2. /\ Len(queue) \in Nat /\ Len(handled) \in Nat /\ Len(queue) > 0
          /\ Len(queue') = Len(queue) - 1 /\ Len(handled') = Len(handled) + 1
          /\ \A i \in 1..Len(queue') : queue'[i] = queue[i + 1]
          /\ \A i \in 1..Len(handled) : handled'[i] = handled[i]
          /\ handled'[Len(handled')] = queue[1]
      BY <1>0, <1>3, Removal
    <2>3. \A i \in 1..Len(handled') : \/ i \in 1..Len(handled) /\ handled'[i] = handled[i]
                                      \/ i = Len(handled') /\ handled'[i] = queue[1]
      BY <2>2
    <2>9. \A i \in 1..Len(queue') : i + 1 \in 1..Len(queue) /\ 1 < i + 1
      BY <2>2
    <2>10. 1 \in 1..Len(queue)
      BY <2>2
    <2>4. ASSUME NEW i \in 1..Len(handled'), NEW j \in 1..Len(handled'), i < j
          PROVE  handled'[i].number < handled'[j].number
      <3>1. i \in 1..Len(handled) /\ handled'[i] = handled[i]
        BY <2>2, <2>4
      <3>2. CASE j = Len(handled')
        BY <2>2, <2>10, <3>1, <3>2 DEF Numbered
      <3>3. CASE j < Len(handled')
        <4>1. j \in 1..Len(handled) /\ handled'[j] = handled[j]
          BY <2>2, <3>3
        <4> QED
          BY <2>4, <3>1, <4>1 DEF Numbered
      <3> QED
        BY <2>2, <3>2, <3>3
    <2>5. ASSUME NEW i \in 1..Len(queue'), NEW j \in 1..Len(queue'), i < j
          PROVE  queue'[i].number < queue'[j].number
      <3>1. i + 1 < j + 1
        BY <2>5
      <3>2. queue[i + 1].number < queue[j + 1].number
        BY <2>9, <3>1 DEF Numbered
      <3> QED
        BY <2>2, <3>2
    <2>6. ASSUME NEW i \in 1..Len(handled'), NEW j \in 1..Len(queue')
          PROVE  handled'[i].number < queue'[j].number
      <3>1. queue'[j] = queue[j + 1] /\ j + 1 \in 1..Len(queue) /\ 1 < j + 1
        BY <2>2, <2>9
      <3>2. CASE i \in 1..Len(handled) /\ handled'[i] = handled[i]
        BY <3>1, <3>2 DEF Numbered
      <3>3. CASE handled'[i] = queue[1]
        BY <2>10, <3>1, <3>3 DEF Numbered
      <3> QED
        BY <2>3, <3>2, <3>3
    <2>7. /\ \A i \in 1..Len(handled') : handled'[i].number <= accepted
          /\ \A i \in 1..Len(queue') : queue'[i].number <= accepted
      BY <2>2, <2>3, <2>9, <2>10 DEF Numbered
    <2> QED
      BY <2>1, <2>4, <2>5, <2>6, <2>7 DEF Numbered
  <1>4. CASE StopClear
    BY <1>0, <1>4 DEF StopClear, Numbered
  <1> QED
    BY <1>1, <1>2, <1>3, <1>4, StepCases

\* The phases are kept: the entrance closes before the queue is cleared, and no
\* insertion gets past a closed entrance.
LEMMA PhaseStep == LoopInv /\ [Next]_loopVars => Phases'
  <1> SUFFICES ASSUME LoopInv, [Next]_loopVars PROVE Phases'
    OBVIOUS
  <1> USE DEF LoopInv
  <1>0. queue \in Seq(Event)
    BY DEF TypeOK
  <1>1. ASSUME NEW p \in Producers, Publish(p) PROVE Phases'
    <2>1. UNCHANGED <<running, accepting, control, session>>
      BY <1>1 DEF Publish, flags
    <2>2. CASE PublishRefused
      BY <2>1, <2>2 DEF PublishRefused, Phases
    <2>3. CASE PublishInserted
      <3>1. accepting
        BY <2>3 DEF PublishInserted
      <3>2. \A i \in 1..Len(queue') : queue'[i].session = session
        <4>1. PICK d \in {0, 1} :
                \A i \in 1..Len(queue') - 1 :
                  i + d \in 1..Len(queue) /\ queue'[i] = queue[i + d]
          BY <2>3, Insertion
        <4>2. queue'[Len(queue')].session = session /\ Len(queue') \in Nat
          BY <2>3, Insertion
        <4> QED
          BY <4>1, <4>2 DEF Phases
      <3> QED
        BY <2>1, <3>1, <3>2 DEF Phases
    <2> QED
      BY <1>1, <2>2, <2>3 DEF Publish
  <1>2. CASE Take
    <2>1. UNCHANGED <<running, accepting, control, session>>
      BY <1>2 DEF Take, flags
    <2>2. CASE TakeNothing
      BY <2>1, <2>2 DEF TakeNothing, Phases
    <2>3. CASE TakeEvent
      <3>1. queue # <<>>
        BY <2>3 DEF TakeEvent
      <3>2. \A i \in 1..Len(queue') : queue'[i].session = session
        BY <1>0, <2>3, Removal DEF Phases
      <3> QED
        BY <2>1, <3>1, <3>2 DEF Phases
    <2> QED
      BY <1>2, <2>2, <2>3 DEF Take
  <1>3. CASE UNCHANGED loopVars
    BY <1>3 DEF loopVars, Phases
  <1>4. CASE SetLanePolicy \/ Stop \/ StopRefuse \/ StopNotify \/ StopJoin
    BY <1>4 DEF SetLanePolicy, Stop, StopRefuse, StopNotify, StopJoin, flags, history, Phases
  <1>8. CASE Spawn
    <2>1. running
      BY <1>8 DEF Spawn, Phases
    <2> QED
      BY <1>8, <2>1 DEF Spawn, history, Phases
  <1>6. CASE Start
    <2>1. queue = <<>> /\ Len(queue) = 0 /\ ~accepting
      BY <1>6 DEF Start, Phases
    <2>2. queue' = queue /\ accepting' = accepting /\ running' = TRUE /\ control' = "starting"
      BY <1>6 DEF Start
    <2> QED
      BY <2>1, <2>2 DEF Phases
  <1>7. CASE StopClear
    <2>1. queue' = <<>> /\ Len(queue') = 0 /\ ~accepting /\ ~running
      BY <1>7 DEF StopClear, Phases
    <2>2. accepting' = accepting /\ running' = running /\ control' = "idle"
      BY <1>7 DEF StopClear, flags
    <2> QED
      BY <2>1, <2>2 DEF Phases
  <1>5. CASE \/ (\E p \in Producers : PublishNotify(p))
             \/ Lock \/ Test \/ Block \/ Handle \/ SpuriousWakeup
    BY <1>5 DEF PublishNotify, Lock, Test, Block, Handle, SpuriousWakeup, flags, history, Phases
  <1> QED
    BY <1>1, <1>2, <1>3, <1>4, <1>5, <1>6, <1>7, <1>8 DEF Next, Control, Consumer

\* The inductive invariant holds in every reachable state.
THEOREM LoopInvariant == Spec => []LoopInv
  <1>1. LoopInv /\ [Next]_loopVars => LoopInv'
    BY TypeStep, AccountStep, NumberStep, PhaseStep DEF LoopInv
  <1> QED
    BY InitLoopInv, <1>1, PTL DEF Spec

\* The lane's variables keep their types and its queue its capacity.
THEOREM LaneTypeCorrect == Spec => []TypeOK
  BY LoopInvariant, PTL DEF LoopInv

\* No event is lost, doubled or counted twice.
THEOREM NoEventLost == Spec => []EveryEventAccounted
  BY LoopInvariant, PTL DEF LoopInv

\* Events reach the handlers in the order Publish took them.
THEOREM HandledInPublishOrder == Spec => []HandledInOrder
  <1>1. LoopInv => HandledInOrder
    <2> SUFFICES ASSUME LoopInv,
                        NEW i \in DOMAIN (handled \o queue), NEW j \in DOMAIN (handled \o queue),
                        i < j
                 PROVE  (handled \o queue)[i].number < (handled \o queue)[j].number
      BY DEF HandledInOrder
    <2>1. /\ queue \in Seq(Event) /\ handled \in Seq(Event)
          /\ Len(queue) \in Nat /\ Len(handled) \in Nat
      BY DEF LoopInv, TypeOK
    <2>2. i \in 1..Len(handled) + Len(queue) /\ j \in 1..Len(handled) + Len(queue)
      BY <2>1
    <2>3. \A k \in 1..Len(handled) + Len(queue) :
            (handled \o queue)[k] = IF k <= Len(handled) THEN handled[k]
                                                         ELSE queue[k - Len(handled)]
      BY <2>1
    <2>4. CASE j <= Len(handled)
      BY <2>1, <2>2, <2>3, <2>4 DEF LoopInv, Numbered
    <2>5. CASE i <= Len(handled) /\ j > Len(handled)
      BY <2>1, <2>2, <2>3, <2>5 DEF LoopInv, Numbered
    <2>6. CASE i > Len(handled) /\ j > Len(handled)
      BY <2>1, <2>2, <2>3, <2>6 DEF LoopInv, Numbered
    <2> QED
      BY <2>1, <2>2, <2>4, <2>5, <2>6
  <1> QED
    BY LoopInvariant, <1>1, PTL

\* A stopped lane holds nothing, and no event crosses into another session.
THEOREM SessionsAreSeparate == Spec => []NothingCrossesSessions
  <1>1. LoopInv => NothingCrossesSessions
    BY DEF LoopInv, TypeOK, Phases, NothingCrossesSessions
  <1> QED
    BY LoopInvariant, <1>1, PTL

-----------------------------------------------------------------------------
(* The refinement: LanePhase moves with the control thread, the queue with *)
(* Publish and the consumer.                                               *)

\* Where the reactor thread can be, and that a running lane is an open one.
ThreadInv ==
  /\ consumer # "none" => accepting \/ control \in {"notify", "join"}
  /\ control = "refuse" \/ (control = "idle" /\ running) => accepting

LEMMA ThreadStep == LoopInv /\ ThreadInv /\ [Next]_loopVars => ThreadInv'
  <1> SUFFICES ASSUME LoopInv, ThreadInv, [Next]_loopVars PROVE ThreadInv'
    OBVIOUS
  <1> USE DEF LoopInv, Phases, ThreadInv
  <1>1. CASE SetLanePolicy \/ Start \/ Spawn \/ Stop
    BY <1>1 DEF SetLanePolicy, Start, Spawn, Stop, history
  <1>2. CASE StopRefuse \/ StopNotify \/ StopJoin \/ StopClear
    BY <1>2 DEF StopRefuse, StopNotify, StopJoin, StopClear, Notified, flags, history
  <1>3. ASSUME NEW p \in Producers, Publish(p) \/ PublishNotify(p) PROVE ThreadInv'
    BY <1>3 DEF Publish, PublishNotify, Notified, flags, history
  <1>4. CASE Lock \/ Test \/ Block \/ Handle \/ SpuriousWakeup
    BY <1>4 DEF Lock, Test, Block, Handle, SpuriousWakeup, flags, history
  <1>5. CASE Take
    BY <1>5 DEF Take, flags
  <1>6. CASE UNCHANGED loopVars
    BY <1>6 DEF loopVars
  <1> QED
    BY <1>1, <1>2, <1>3, <1>4, <1>5, <1>6 DEF Next, Control, Consumer

\* An insertion is taken by an open lane, behind what waits, and pushes out the
\* oldest of a full one at most; it is new as it has a higher number.
LEMMA AcceptStep ==
  ASSUME LoopInv, NEW p \in Producers, Publish(p), PublishInserted
  PROVE  Contract!Accept
  <1> DEFINE e == [number |-> accepted + 1, session |-> session]
  <1>1. /\ queue \in Seq(Event) /\ handled \in Seq(Event) /\ accepted \in Nat
        /\ policy \in Policies /\ policy.capacity \in Nat \ {0} /\ session \in Nat
        /\ Len(queue) <= policy.capacity /\ e \in Event
    BY LoopAssumption DEF LoopInv, TypeOK, Event
  <1>2. LanePhase = "open" /\ LanePhase' = "open" /\ handled' = handled
    BY DEF Publish, PublishInserted, LanePhase, flags
  <1>3. /\ queue' \in Seq(Event) /\ Len(queue') <= policy.capacity
        /\ queue'[Len(queue')] = e /\ queue' # <<>>
    <2>1. queue' = Append(IF Full THEN Tail(queue) ELSE queue, e)
      BY DEF PublishInserted
    <2>2. Full => queue # <<>>
      BY <1>1 DEF Full
    <2>3. (IF Full THEN Tail(queue) ELSE queue) \in Seq(Event)
      BY <1>1, <2>2
    <2>4. queue' # <<>>
      BY <1>1, <2>1, <2>3
    <2> QED
      BY <2>4, Insertion DEF LoopInv
  <1>4. SubSeq(queue', 1, Len(queue') - 1) = IF Full THEN Tail(queue) ELSE queue
    <2>1. PICK s : s = IF Full THEN Tail(queue) ELSE queue
      OBVIOUS
    <2>2. s \in Seq(Event)
      BY <1>1, <2>1 DEF Full
    <2>3. queue' = Append(s, e)
      BY <2>1 DEF PublishInserted
    <2>4. SubSeq(Append(s, e), 1, Len(Append(s, e)) - 1) = s
      BY <1>1, <2>2
    <2> QED
      BY <2>1, <2>3, <2>4
  <1>5. e \notin Contract!Elements(queue) \cup Contract!Elements(handled)
    <2>1. e.number = accepted + 1
      OBVIOUS
    <2>2. /\ \A i \in 1..Len(queue) : queue[i].number <= accepted
          /\ \A i \in 1..Len(handled) : handled[i].number <= accepted
      BY DEF LoopInv, Numbered
    <2> QED
      BY <1>1, <2>1, <2>2 DEF Contract!Elements
  <1>6. policy.capacity \in {l.capacity : l \in Policies}
    BY <1>1
  <1>7. Full => policy.capacity <= Len(queue) /\ queue # <<>>
    BY <1>1 DEF Full
  <1> QED
    BY <1>2, <1>3, <1>4, <1>5, <1>6, <1>7 DEF Contract!Accept

LEMMA LaneSteps ==
  LoopInv /\ ThreadInv /\ [Next]_loopVars => [Contract!LaneNext]_(Contract!laneVars)
  <1> SUFFICES ASSUME LoopInv, ThreadInv, [Next]_loopVars
               PROVE  Contract!LaneNext \/ UNCHANGED Contract!laneVars
    OBVIOUS
  <1>1. CASE \/ SetLanePolicy \/ Start \/ Stop \/ StopNotify \/ StopJoin
             \/ Lock \/ Test \/ Block \/ Handle \/ SpuriousWakeup
             \/ (\E p \in Producers : PublishNotify(p))
    <2>1. UNCHANGED <<queue, handled>> /\ LanePhase' = LanePhase
      BY <1>1 DEF SetLanePolicy, Start, Stop, StopNotify, StopJoin, Lock, Test, Block, Handle,
                  SpuriousWakeup, PublishNotify, flags, history, LanePhase, LoopInv, Phases,
                  ThreadInv
    <2> QED
      BY <2>1 DEF Contract!laneVars
  <1>2. CASE Spawn
    <2>1. /\ LanePhase = "closed" /\ LanePhase' = "open"
          /\ queue = <<>> /\ UNCHANGED <<queue, handled>>
      BY <1>2 DEF Spawn, history, LanePhase, LoopInv, Phases
    <2> QED
      BY <2>1 DEF Contract!LaneNext, Contract!Open, Contract!Goes
  <1>3. CASE StopRefuse
    <2>1. LanePhase = "open" /\ LanePhase' = "closing" /\ UNCHANGED <<queue, handled>>
      BY <1>3 DEF StopRefuse, history, LanePhase, ThreadInv
    <2> QED
      BY <2>1 DEF Contract!LaneNext, Contract!Close, Contract!Goes
  <1>4. CASE StopClear
    <2>1. /\ LanePhase = "closing" /\ LanePhase' = "closed"
          /\ queue' = <<>> /\ handled' = handled
      BY <1>4 DEF StopClear, flags, LanePhase, LoopInv, Phases
    <2> QED
      BY <2>1 DEF Contract!LaneNext, Contract!Clear, Contract!Goes
  <1>5. ASSUME NEW p \in Producers, Publish(p)
        PROVE  Contract!LaneNext \/ UNCHANGED Contract!laneVars
    <2>1. CASE PublishInserted
      BY <1>5, <2>1, AcceptStep DEF Contract!LaneNext
    <2>2. CASE PublishRefused
      <3>1. UNCHANGED <<queue, handled, accepting, control>>
        BY <1>5, <2>2 DEF Publish, PublishRefused, flags
      <3> QED
        BY <3>1 DEF Contract!laneVars, LanePhase
    <2> QED
      BY <1>5, <2>1, <2>2 DEF Publish
  <1>6. CASE Take
    <2>1. UNCHANGED <<accepting, control>> /\ consumer = "take"
      BY <1>6 DEF Take, flags
    <2>2. LanePhase # "closed" /\ LanePhase' = LanePhase
      BY <2>1 DEF LanePhase, ThreadInv
    <2>3. CASE TakeEvent
      BY <2>2, <2>3 DEF TakeEvent, Contract!LaneNext, Contract!Give
    <2>4. CASE TakeNothing
      BY <2>2, <2>4 DEF TakeNothing, Contract!laneVars
    <2> QED
      BY <1>6, <2>3, <2>4 DEF Take
  <1>7. CASE UNCHANGED loopVars
    BY <1>7 DEF loopVars, LanePhase, Contract!laneVars
  <1> QED
    BY <1>1, <1>2, <1>3, <1>4, <1>5, <1>6, <1>7 DEF Next, Control, Consumer

\* The reactor's lane is the queue that LaneContract describes, whatever its
\* producers, its consumer and Start and Stop do.
THEOREM LaneImplementsQueue == Spec => LaneIsQueue
  <1>1. Init => ThreadInv
    BY DEF Init, ThreadInv
  <1>2. Init => Contract!LaneInit
    BY DEF Init, Contract!LaneInit, LanePhase
  <1> QED
    BY <1>1, <1>2, LoopInvariant, ThreadStep, LaneSteps, PTL
    DEF Spec, LaneIsQueue, Contract!LaneSpec
=============================================================================
