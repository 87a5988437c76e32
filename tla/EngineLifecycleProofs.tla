------------------------ MODULE EngineLifecycleProofs ------------------------
(***************************************************************************)
(* Safety of the engine's life cycle for any behaviour of its threads.     *)
(* That every change of state is an edge of the table rests on what a      *)
(* thread knows between its load and its compare-and-swap: the target was  *)
(* allowed from the state it has seen, and the swap happens only if that   *)
(* is still the state.  That the engine is quiet when Stop has returned    *)
(* rests on the order in which Stop takes its threads away: when its last  *)
(* transition begins nobody else is left to interfere with it.             *)
(***************************************************************************)
EXTENDS EngineLifecycle, TLAPS

Calls == [at : {"returned", "load", "swap", "reason", "bad", "good", "why"},
          target : States, why : Reasons, seen : States, ok : BOOLEAN]

\* What a thread about to swap has found out.
SwapsLegally ==
  \A t \in Threads : call[t].at = "swap" => call[t].target \in Allowed(call[t].seen)

\* Which threads there are in each phase of Init, Start and Stop.
Phases ==
  /\ running => initialized
  /\ control \in {"configured", "initiated"} => ~initialized
  /\ control \in {"modules", "gates"} => initialized
  /\ control = "gates" => running
  /\ control \in {"modules", "release", "join", "disconnect"} => ~running
  /\ control \in {"idle", "configured", "initiated"} /\ ~running =>
       ~monitoring /\ watch = "none"
  /\ control \in {"join", "disconnect"} => ~monitoring
  /\ control = "disconnect" => watch = "none"
  /\ control \in {"idle", "configured", "initiated"} /\ ~initialized => feed = "idle"

Rest == {"New", "Stopped", "Failed"}

\* Where the control thread wants the state to go, outside a session.
Heading ==
  \/ control = "configured" /\ call["control"].target = "Frozen"
  \/ control = "initiated"  /\ call["control"].target = "Initiated"
  \/ control = "idle"       /\ call["control"].target \in {"Stopped", "Failed"}

\* Outside a session only the control thread acts on the state: the last
\* transition of Stop cannot be refused, and those of Init start from rest.
Settled ==
  control \in {"idle", "configured", "initiated"} /\ ~initialized =>
    /\ call["control"].at \in {"returned", "load", "swap", "reason"}
    /\ call["control"].at = "swap" =>
         call["control"].seen = state /\ control # "configured"
    /\ call["control"].at = "reason" =>
         call["control"].target = state /\ control # "configured"
    /\ call["control"].at # "returned" => Heading
    /\ call["control"].at = "returned" =>
         state \in Rest \/ (control = "initiated" /\ call["control"].ok)
    /\ call["control"].at \in {"load", "swap"} =>
         state \in Rest \/ (control = "idle" /\ call["control"].target = "Stopped")

LifeInv == TypeOK /\ SwapsLegally /\ Phases /\ Settled

-----------------------------------------------------------------------------
(* What a change of `call' for one thread keeps: everything about the others.*)

\* The activation a thread may be given by any step.
Legal(c) == c \in Calls /\ (c.at = "swap" => c.target \in Allowed(c.seen))

LEMMA CallSet ==
  ASSUME LifeInv, NEW t \in Threads, NEW c, Legal(c), call' = [call EXCEPT ![t] = c]
  PROVE  /\ call' \in [Threads -> Calls]
         /\ \A s \in Threads : call'[s] = IF s = t THEN c ELSE call[s]
         /\ SwapsLegally'
  BY DEF LifeInv, TypeOK, SwapsLegally, Legal, Calls

LEMMA ActivationLegal ==
  ASSUME NEW target \in States, NEW why \in Reasons
  PROVE  Legal(Activation(target, why))
  BY DEF Legal, Activation, Calls, States

LEMMA ReturnedLegal == ASSUME NEW ok \in BOOLEAN PROVE Legal(Returned(ok))
  BY DEF Legal, Returned, Calls, States, Reasons

\* Goes keeps the target, and is legal unless it goes to the swap.
LEMMA GoesLegal ==
  ASSUME LifeInv, NEW t \in Threads, NEW at \in {"reason", "why", "swap"}, Goes(t, at),
         at = "swap" => call[t].target \in Allowed(state)
  PROVE  \E c : Legal(c) /\ call' = [call EXCEPT ![t] = c] /\ c.at = at /\ c.target = call[t].target
  <1> DEFINE c == [call[t] EXCEPT !.at = at, !.seen = state]
  <1>1. call[t] \in Calls /\ state \in States
    BY DEF LifeInv, TypeOK, Calls
  <1>2. c \in Calls /\ c.at = at /\ c.seen = state /\ c.target = call[t].target
    BY <1>1 DEF Calls
  <1>3. call' = [call EXCEPT ![t] = c]
    BY DEF Goes
  <1>4. Legal(c)
    BY <1>2 DEF Legal
  <1> QED
    BY <1>2, <1>3, <1>4

LEMMA HealthLegal ==
  ASSUME LifeInv, NEW t \in Threads, NEW good \in BOOLEAN, OnMarketHealthChanged(t, good)
  PROVE  \E c : Legal(c) /\ call' = [call EXCEPT ![t] = c]
  <1> DEFINE c == [call[t] EXCEPT !.at = IF good THEN "good" ELSE "bad"]
  <1>1. call[t] \in Calls
    BY DEF LifeInv, TypeOK, Calls
  <1>2. c \in Calls /\ c.at # "swap"
    BY <1>1 DEF Calls
  <1>3. call' = [call EXCEPT ![t] = c]
    BY DEF OnMarketHealthChanged
  <1> QED
    BY <1>2, <1>3 DEF Legal

-----------------------------------------------------------------------------
(* The steps, by what they do to the activations.                          *)

Touch(t) == \E c : Legal(c) /\ call' = [call EXCEPT ![t] = c]

\* A step inside the lifecycle's code, of any thread: the thread was not free, the
\* state moves along an edge or not at all.
LEMMA CallStep ==
  ASSUME LifeInv, NEW t \in Threads, Call(t)
  PROVE  /\ Touch(t) /\ ~Free(t) /\ Others
         /\ state' \in States /\ reason' \in Reasons /\ lastReason' \in Reasons
         /\ state' # state => state' \in Allowed(state)
  <1>1. /\ call[t] \in Calls /\ state \in States /\ reason \in Reasons
        /\ lastReason \in Reasons
    BY DEF LifeInv, TypeOK, Calls
  <1>2. call[t].target \in States /\ call[t].why \in Reasons
    BY <1>1 DEF Calls
  <1>3. CASE Load(t)
    <2>1. ~Free(t) /\ Others /\ UNCHANGED life
      BY <1>3 DEF Load, Free
    <2>2. \/ Goes(t, "reason")
          \/ Goes(t, "swap") /\ call[t].target \in Allowed(state)
          \/ Returns(t, FALSE)
      BY <1>3 DEF Load
    <2>3. Touch(t)
      BY <2>2, GoesLegal, ReturnedLegal DEF Touch, Returns
    <2> QED BY <1>1, <2>1, <2>3 DEF life
  <1>4. CASE Swap(t)
    <2>1. ~Free(t) /\ Others /\ UNCHANGED reason
      BY <1>4 DEF Swap, Free
    <2>2. CASE state = call[t].seen
      <3>1. state' = call[t].target /\ lastReason' = call[t].why /\ Goes(t, "reason")
        BY <1>4, <2>2 DEF Swap
      <3>2. call[t].target \in Allowed(state)
        BY <1>4, <2>2 DEF Swap, LifeInv, SwapsLegally
      <3>3. Touch(t)
        BY <3>1, GoesLegal DEF Touch
      <3> QED BY <1>1, <1>2, <2>1, <3>1, <3>2, <3>3
    <2>3. CASE state # call[t].seen
      <3>1. Returns(t, FALSE) /\ UNCHANGED <<state, lastReason>>
        BY <1>4, <2>3 DEF Swap
      <3>2. Touch(t)
        BY <3>1, ReturnedLegal DEF Touch, Returns
      <3> QED BY <1>1, <2>1, <3>1, <3>2
    <2> QED BY <2>2, <2>3
  <1>5. CASE SetReason(t)
    <2>1. /\ ~Free(t) /\ Others /\ UNCHANGED <<state, lastReason>>
          /\ reason' = call[t].why /\ Returns(t, TRUE)
      BY <1>5 DEF SetReason, Free
    <2>2. Touch(t)
      BY <2>1, ReturnedLegal DEF Touch, Returns
    <2> QED BY <1>1, <1>2, <2>1, <2>2
  <1>6. CASE BadMarket(t) \/ GoodMarket(t) \/ WhyFrozen(t)
    <2>1. ~Free(t) /\ Others /\ UNCHANGED life
      BY <1>6 DEF BadMarket, GoodMarket, WhyFrozen, Free
    <2>2. \/ Transition(t, "Frozen", "MARKET_UNHEALTHY") \/ Transition(t, "Ready", "")
          \/ Goes(t, "why") \/ Returns(t, TRUE)
      BY <1>6 DEF BadMarket, GoodMarket, WhyFrozen
    <2>3. /\ Legal(Activation("Frozen", "MARKET_UNHEALTHY")) /\ Legal(Activation("Ready", ""))
      BY ActivationLegal DEF States, Reasons
    <2>4. Touch(t)
      BY <2>2, <2>3, GoesLegal, ReturnedLegal DEF Touch, Returns, Transition
    <2> QED BY <1>1, <2>1, <2>4 DEF life
  <1> QED
    BY <1>3, <1>4, <1>5, <1>6 DEF Call

\* A step of the control thread: it touches at most its own activation, which was
\* free, and neither the state nor the tick callback.
LEMMA ControlStep ==
  ASSUME LifeInv, Control
  PROVE  /\ Free("control")
         /\ UNCHANGED call \/ Touch("control")
         /\ UNCHANGED <<life, feed, sender>>
  <1>1. /\ Legal(Activation("Frozen", "CONFIG_EXPIRED")) /\ Legal(Activation("Failed", "FAILURE"))
        /\ Legal(Activation("Initiated", "")) /\ Legal(Activation("Draining", ""))
        /\ Legal(Activation("Stopped", ""))
    BY ActivationLegal DEF States, Reasons
  <1>2. CASE InitFetch \/ InitFails \/ InitInitiates \/ InitReturns \/ StartFails
    BY <1>1, <1>2 DEF InitFetch, InitFails, InitInitiates, InitReturns, StartFails,
                      ControlAt, Transition, Touch
  <1>3. CASE StartMonitor \/ StartModules \/ Stop \/ StopRunning
    BY <1>1, <1>3 DEF StartMonitor, StartModules, Stop, StopRunning,
                      ControlAt, Transition, Touch
  <1>4. CASE ReleaseMonitor \/ JoinWatch \/ DisconnectAdapters
    BY <1>1, <1>4 DEF ReleaseMonitor, JoinWatch, DisconnectAdapters,
                      ControlAt, Transition, Touch
  <1>5. CASE AdvanceReadyGates
    <2>1. UNCHANGED call \/ OnMarketHealthChanged("control", TRUE)
      BY <1>5 DEF AdvanceReadyGates
    <2>2. UNCHANGED call \/ Touch("control")
      BY <2>1, HealthLegal DEF Touch, Threads
    <2> QED BY <1>5, <2>2 DEF AdvanceReadyGates, ControlAt
  <1> QED
    BY <1>2, <1>3, <1>4, <1>5 DEF Control

\* A step of the tick callback, and one of the monitor's thread.
LEMMA FeedStep ==
  ASSUME LifeInv, TickArrives \/ Feed \/ Silence
  PROVE  /\ FeedOnly
         /\ \/ UNCHANGED call
            \/ Touch("feed") /\ feed' = "notifying"
         /\ Free("feed") \/ feed' = feed
         /\ feed # "idle" \/ feed' = "idle" \/ running
         /\ healthy' \in BOOLEAN /\ tick' \in {"none", "fresh", "stale"}
         /\ feed' \in {"idle", "valid", "invalid", "stamped", "notifying"}
  <1>1. healthy \in BOOLEAN /\ tick \in {"none", "fresh", "stale"}
        /\ feed \in {"idle", "valid", "invalid", "stamped", "notifying"}
        /\ (Free("feed") \/ feed = "notifying")
    BY DEF LifeInv, TypeOK
  <1>2. CASE OnValidTick \/ OnInvalidTick
    <2>1. PICK good \in BOOLEAN : MarkHealth(good) /\ feed \in {"stamped", "invalid"}
      BY <1>2 DEF OnValidTick, OnInvalidTick
    <2>2. UNCHANGED call \/ OnMarketHealthChanged("feed", good)
      BY <2>1 DEF MarkHealth
    <2>3. UNCHANGED call \/ Touch("feed")
      BY <2>2, HealthLegal DEF Touch, Threads
    <2> QED BY <1>1, <2>1, <2>3 DEF MarkHealth
  <1>3. CASE TickArrives \/ StampTick \/ TickDone \/ Silence
    BY <1>1, <1>3 DEF TickArrives, StampTick, TickDone, Silence
  <1> QED
    BY <1>2, <1>3 DEF Feed

LEMMA WatchStep ==
  ASSUME LifeInv, Watch
  PROVE  /\ WatchOnly
         /\ \/ UNCHANGED call
            \/ Touch("watch") /\ watch' = "notifying"
         /\ Free("watch") \/ watch' = watch
         /\ watch # "none"
         /\ healthy' \in BOOLEAN
         /\ watch' \in {"wait", "store", "notifying", "exited"}
  <1>1. healthy \in BOOLEAN /\ (Free("watch") \/ watch = "notifying")
    BY DEF LifeInv, TypeOK
  <1>2. CASE WatchStore
    <2>1. OnMarketHealthChanged("watch", FALSE)
      BY <1>2 DEF WatchStore
    <2>2. Touch("watch")
      BY <2>1, HealthLegal DEF Touch, Threads
    <2> QED BY <1>1, <1>2, <2>2 DEF WatchStore
  <1>3. CASE WatchTest \/ WatchDone
    BY <1>1, <1>3 DEF WatchTest, WatchDone
  <1> QED
    BY <1>2, <1>3 DEF Watch

-----------------------------------------------------------------------------
(* The invariant.                                                          *)

LEMMA TouchKeeps ==
  ASSUME LifeInv, NEW t \in Threads, Touch(t) \/ UNCHANGED call
  PROVE  /\ call' \in [Threads -> Calls] /\ SwapsLegally'
         /\ \A s \in Threads : s # t => call'[s] = call[s] /\ (Free(s)' <=> Free(s))
  <1>1. CASE Touch(t)
    <2>1. PICK c : Legal(c) /\ call' = [call EXCEPT ![t] = c]
      BY <1>1 DEF Touch
    <2>2. call' \in [Threads -> Calls] /\ SwapsLegally'
          /\ \A s \in Threads : call'[s] = IF s = t THEN c ELSE call[s]
      BY <2>1, CallSet
    <2> QED BY <2>2 DEF Free
  <1>2. CASE UNCHANGED call
    BY <1>2 DEF LifeInv, TypeOK, SwapsLegally, Calls, Free
  <1> QED
    BY <1>1, <1>2

LEMMA InitLifeInv == Init => LifeInv
  <1> SUFFICES ASSUME Init PROVE LifeInv
    OBVIOUS
  <1>1. Returned(TRUE) \in Calls
    BY ReturnedLegal DEF Legal
  <1>2. call \in [Threads -> Calls] /\ \A t \in Threads : call[t].at = "returned"
    BY <1>1 DEF Init, Returned
  <1>3. TypeOK
    BY <1>2 DEF Init, TypeOK, Calls, States, Reasons, Free, Threads
  <1>4. SwapsLegally
    BY <1>2 DEF SwapsLegally
  <1>5. Phases
    BY DEF Init, Phases
  <1>6. Settled
    BY <1>2 DEF Init, Settled, Rest, Threads
  <1> QED
    BY <1>3, <1>4, <1>5, <1>6 DEF LifeInv

Sending == SenderChecks \/ SenderSubmits

LEMMA TypeStep ==
  ASSUME LifeInv, Next
  PROVE  TypeOK' /\ SwapsLegally'
  <1>1. TypeOK
    BY DEF LifeInv
  <1>2. "control" \in Threads /\ "feed" \in Threads /\ "watch" \in Threads
    BY DEF Threads
  <1>3. CASE Control
    <2>1. /\ UNCHANGED call \/ Touch("control")
          /\ UNCHANGED <<life, feed, sender>>
      BY <1>3, ControlStep
    <2>2. /\ call' \in [Threads -> Calls] /\ SwapsLegally'
          /\ Free("feed")' <=> Free("feed")
          /\ Free("watch")' <=> Free("watch")
      BY <1>2, <2>1, TouchKeeps
    <2>3. /\ initialized' \in BOOLEAN /\ running' \in BOOLEAN
          /\ config' \in {"none", "valid", "expired"}
      BY <1>1, <1>3, EngineAssumption
         DEF TypeOK, Control, InitFetch, InitFails, InitInitiates, InitReturns, StartFails,
             StartMonitor, StartModules, AdvanceReadyGates, Stop, StopRunning,
             ReleaseMonitor, JoinWatch, DisconnectAdapters
    <2>4. /\ monitoring' \in BOOLEAN /\ healthy' \in BOOLEAN
          /\ tick' \in {"none", "fresh", "stale"}
      BY <1>1, <1>3
         DEF TypeOK, Control, InitFetch, InitFails, InitInitiates, InitReturns, StartFails,
             StartMonitor, StartModules, AdvanceReadyGates, Stop, StopRunning,
             ReleaseMonitor, JoinWatch, DisconnectAdapters, monitor
    <2>5. control' \in {"idle", "configured", "initiated", "modules", "gates",
                        "stopping", "release", "join", "disconnect"}
      BY <1>1, <1>3
         DEF TypeOK, Control, InitFetch, InitFails, InitInitiates, InitReturns, StartFails,
             StartMonitor, StartModules, AdvanceReadyGates, Stop, StopRunning,
             ReleaseMonitor, JoinWatch, DisconnectAdapters
    <2>6. /\ watch' \in {"none", "wait", "store", "notifying", "exited"}
          /\ Free("watch") \/ watch' = "notifying"
      <3>1. CASE StartMonitor
        BY <1>1, <3>1, <1>3 DEF StartMonitor, TypeOK, LifeInv, Phases, ControlAt
      <3>2. CASE JoinWatch
        BY <1>1, <3>2 DEF JoinWatch, TypeOK
      <3>3. CASE UNCHANGED watch
        BY <1>1, <3>3 DEF TypeOK
      <3> QED
        BY <1>3, <3>1, <3>2, <3>3
           DEF Control, InitFetch, InitFails, InitInitiates, InitReturns, StartFails,
               StartModules, AdvanceReadyGates, Stop, StopRunning,
               ReleaseMonitor, DisconnectAdapters
    <2> QED
      BY <1>1, <2>1, <2>2, <2>3, <2>4, <2>5, <2>6 DEF TypeOK, life, Calls
  <1>4. CASE TickArrives \/ Feed \/ Silence
    <2>1. /\ call' \in [Threads -> Calls] /\ SwapsLegally'
          /\ Free("watch")' <=> Free("watch")
          /\ (Free("feed")' <=> Free("feed")) \/ feed' = "notifying"
      BY <1>2, <1>4, FeedStep, TouchKeeps DEF Free
    <2> QED
      BY <1>1, <1>4, <2>1, FeedStep DEF TypeOK, FeedOnly, life, Calls
  <1>5. CASE Watch
    <2>1. /\ call' \in [Threads -> Calls] /\ SwapsLegally'
          /\ Free("feed")' <=> Free("feed")
          /\ (Free("watch")' <=> Free("watch")) \/ watch' = "notifying"
      BY <1>2, <1>5, WatchStep, TouchKeeps DEF Free
    <2> QED
      BY <1>1, <1>5, <2>1, WatchStep DEF TypeOK, WatchOnly, life, Calls
  <1>6. CASE Sending
    BY <1>1, <1>6
       DEF Sending, SenderChecks, SenderSubmits, SenderOnly, TypeOK, LifeInv, SwapsLegally,
           life, monitor, Free
  <1>7. ASSUME NEW t \in Threads, Call(t) PROVE TypeOK' /\ SwapsLegally'
    <2>1. /\ Touch(t) /\ ~Free(t) /\ Others
          /\ state' \in States /\ reason' \in Reasons /\ lastReason' \in Reasons
      BY <1>7, CallStep
    <2>2. /\ call' \in [Threads -> Calls] /\ SwapsLegally'
          /\ \A s \in Threads : s # t => (Free(s)' <=> Free(s))
      BY <2>1, TouchKeeps
    <2>3. /\ Free("feed")' \/ feed = "notifying"
          /\ Free("watch")' \/ watch = "notifying"
      BY <1>1, <1>2, <2>1, <2>2 DEF TypeOK
    <2> QED
      BY <1>1, <2>1, <2>2, <2>3 DEF TypeOK, Others, monitor, Calls
  <1> QED
    BY <1>3, <1>4, <1>5, <1>6, <1>7 DEF Next, Sending

LEMMA PhaseStep ==
  ASSUME LifeInv, Next
  PROVE  Phases'
  <1>1. Phases /\ initialized \in BOOLEAN /\ running \in BOOLEAN /\ monitoring \in BOOLEAN
    BY DEF LifeInv, TypeOK
  <1>2. CASE Control
    <2>1. CASE InitFetch
      BY <1>1, <2>1 DEF InitFetch, ControlAt, monitor, Phases
    <2>2. CASE InitFails
      BY <1>1, <2>2 DEF InitFails, ControlAt, monitor, Phases
    <2>3. CASE InitInitiates
      BY <1>1, <2>3 DEF InitInitiates, ControlAt, monitor, Phases
    <2>4. CASE InitReturns
      BY <1>1, <2>4 DEF InitReturns, ControlAt, monitor, Phases
    <2>5. CASE StartFails
      BY <1>1, <2>5 DEF StartFails, ControlAt, monitor, Phases
    <2>6. CASE StartMonitor
      BY <1>1, <2>6 DEF StartMonitor, ControlAt, monitor, Phases
    <2>7. CASE StartModules
      BY <1>1, <2>7 DEF StartModules, ControlAt, monitor, Phases
    <2>8. CASE AdvanceReadyGates
      BY <1>1, <2>8 DEF AdvanceReadyGates, ControlAt, monitor, Phases
    <2>9. CASE Stop
      BY <1>1, <2>9 DEF Stop, ControlAt, monitor, Phases
    <2>10. CASE StopRunning
      BY <1>1, <2>10 DEF StopRunning, ControlAt, monitor, Phases
    <2>11. CASE ReleaseMonitor
      BY <1>1, <2>11 DEF ReleaseMonitor, ControlAt, monitor, Phases
    <2>12. CASE JoinWatch
      BY <1>1, <2>12 DEF JoinWatch, ControlAt, monitor, Phases
    <2>13. CASE DisconnectAdapters
      BY <1>1, <2>13 DEF DisconnectAdapters, ControlAt, monitor, Phases
    <2> QED
      BY <1>2, <2>1, <2>2, <2>3, <2>4, <2>5, <2>6, <2>7,
         <2>8, <2>9, <2>10, <2>11, <2>12, <2>13 DEF Control
  <1>3. CASE TickArrives \/ Feed \/ Silence
    BY <1>1, <1>3, FeedStep DEF FeedOnly, Phases
  <1>4. CASE Watch
    BY <1>1, <1>4, WatchStep DEF WatchOnly, Phases
  <1>5. CASE Sending
    BY <1>1, <1>5 DEF Sending, SenderChecks, SenderSubmits, SenderOnly, monitor, Phases
  <1>6. ASSUME NEW t \in Threads, Call(t) PROVE Phases'
    BY <1>1, <1>6, CallStep DEF Others, monitor, Phases
  <1> QED
    BY <1>2, <1>3, <1>4, <1>5, <1>6 DEF Next, Sending

\* The table, as far as the first and the last transition of a session need it.
LEMMA FromRest == ASSUME NEW s \in Rest PROVE "Frozen" \notin Allowed(s)
  BY DEF Rest, Allowed

LEMMA ToStopped == ASSUME NEW s \in States, s # "Stopped" PROVE "Stopped" \in Allowed(s)
  BY DEF States, Allowed

LEMMA NoSelfEdge == ASSUME NEW s \in States PROVE s \notin Allowed(s)
  BY DEF States, Allowed

LEMMA SettledStep ==
  ASSUME LifeInv, Next
  PROVE  Settled'
  <1>1. Phases /\ TypeOK /\ Settled
    BY DEF LifeInv
  <1>2. /\ "control" \in Threads /\ "feed" \in Threads /\ "watch" \in Threads
        /\ call \in [Threads -> Calls] /\ call["control"] \in Calls
    BY <1>1 DEF Threads, TypeOK, Calls
  <1>3. CASE Control
    <2>1. Free("control") /\ UNCHANGED state
      BY <1>3, ControlStep DEF life
    <2>2. ASSUME NEW target, NEW why, Transition("control", target, why)
          PROVE  call'["control"].at = "load" /\ call'["control"].target = target
      BY <1>2, <2>2 DEF Transition, Activation
    <2>3. ASSUME control \in {"idle", "configured", "initiated"}, ~initialized
          PROVE  state \in Rest \/ (control = "initiated" /\ call["control"].ok)
      BY <1>1, <2>1, <2>3 DEF Settled, Free
    <2>4. CASE InitFetch
      <3>1. state' \in Rest /\ control' = "configured"
        BY <2>1, <2>3, <2>4 DEF InitFetch, ControlAt
      <3>2. \/ call'["control"].at = "load" /\ call'["control"].target = "Frozen"
            \/ call'["control"].at = "returned"
        BY <2>1, <2>2, <2>4 DEF InitFetch, Free
      <3> QED BY <3>1, <3>2 DEF Settled, Heading
    <2>5. CASE InitFails \/ InitInitiates
      <3>1. state' \in Rest /\ call'["control"].at = "load"
        BY <1>1, <2>1, <2>2, <2>3, <2>5 DEF InitFails, InitInitiates, ControlAt, Phases
      <3>2. \/ control' = "idle" /\ call'["control"].target = "Failed"
            \/ control' = "initiated" /\ call'["control"].target = "Initiated"
        BY <2>2, <2>5 DEF InitFails, InitInitiates
      <3> QED BY <3>1, <3>2 DEF Settled, Heading
    <2>6. CASE InitReturns
      <3>1. CASE call["control"].ok
        BY <2>6, <3>1 DEF InitReturns, Settled
      <3>2. CASE ~call["control"].ok
        <4>1. Transition("control", "Failed", "FAILURE") /\ control' = "idle"
          BY <2>6, <3>2 DEF InitReturns
        <4>2. call'["control"].at = "load" /\ call'["control"].target = "Failed"
          BY <2>2, <4>1
        <4>3. state' \in Rest
          BY <1>1, <2>1, <2>3, <2>6, <3>2 DEF InitReturns, ControlAt, Phases
        <4> QED BY <4>1, <4>2, <4>3 DEF Settled, Heading
      <3> QED BY <3>1, <3>2
    <2>7. CASE DisconnectAdapters
      <3>1. /\ control' = "idle" /\ call'["control"].at = "load"
            /\ call'["control"].target = "Stopped"
        BY <2>2, <2>7 DEF DisconnectAdapters
      <3> QED BY <3>1 DEF Settled, Heading
    <2>8. CASE StartFails \/ StartMonitor \/ StartModules \/ AdvanceReadyGates \/ Stop
               \/ StopRunning \/ ReleaseMonitor \/ JoinWatch
      BY <1>1, <2>8 DEF StartFails, StartMonitor, StartModules, AdvanceReadyGates, Stop,
                        StopRunning, ReleaseMonitor, JoinWatch, ControlAt, Phases, Settled
    <2> QED
      BY <1>3, <2>4, <2>5, <2>6, <2>8, <2>7 DEF Control
  <1>4. CASE TickArrives \/ Feed \/ Silence \/ Watch \/ Sending
    <2>1. call'["control"] = call["control"]
      BY <1>2, <1>4, FeedStep, WatchStep, TouchKeeps
         DEF Sending, SenderChecks, SenderSubmits, SenderOnly
    <2>2. UNCHANGED <<state, initialized, control>>
      BY <1>4, FeedStep, WatchStep
         DEF Sending, SenderChecks, SenderSubmits, SenderOnly, FeedOnly, WatchOnly, life
    <2> QED
      BY <1>1, <2>1, <2>2 DEF Settled, Heading
  <1>5. ASSUME NEW t \in Threads, Call(t) PROVE Settled'
    <2>1. /\ Touch(t) /\ ~Free(t) /\ UNCHANGED <<initialized, control, feed, watch>>
      BY <1>5, CallStep DEF Others
    <2> SUFFICES ASSUME control \in {"idle", "configured", "initiated"}, ~initialized
                 PROVE  Settled'
      BY <2>1 DEF Settled, Heading
    <2>2. t = "control"
      BY <1>1, <2>1 DEF Phases, TypeOK, Threads
    <2>3. call["control"].at \in {"load", "swap", "reason"}
      BY <1>1, <2>1, <2>2 DEF Settled, Heading, Free
    <2>4. ASSUME NEW ok \in BOOLEAN, Returns(t, ok)
          PROVE  call'["control"].at = "returned" /\ (ok => call'["control"].ok)
      <3>1. call'["control"] = Returned(ok)
        BY <1>2, <2>2, <2>4 DEF Returns
      <3>2. Returned(ok).at = "returned" /\ Returned(ok).ok = ok
        BY DEF Returned
      <3> QED BY <3>1, <3>2
    <2>5. ASSUME NEW at, Goes(t, at)
           PROVE  /\ call'["control"].at = at /\ call'["control"].seen = state
                  /\ call'["control"].target = call["control"].target
      <3> DEFINE c == [call["control"] EXCEPT !.at = at, !.seen = state]
      <3>1. call'["control"] = c
        BY <1>2, <2>2, <2>5 DEF Goes
      <3>2. c.at = at /\ c.seen = state /\ c.target = call["control"].target
        BY <1>2 DEF Calls
      <3> QED BY <3>1, <3>2
    <2>6. Heading
      BY <1>1, <2>3 DEF Settled
    <2>7. CASE Load(t)
      <3>1. /\ call[t].target = state => Goes(t, "reason")
            /\ UNCHANGED state
        BY <1>1, <2>7, NoSelfEdge DEF Load, life, TypeOK
      <3>2. state \in Rest \/ (control = "idle" /\ call["control"].target = "Stopped")
        BY <1>1, <2>2, <2>7 DEF Load, Settled
      <3>3. Heading
        BY <2>6
      <3>4. state \in States
        BY <1>1 DEF TypeOK
      <3>5. CASE call["control"].target = state
        <4>1. Goes(t, "reason") /\ UNCHANGED state
          BY <2>2, <3>5, <3>1
        <4> QED BY <2>1, <2>5, <3>2, <3>3, <3>5, <4>1 DEF Settled, Heading, Rest
      <3>6. CASE call["control"].target # state /\ call["control"].target \in Allowed(state)
        <4>1. Goes(t, "swap") /\ UNCHANGED state
          BY <2>2, <2>7, <3>6 DEF Load, life
        <4>2. control # "configured"
          BY <3>2, <3>3, <3>6, FromRest DEF Heading
        <4> QED BY <2>1, <2>5, <3>2, <3>3, <4>1, <4>2 DEF Settled, Heading
      <3>7. CASE call["control"].target # state /\ call["control"].target \notin Allowed(state)
        <4>1. Returns(t, FALSE) /\ UNCHANGED state
          BY <2>2, <2>7, <3>7 DEF Load, life
        <4>2. state \in Rest
          BY <3>2, <3>4, <3>7, ToStopped DEF Rest
        <4> QED BY <2>1, <2>4, <4>1, <4>2 DEF Settled
      <3> QED BY <3>5, <3>6, <3>7
    <2>8. CASE Swap(t)
      <3>1. state = call["control"].seen /\ control # "configured"
        BY <1>1, <2>2, <2>8 DEF Swap, Settled
      <3>2. state' = call["control"].target /\ Goes(t, "reason")
        BY <2>2, <2>8, <3>1 DEF Swap
      <3>3. /\ call'["control"].at = "reason"
            /\ call'["control"].target = call["control"].target
        BY <2>5, <3>2
      <3> QED BY <2>1, <2>6, <3>1, <3>2, <3>3 DEF Settled, Heading
    <2>9. CASE SetReason(t)
      <3>1. /\ call["control"].target = state /\ control # "configured"
            /\ Returns(t, TRUE) /\ UNCHANGED state
        BY <1>1, <2>2, <2>9 DEF SetReason, Settled
      <3>2. call'["control"].at = "returned" /\ call'["control"].ok
        BY <2>4, <3>1
      <3>3. state' \in Rest \/ control' = "initiated"
        BY <2>1, <2>6, <3>1 DEF Heading, Rest
      <3> QED BY <3>2, <3>3 DEF Settled
    <2>10. ~(BadMarket(t) \/ GoodMarket(t) \/ WhyFrozen(t))
      BY <2>2, <2>3 DEF BadMarket, GoodMarket, WhyFrozen
    <2> QED
      BY <1>5, <2>7, <2>8, <2>9, <2>10 DEF Call
  <1> QED
    BY <1>3, <1>4, <1>5 DEF Next, Sending

LEMMA StutterKeeps == ASSUME LifeInv, UNCHANGED vars PROVE LifeInv'
  BY DEF LifeInv, TypeOK, SwapsLegally, Phases, Settled, Heading, vars, Free

\* The strengthening holds in every state the engine can be in, whatever its
\* threads do to each other.
THEOREM LifeInvariant == Spec => []LifeInv
  <1>1. LifeInv /\ [Next]_vars => LifeInv'
    <2>1. LifeInv /\ Next => LifeInv'
      BY TypeStep, PhaseStep, SettledStep DEF LifeInv
    <2> QED BY <2>1, StutterKeeps
  <1> QED
    BY <1>1, InitLifeInv, PTL DEF Spec

\* The type invariant: in particular the tick callback and the monitor's thread
\* are inside the lifecycle's code only from where they notify it.
THEOREM EngineTypeCorrect == Spec => []TypeOK
  <1>1. LifeInv => TypeOK
    BY DEF LifeInv
  <1> QED
    BY <1>1, LifeInvariant, PTL

\* Every change of EngineLifecycle::state_ is an edge of IsAllowedTransition's
\* table, although several threads transition without a common lock.
THEOREM TransitionsLegal == Spec => LegalSteps
  <1>1. LifeInv /\ [Next]_vars => [state' # state => state' \in Allowed(state)]_vars
    <2> SUFFICES ASSUME LifeInv, Next, state' # state
                 PROVE  state' \in Allowed(state)
      BY DEF vars
    <2>1. ~(Control \/ TickArrives \/ Feed \/ Silence \/ Watch \/ Sending)
      BY ControlStep, FeedStep, WatchStep
         DEF Sending, SenderChecks, SenderSubmits, SenderOnly, FeedOnly, WatchOnly, life
    <2>2. PICK t \in Threads : Call(t)
      BY <2>1 DEF Next, Sending
    <2> QED
      BY <2>2, CallStep
  <1> QED
    BY <1>1, LifeInvariant, PTL DEF Spec, LegalSteps

\* When TradingEngine::Stop has returned, or before Init, the state is one of rest,
\* and neither the monitor's thread nor a tick callback is left to change it.
THEOREM QuietAfterStop == Spec => []StoppedIsQuiet
  <1>1. LifeInv => StoppedIsQuiet
    BY DEF LifeInv, TypeOK, Phases, Settled, StoppedIsQuiet, ControlAt, Free, Rest
  <1> QED
    BY <1>1, LifeInvariant, PTL
=============================================================================
