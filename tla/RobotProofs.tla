----------------------------- MODULE RobotProofs -----------------------------
(***************************************************************************)
(* Proofs about Robot, for any set of commands, any timeout and queues of  *)
(* any length: type correctness, then one inductive invariant from which   *)
(* the watchdog invariants, the enable flags and ActiveSessionKept follow. *)
(***************************************************************************)
EXTENDS Robot, TLAPS

\* An event in the queue has a source, and a control event one of the commands.
LEMMA EventsType ==
    \A ev \in Events : ev.source \in Sources /\ ev.type \in
        {"control", "stop", "critical_error", "timeout"}
  <1>1. \A ev \in ControlEvents : ev.source \in Sources /\ ev.type = "control"
    BY CommandsAssumption DEF ControlEvents
  <1>2. \A ev \in OtherEvents : ev.source = "none" /\ ev.type \in {"stop", "critical_error"}
    BY TypesAssumption DEF OtherEvents
  <1>3. "none" \in Sources
    BY DEF Sources
  <1>. QED  BY <1>1, <1>2, <1>3 DEF Events, TimeoutEvent

LEMMA FlagsType ==
    /\ \A e \in BOOLEAN : setEnableSensorContinuousReadings(e) \in [Controllers -> BOOLEAN]
    /\ \A child, flags : flags \in [Controllers -> BOOLEAN]
          => EnabledIn(child, flags) \in [Controllers -> BOOLEAN]
  BY DEF setEnableSensorContinuousReadings, EnabledIn

\* What the two settings of setEnableSensorContinuousReadings enable.
LEMMA FlagsValue ==
    /\ \A c \in Controllers : setEnableSensorContinuousReadings(TRUE)[c] <=> c \in Sensors
    /\ \A c \in Controllers : setEnableSensorContinuousReadings(FALSE)[c] <=> c \in Actuators
  BY DEF setEnableSensorContinuousReadings, Controllers, Sensors, Actuators

LEMMA ChildType == \A s : ChildFor(s) \in MovingSubtree
  BY DEF ChildFor, MovingSubtree, MovingChildren

\* The body after a command from a known source.
LEMMA BodyType ==
    ASSUME TypeOK, NEW ev, ev.source \in Sources, NEW flags
    PROVE  /\ MotorAfter(ev, flags) \in Sources \cup {"stopped"}
           /\ JointsAfter(ev, flags) \in Sources \cup {"rest"}
  BY DEF TypeOK, MotorAfter, JointsAfter

LEMMA InitTypeOK == Init => TypeOK
  <1>. SUFFICES ASSUME Init PROVE TypeOK
    OBVIOUS
  <1>1. cause \in Events
    BY DEF Init, Events
  <1>2. /\ sinceLastEvent \in 0 .. Timeout /\ ownerSilence \in 0 .. Timeout
        /\ sleepLeft \in 0 .. EntryDelay
        /\ posts \in [Sources -> 0 .. MaxPosts]
    BY BoundsAssumption, TimesAssumption DEF Init
  <1>3. enabled \in [Controllers -> BOOLEAN]
    BY DEF Init
  <1>4. eventQueue \in Seq(Events) /\ timers \in Seq(0 .. Timeout)
    BY DEF Init
  <1>. QED  BY <1>1, <1>2, <1>3, <1>4 DEF Init, TypeOK, States, Sources

LEMMA PopTypeOK ==
    ASSUME TypeOK, NEW ev \in Events, PopEvent(ev)
    PROVE  eventQueue' \in Seq(Events)
  BY DEF TypeOK, PopEvent

\* Every step keeps the types.
LEMMA NextTypeOK == TypeOK /\ [Next]_vars => TypeOK'
  <1>. SUFFICES ASSUME TypeOK, [Next]_vars PROVE TypeOK'
    OBVIOUS
  <1>. USE DEF workerVars, bodyVars, clockVars
  <1>1. CASE Start
    BY <1>1 DEF Start, TypeOK
  <1>2. CASE EnterInitialState
    BY <1>2, FlagsType DEF EnterInitialState, TypeOK, States
  <1>3. ASSUME NEW ev \in ControlEvents \cup OtherEvents, postEvent(ev) PROVE TypeOK'
    <2>1. ev \in Events /\ ev.source \in Sources
      BY EventsType DEF Events
    <2>2. eventQueue' \in Seq(Events)
      BY <1>3, <2>1 DEF postEvent, TypeOK
    <2>3. posts' \in [Sources -> 0 .. MaxPosts]
      <3>1. CASE ev.source \in Continuous
        BY <1>3, <3>1 DEF postEvent, TypeOK
      <3>2. CASE ev.source \notin Continuous
        <4>1. posts[ev.source] + 1 \in 0 .. MaxPosts
          BY <1>3, <2>1, <3>2, BoundsAssumption DEF postEvent, TypeOK
        <4>. QED  BY <1>3, <2>1, <3>2, <4>1 DEF postEvent, TypeOK
      <3>. QED  BY <3>1, <3>2
    <2>. QED  BY <1>3, <2>2, <2>3 DEF postEvent, TypeOK
  <1>4. CASE stop
    BY <1>4 DEF stop, TypeOK
  <1>5. CASE Tick
    <2>1. timers' \in Seq(0 .. Timeout)
      BY <1>5, TimesAssumption DEF Tick, TypeOK, Decrement
    <2>2. sleepLeft' \in 0 .. EntryDelay /\ sinceLastEvent' \in 0 .. Timeout
              /\ ownerSilence' \in 0 .. Timeout
      BY <1>5, TimesAssumption DEF Tick, TypeOK, Decrement, Saturate
    <2>. QED  BY <1>5, <2>1, <2>2 DEF Tick, TypeOK
  <1>6. CASE CheckRunning
    BY <1>6 DEF CheckRunning, TypeOK
  <1>7. CASE PostDueTimer
    <2>1. eventQueue' \in Seq(Events)
      BY <1>7 DEF PostDueTimer, TypeOK, Events
    <2>2. timers' \in Seq(0 .. Timeout)
      BY <1>7 DEF PostDueTimer, TypeOK, TimerDue
    <2>. QED  BY <1>7, <2>1, <2>2 DEF PostDueTimer, TypeOK
  <1>8. CASE TimersPosted
    BY <1>8 DEF TimersPosted, TypeOK
  <1>9. CASE WakeWithoutEvent
    BY <1>9 DEF WakeWithoutEvent, TypeOK
  <1>10. ASSUME NEW ev \in Events, dispatch(ev) PROVE TypeOK'
    <2>0. ev.source \in Sources
      BY EventsType
    <2>1. PopEvent(ev)
      BY <1>10 DEF dispatch, HandleControl, SkipTimeout, LeaveMoving, Fail, LeaveIdle, Ignore
    <2>2. eventQueue' \in Seq(Events)
      BY <2>1, PopTypeOK
    <2>3. CASE HandleControl(ev)
      <3>1. motor' \in Sources \cup {"stopped"} /\ joints' \in Sources \cup {"rest"}
        BY <2>0, <2>3, BodyType DEF HandleControl, TypeOK
      <3>2. sinceLastEvent' \in 0 .. Timeout /\ ownerSilence' \in 0 .. Timeout
        BY <2>3, TimesAssumption DEF HandleControl, TypeOK
      <3>. QED  BY <2>1, <2>2, <2>3, <3>1, <3>2 DEF HandleControl, PopEvent, TypeOK
    <2>4. CASE SkipTimeout(ev)
      <3>1. timers' \in Seq(0 .. Timeout)
        BY <2>4, TimesAssumption DEF SkipTimeout, Armed, TypeOK
      <3>. QED  BY <2>1, <2>2, <2>4, <3>1 DEF SkipTimeout, PopEvent, TypeOK
    <2>5. CASE LeaveMoving(ev)
      BY <2>1, <2>2, <2>5, FlagsType DEF LeaveMoving, PopEvent, TypeOK, States
    <2>6. CASE Fail(ev)
      BY <2>1, <2>2, <2>6 DEF Fail, PopEvent, TypeOK, States
    <2>7. CASE LeaveIdle(ev)
      <3>1. enabled' \in [Controllers -> BOOLEAN]
        BY <2>7, FlagsType DEF LeaveIdle
      <3>2. sleepLeft' \in 0 .. EntryDelay
        BY <2>7, TimesAssumption DEF LeaveIdle
      <3>. QED  BY <2>1, <2>2, <2>7, <3>1, <3>2 DEF LeaveIdle, PopEvent, TypeOK
    <2>8. CASE Ignore(ev)
      BY <2>1, <2>2, <2>8 DEF Ignore, PopEvent, TypeOK
    <2>. QED  BY <1>10, <2>3, <2>4, <2>5, <2>6, <2>7, <2>8 DEF dispatch
  <1>11. CASE EnterMoving
    <2>1. cause.source \in Sources
      BY EventsType DEF TypeOK
    <2>2. timers' \in Seq(0 .. Timeout)
      BY <1>11, TimesAssumption DEF EnterMoving, Armed, TypeOK
    <2>3. currentState' \in States /\ enabled' \in [Controllers -> BOOLEAN]
      BY <1>11, ChildType, FlagsType DEF EnterMoving, TypeOK, States
    <2>4. motor' \in Sources \cup {"stopped"} /\ joints' \in Sources \cup {"rest"}
      BY <1>11, <2>1, BodyType DEF EnterMoving, TypeOK
    <2>5. sinceLastEvent' \in 0 .. Timeout /\ ownerSilence' \in 0 .. Timeout
      BY <1>11, TimesAssumption DEF EnterMoving, TypeOK
    <2>6. entrySource' \in Sources
      BY <1>11, <2>1 DEF EnterMoving, TypeOK
    <2>. QED  BY <1>11, <2>2, <2>3, <2>4, <2>5, <2>6 DEF EnterMoving, TypeOK
  <1>12. CASE UNCHANGED vars
    BY <1>12 DEF vars, TypeOK
  <1>. QED
    BY <1>1, <1>2, <1>3, <1>4, <1>5, <1>6, <1>7, <1>8, <1>9, <1>10, <1>11, <1>12
    DEF Next, Worker

\* The state machine keeps the types of its variables: no event is queued that
\* no service posts, and no timer or clock leaves its range.
THEOREM TypeCorrect == Spec => []TypeOK
  BY InitTypeOK, NextTypeOK, PTL DEF Spec
-----------------------------------------------------------------------------
(***************************************************************************)
(* The inductive invariant.  The watchdog and the enable flags are not     *)
(* inductive alone: they need to know where start() is (StartInv), and in  *)
(* which state and with which flags the entry into MovingState sleeps      *)
(* (SleepInv); ActiveSessionKept needs that a session's owner has been     *)
(* silent for at least as long as _lastEventTime is old (SilenceInv).      *)
(***************************************************************************)
StartInv ==
    startPc # "done" =>
        /\ currentState = "nullptr" /\ workerPc # "sleeping"
        /\ eventQueue = <<>> /\ timers = <<>>

SleepInv ==
    workerPc = "sleeping" =>
        /\ currentState = "Idle" /\ cause.type = "control"
        /\ enabled = setEnableSensorContinuousReadings(FALSE)

SilenceInv == currentState \in MovingChildren => ownerSilence >= sinceLastEvent

IInv ==
    /\ StartInv /\ SleepInv /\ SilenceInv
    /\ WatchdogArmed /\ WatchdogUnique /\ EnableMatchesState

-----------------------------------------------------------------------------
\* Posting a command does not change which timeouts are queued.
LEMMA AppendOther ==
    ASSUME TypeOK, NEW ev \in Events, ev.type # "timeout",
           eventQueue' = Append(eventQueue, ev)
    PROVE  /\ TimeoutQueued' <=> TimeoutQueued
           /\ SingleTimeoutQueued => SingleTimeoutQueued'
  <1>. DEFINE n == Len(eventQueue)
  <1>1. /\ n \in Nat /\ Len(eventQueue') = n + 1 /\ eventQueue'[n + 1] = ev
        /\ \A i \in 1 .. n : eventQueue'[i] = eventQueue[i]
    BY DEF TypeOK
  <1>2. ASSUME NEW i \in 1 .. n + 1, eventQueue'[i].type = "timeout"
        PROVE  i \in 1 .. n /\ eventQueue[i].type = "timeout"
    <2>1. i # n + 1
      BY <1>1, <1>2
    <2>2. i \in 1 .. n
      BY <1>1, <2>1
    <2>. QED  BY <1>1, <1>2, <2>2
  <1>3. TimeoutQueued' => TimeoutQueued
    BY <1>1, <1>2 DEF TimeoutQueued
  <1>4. TimeoutQueued => TimeoutQueued'
    BY <1>1 DEF TimeoutQueued
  <1>5. SingleTimeoutQueued => SingleTimeoutQueued'
    BY <1>1, <1>2 DEF SingleTimeoutQueued
  <1>. QED  BY <1>3, <1>4, <1>5

\* A timer that becomes due adds one timeout at the end of the queue.
LEMMA AppendTimeout ==
    ASSUME TypeOK, eventQueue' = Append(eventQueue, TimeoutEvent)
    PROVE  /\ TimeoutQueued'
           /\ ~TimeoutQueued => SingleTimeoutQueued'
  <1>. DEFINE n == Len(eventQueue) + 1
  <1>0. n \in Nat /\ Len(eventQueue) \in Nat
    BY DEF TypeOK
  <1>1. Len(eventQueue') = n /\ eventQueue'[n] = TimeoutEvent
        /\ \A i \in 1 .. Len(eventQueue) : eventQueue'[i] = eventQueue[i]
    BY DEF TypeOK
  <1>2. TimeoutQueued'
    BY <1>0, <1>1 DEF TimeoutQueued, TimeoutEvent
  <1>3. ASSUME ~TimeoutQueued,
               NEW i \in 1 .. n, eventQueue'[i].type = "timeout"
        PROVE  i = n
    <2>. HIDE DEF n
    <2>1. i \notin 1 .. Len(eventQueue)
      BY <1>1, <1>3 DEF TimeoutQueued
    <2>. QED  BY <2>1, <1>0 DEF n
  <1>. QED  BY <1>1, <1>2, <1>3 DEF SingleTimeoutQueued

\* Popping another event does not change which timeouts are queued.
LEMMA PopOther ==
    ASSUME TypeOK, NEW ev \in Events, PopEvent(ev), ev.type # "timeout"
    PROVE  /\ TimeoutQueued' <=> TimeoutQueued
           /\ SingleTimeoutQueued => SingleTimeoutQueued'
  <1>1. /\ Len(eventQueue) \in Nat \ {0} /\ Len(eventQueue') = Len(eventQueue) - 1
        /\ eventQueue[1] = ev
        /\ \A i \in 1 .. Len(eventQueue') : eventQueue'[i] = eventQueue[i + 1]
    BY DEF TypeOK, PopEvent
  <1>2. ASSUME TimeoutQueued PROVE TimeoutQueued'
    <2>1. PICK i \in 1 .. Len(eventQueue) : eventQueue[i].type = "timeout"
      BY <1>2 DEF TimeoutQueued
    <2>2. i # 1
      BY <2>1, <1>1
    <2>3. i - 1 \in 1 .. Len(eventQueue') /\ eventQueue'[i - 1] = eventQueue[i]
      BY <2>2, <1>1
    <2>. QED  BY <2>1, <2>3 DEF TimeoutQueued
  <1>3. TimeoutQueued' => TimeoutQueued
    BY <1>1 DEF TimeoutQueued
  <1>4. ASSUME SingleTimeoutQueued,
               NEW i \in 1 .. Len(eventQueue'), NEW j \in 1 .. Len(eventQueue'),
               eventQueue'[i].type = "timeout", eventQueue'[j].type = "timeout"
        PROVE  i = j
    <2>1. i + 1 \in 1 .. Len(eventQueue) /\ j + 1 \in 1 .. Len(eventQueue)
      BY <1>1
    <2>2. i + 1 = j + 1
      BY <1>1, <1>4, <2>1 DEF SingleTimeoutQueued
    <2>. QED  BY <2>2
  <1>. QED  BY <1>2, <1>3, <1>4 DEF SingleTimeoutQueued

\* Popping the only timeout leaves none.
LEMMA PopTimeout ==
    ASSUME TypeOK, NEW ev \in Events, PopEvent(ev), ev.type = "timeout"
    PROVE  /\ TimeoutQueued
           /\ SingleTimeoutQueued => ~TimeoutQueued' /\ SingleTimeoutQueued'
  <1>1. /\ Len(eventQueue) \in Nat \ {0} /\ Len(eventQueue') = Len(eventQueue) - 1
        /\ eventQueue[1] = ev
        /\ \A i \in 1 .. Len(eventQueue') : eventQueue'[i] = eventQueue[i + 1]
    BY DEF TypeOK, PopEvent
  <1>2. TimeoutQueued
    BY <1>1 DEF TimeoutQueued
  <1>3. ASSUME SingleTimeoutQueued PROVE ~TimeoutQueued'
    BY <1>1, <1>3 DEF TimeoutQueued, SingleTimeoutQueued
  <1>4. ASSUME SingleTimeoutQueued,
               NEW i \in 1 .. Len(eventQueue'), NEW j \in 1 .. Len(eventQueue'),
               eventQueue'[i].type = "timeout", eventQueue'[j].type = "timeout"
        PROVE  i = j
    <2>1. i + 1 \in 1 .. Len(eventQueue) /\ j + 1 \in 1 .. Len(eventQueue)
      BY <1>1
    <2>2. i + 1 = j + 1
      BY <1>1, <1>4, <2>1 DEF SingleTimeoutQueued
    <2>. QED  BY <2>2
  <1>. QED  BY <1>2, <1>3, <1>4 DEF SingleTimeoutQueued

-----------------------------------------------------------------------------
LEMMA InitIInv == Init => IInv
  BY DEF Init, IInv, StartInv, SleepInv, SilenceInv, WatchdogArmed, WatchdogUnique,
         EnableMatchesState, InMoving, MovingSubtree, MovingChildren,
         TimeoutQueued, SingleTimeoutQueued

\* Steps that move neither the state machine nor the flags.
LEMMA QuietStep ==
    ASSUME TypeOK, IInv,
           UNCHANGED <<startPc, currentState, enabled, cause, eventQueue, timers,
                       sinceLastEvent, ownerSilence>>,
           running' => running,
           workerPc' = "sleeping" <=> workerPc = "sleeping"
    PROVE  IInv'
  BY DEF IInv, StartInv, SleepInv, SilenceInv, WatchdogArmed, WatchdogUnique,
         EnableMatchesState, InMoving, TimeoutQueued, SingleTimeoutQueued

LEMMA StartIInv == TypeOK /\ IInv /\ Start => IInv'
  BY DEF Start, workerVars, bodyVars, clockVars, IInv, StartInv, SleepInv, SilenceInv,
         WatchdogArmed, WatchdogUnique, EnableMatchesState, InMoving,
         MovingSubtree, MovingChildren, TimeoutQueued, SingleTimeoutQueued

LEMMA EnterInitialStateIInv == TypeOK /\ IInv /\ EnterInitialState => IInv'
  BY FlagsValue DEF EnterInitialState, workerVars, bodyVars, clockVars, IInv, StartInv, SleepInv,
         SilenceInv, WatchdogArmed, WatchdogUnique, EnableMatchesState, InMoving,
         MovingSubtree, MovingChildren, TimeoutQueued, SingleTimeoutQueued

LEMMA PostIInv ==
    ASSUME TypeOK, IInv, NEW ev \in ControlEvents \cup OtherEvents, postEvent(ev)
    PROVE  IInv'
  <1>1. ev \in Events /\ ev.type # "timeout"
    BY CommandsAssumption, TypesAssumption DEF Events, ControlEvents, OtherEvents
  <1>2. /\ TimeoutQueued' <=> TimeoutQueued
        /\ SingleTimeoutQueued => SingleTimeoutQueued'
    BY <1>1, AppendOther DEF postEvent
  <1>3. StartInv' /\ SleepInv' /\ SilenceInv' /\ EnableMatchesState'
    BY DEF postEvent, MayPost, workerVars, bodyVars, clockVars, IInv, StartInv, SleepInv,
           SilenceInv, EnableMatchesState
  <1>4. WatchdogArmed' /\ WatchdogUnique'
    BY <1>2 DEF postEvent, workerVars, IInv, WatchdogArmed, WatchdogUnique, InMoving
  <1>. QED  BY <1>3, <1>4 DEF IInv

LEMMA TickIInv == TypeOK /\ IInv /\ Tick => IInv'
  <1>. SUFFICES ASSUME TypeOK, IInv, Tick PROVE IInv'
    OBVIOUS
  <1>1. Len(timers') = Len(timers) /\ (timers' = <<>> <=> timers = <<>>)
    BY DEF TypeOK, Tick
  <1>2. SilenceInv'
    BY TimesAssumption DEF TypeOK, Tick, Saturate, IInv, SilenceInv
  <1>3. StartInv' /\ SleepInv' /\ EnableMatchesState'
    BY <1>1 DEF Tick, bodyVars, IInv, StartInv, SleepInv, EnableMatchesState
  <1>4. WatchdogArmed' /\ WatchdogUnique'
    BY <1>1 DEF Tick, bodyVars, IInv, WatchdogArmed, WatchdogUnique, InMoving,
                TimeoutQueued, SingleTimeoutQueued
  <1>. QED  BY <1>2, <1>3, <1>4 DEF IInv

LEMMA PostDueTimerIInv == TypeOK /\ IInv /\ PostDueTimer => IInv'
  <1>. SUFFICES ASSUME TypeOK, IInv, PostDueTimer PROVE IInv'
    OBVIOUS
  <1>1. /\ TimeoutQueued'
        /\ ~TimeoutQueued => SingleTimeoutQueued'
    BY AppendTimeout DEF PostDueTimer
  <1>2. timers # <<>> /\ Len(timers') = Len(timers) - 1 /\ Len(timers) \in Nat \ {0}
        /\ timers' \in Seq(0 .. Timeout)
    BY DEF PostDueTimer, TimerDue, TypeOK
  <1>3. StartInv' /\ SleepInv' /\ SilenceInv' /\ EnableMatchesState'
    BY <1>2 DEF PostDueTimer, bodyVars, clockVars, IInv, StartInv, SleepInv, SilenceInv,
                EnableMatchesState
  <1>4. WatchdogArmed'
    BY <1>1 DEF WatchdogArmed
  <1>5. WatchdogUnique'
    <2>. SUFFICES ASSUME PostedTypes = {} PROVE WatchdogUnique'
      BY DEF WatchdogUnique
    <2>1. Len(timers) = 1 /\ ~TimeoutQueued /\ InMoving
      BY <1>2 DEF IInv, WatchdogUnique
    <2>2. timers' = <<>> /\ Len(timers') = 0 /\ InMoving'
      BY <1>2, <2>1 DEF PostDueTimer, InMoving
    <2>. QED  BY <1>1, <2>1, <2>2 DEF WatchdogUnique
  <1>. QED  BY <1>3, <1>4, <1>5 DEF IInv

\* The handlers of one event.
LEMMA DispatchIInv ==
    ASSUME TypeOK, IInv, NEW ev \in Events, dispatch(ev)
    PROVE  IInv'
  <1>. USE DEF workerVars, bodyVars, clockVars
  <1>0. PopEvent(ev) /\ workerPc = "pop" /\ eventQueue # <<>>
    BY DEF dispatch, HandleControl, SkipTimeout, LeaveMoving, Fail, LeaveIdle, Ignore, PopEvent
  <1>1. ASSUME ev.type # "timeout"
        PROVE  /\ TimeoutQueued' <=> TimeoutQueued
               /\ SingleTimeoutQueued => SingleTimeoutQueued'
    BY <1>0, <1>1, PopOther
  <1>2. ASSUME ev.type = "timeout"
        PROVE  /\ TimeoutQueued
               /\ SingleTimeoutQueued => ~TimeoutQueued' /\ SingleTimeoutQueued'
    BY <1>0, <1>2, PopTimeout
  <1>3. startPc = "done" /\ startPc' = "done" /\ running' = running
    BY <1>0 DEF PopEvent, IInv, StartInv, TypeOK
  <1>4. CASE HandleControl(ev)
    <2>1. StartInv' /\ SleepInv' /\ EnableMatchesState'
      BY <1>0, <1>3, <1>4 DEF HandleControl, IInv, StartInv, SleepInv, EnableMatchesState
    <2>2. SilenceInv'
      BY <1>4 DEF HandleControl, IInv, SilenceInv, TypeOK, Refreshes, Accepts, OwnerOf,
                  MovingChildren
    <2>3. WatchdogArmed' /\ WatchdogUnique'
      BY <1>1, <1>3, <1>4 DEF HandleControl, IInv, WatchdogArmed, WatchdogUnique, InMoving
    <2>. QED  BY <2>1, <2>2, <2>3 DEF IInv
  <1>5. CASE SkipTimeout(ev)
    <2>1. StartInv' /\ SleepInv' /\ EnableMatchesState' /\ SilenceInv'
      BY <1>0, <1>3, <1>5 DEF SkipTimeout, IInv, StartInv, SleepInv, EnableMatchesState,
                              SilenceInv
    <2>2. timers' # <<>> /\ Len(timers') = Len(timers) + 1 /\ Len(timers) \in Nat
          /\ (Len(timers) = 0 <=> timers = <<>>)
      BY <1>5 DEF SkipTimeout, Armed, TypeOK
    <2>3. WatchdogArmed'
      BY <2>2 DEF WatchdogArmed
    <2>4. WatchdogUnique'
      BY <1>2, <1>5, <2>2 DEF SkipTimeout, IInv, WatchdogUnique, InMoving
    <2>. QED  BY <2>1, <2>3, <2>4 DEF IInv
  <1>6. CASE LeaveMoving(ev)
    <2>1. StartInv' /\ SleepInv' /\ EnableMatchesState' /\ SilenceInv'
      BY <1>0, <1>3, <1>6, FlagsValue DEF LeaveMoving, IInv, StartInv, SleepInv, EnableMatchesState,
                              SilenceInv, MovingChildren, MovingSubtree
    <2>2. WatchdogArmed'
      BY <1>3, <1>6 DEF LeaveMoving, WatchdogArmed, InMoving, MovingSubtree, MovingChildren
    <2>3. WatchdogUnique'
      <3>. SUFFICES ASSUME PostedTypes = {} PROVE WatchdogUnique'
        BY DEF WatchdogUnique
      <3>1. ev.type = "timeout"
        <4>1. ev \notin ControlEvents
          BY <1>6 DEF LeaveMoving, ControlEvents
        <4>2. ev \notin OtherEvents
          BY DEF OtherEvents
        <4>. QED  BY <4>1, <4>2 DEF Events, TimeoutEvent
      <3>2. timers' = <<>> /\ ~TimeoutQueued' /\ SingleTimeoutQueued'
        BY <1>2, <1>6, <3>1 DEF LeaveMoving, IInv, WatchdogUnique
      <3>. QED  BY <3>2 DEF WatchdogUnique
    <2>. QED  BY <2>1, <2>2, <2>3 DEF IInv
  <1>7. CASE Fail(ev)
    <2>1. StartInv' /\ SleepInv' /\ EnableMatchesState' /\ SilenceInv'
      BY <1>0, <1>3, <1>7 DEF Fail, IInv, StartInv, SleepInv, EnableMatchesState,
                              SilenceInv, MovingChildren, MovingSubtree
    <2>2. WatchdogArmed'
      BY <1>3, <1>7 DEF Fail, WatchdogArmed, InMoving, MovingSubtree, MovingChildren
    <2>3. PostedTypes # {}
      BY <1>7, CommandsAssumption DEF Fail, Events, ControlEvents, OtherEvents, TimeoutEvent
    <2>. QED  BY <2>1, <2>2, <2>3 DEF IInv, WatchdogUnique
  <1>8. CASE LeaveIdle(ev)
    <2>1. StartInv' /\ SleepInv' /\ EnableMatchesState' /\ SilenceInv'
      BY <1>0, <1>3, <1>8 DEF LeaveIdle, IInv, StartInv, SleepInv, EnableMatchesState,
                              SilenceInv, MovingChildren, MovingSubtree
    <2>2. WatchdogArmed' /\ WatchdogUnique'
      BY <1>1, <1>3, <1>8 DEF LeaveIdle, IInv, WatchdogArmed, WatchdogUnique, InMoving,
                              MovingSubtree, MovingChildren
    <2>. QED  BY <2>1, <2>2 DEF IInv
  <1>9. CASE Ignore(ev)
    <2>1. StartInv' /\ SleepInv' /\ EnableMatchesState' /\ SilenceInv'
      BY <1>0, <1>3, <1>9 DEF Ignore, IInv, StartInv, SleepInv, EnableMatchesState,
                              SilenceInv, MovingChildren, MovingSubtree
    <2>2. ~InMoving /\ ~InMoving'
      BY <1>9 DEF Ignore, InMoving, MovingSubtree, MovingChildren
    <2>3. WatchdogArmed'
      BY <2>2 DEF WatchdogArmed
    <2>4. WatchdogUnique'
      BY <1>1, <1>2, <1>9, <2>2 DEF Ignore, IInv, WatchdogUnique
    <2>. QED  BY <2>1, <2>3, <2>4 DEF IInv
  <1>. QED  BY <1>4, <1>5, <1>6, <1>7, <1>8, <1>9 DEF dispatch

LEMMA EnterMovingIInv == TypeOK /\ IInv /\ EnterMoving => IInv'
  <1>. SUFFICES ASSUME TypeOK, IInv, EnterMoving PROVE IInv'
    OBVIOUS
  <1>. DEFINE child == ChildFor(cause.source)
  <1>1. /\ currentState = "Idle" /\ startPc = "done" /\ startPc' = "done"
        /\ enabled = setEnableSensorContinuousReadings(FALSE)
        /\ currentState' = child /\ child \in MovingSubtree
        /\ workerPc' = "check"
    BY ChildType DEF EnterMoving, IInv, SleepInv, StartInv, TypeOK
  <1>2. timers' # <<>> /\ Len(timers') = Len(timers) + 1 /\ Len(timers) \in Nat
        /\ (Len(timers) = 0 <=> timers = <<>>)
    BY DEF EnterMoving, Armed, TypeOK
  <1>3. StartInv' /\ SleepInv' /\ WatchdogArmed'
    BY <1>1, <1>2 DEF StartInv, SleepInv, WatchdogArmed
  <1>4. WatchdogUnique'
    <2>1. ~InMoving /\ InMoving'
      BY <1>1 DEF InMoving, MovingSubtree, MovingChildren
    <2>2. UNCHANGED eventQueue
      BY DEF EnterMoving
    <2>. QED
      BY <1>2, <2>1, <2>2 DEF IInv, WatchdogUnique, TimeoutQueued, SingleTimeoutQueued
  <1>5. EnableMatchesState'
    <2>1. enabled' = EnabledIn(child, enabled)
      BY DEF EnterMoving
    <2>2. \A c \in Controllers : enabled[c] <=> c \in Actuators
      BY <1>1, FlagsValue
    <2>3. child \in {"RemoteControl", "Talking"} => \A c \in Controllers : enabled'[c]
      BY <2>1, <2>2 DEF EnabledIn, Controllers, Sensors, Actuators
    <2>4. child \notin {"RemoteControl", "Talking"} => enabled' = enabled
      BY <2>1 DEF EnabledIn
    <2>. QED
      BY <1>1, <2>2, <2>3, <2>4 DEF EnableMatchesState, MovingSubtree, MovingChildren
  <1>6. SilenceInv'
    <2>1. child \in MovingChildren => sinceLastEvent' = 0
      BY DEF EnterMoving, ChildFor, MovingChildren, Refreshes, Accepts
    <2>2. ownerSilence' = 0
      BY DEF EnterMoving
    <2>. QED  BY <1>1, <2>1, <2>2 DEF SilenceInv
  <1>. QED  BY <1>3, <1>4, <1>5, <1>6 DEF IInv

\* Every step keeps the invariant.
LEMMA NextIInv == TypeOK /\ IInv /\ [Next]_vars => IInv'
  <1>. SUFFICES ASSUME TypeOK, IInv, [Next]_vars PROVE IInv'
    OBVIOUS
  <1>1. CASE stop
    BY <1>1, QuietStep DEF stop, workerVars, clockVars
  <1>2. CASE CheckRunning
    BY <1>2, QuietStep DEF CheckRunning, clockVars
  <1>3. CASE TimersPosted
    BY <1>3, QuietStep DEF TimersPosted, clockVars
  <1>4. CASE WakeWithoutEvent
    BY <1>4, QuietStep DEF WakeWithoutEvent, clockVars
  <1>5. CASE UNCHANGED vars
    BY <1>5, QuietStep DEF vars, workerVars, clockVars
  <1>. QED
    BY <1>1, <1>2, <1>3, <1>4, <1>5, StartIInv, EnterInitialStateIInv, PostIInv, TickIInv,
       PostDueTimerIInv, DispatchIInv, EnterMovingIInv DEF Next, Worker

THEOREM Invariance == Spec => []IInv
  BY InitIInv, NextIInv, TypeCorrect, PTL DEF Spec

\* In a moving state a timeout is always armed or queued, whatever is posted.
THEOREM WatchdogAlwaysArmed == Spec => []WatchdogArmed
  BY Invariance, PTL DEF IInv

\* With control events only, timeouts never accumulate.
THEOREM WatchdogNeverDuplicated == Spec => []WatchdogUnique
  BY Invariance, PTL DEF IInv

\* The enable flags always agree with the current state.
THEOREM FlagsMatchState == Spec => []EnableMatchesState
  BY Invariance, PTL DEF IInv

\* No timeout ends a session whose owner is active.
THEOREM SessionsKept == Spec => ActiveSessionKept
  <1>1. TypeOK /\ IInv /\ [Next]_vars =>
          [currentState' = "Idle" /\ currentState \in MovingChildren
             => Head(eventQueue).type = "stop" \/ ownerSilence > Timeout - Slack]_vars
    <2>. SUFFICES ASSUME TypeOK, IInv, [Next]_vars,
                         currentState' = "Idle", currentState \in MovingChildren
                  PROVE  Head(eventQueue).type = "stop" \/ ownerSilence > Timeout - Slack
      OBVIOUS
    <2>1. PICK ev \in Events : LeaveMoving(ev)
      BY DEF Next, vars, workerVars, bodyVars, clockVars, IInv, StartInv, SleepInv, TypeOK,
             MovingChildren, Start, EnterInitialState, postEvent, stop, Tick, Worker,
             CheckRunning, PostDueTimer, TimersPosted, WakeWithoutEvent, EnterMoving, dispatch,
             HandleControl, SkipTimeout, Fail, LeaveIdle, Ignore
    <2>2. ownerSilence >= sinceLastEvent
      BY DEF IInv, SilenceInv
    <2>. QED
      BY <2>1, <2>2, TimesAssumption DEF LeaveMoving, PopEvent, TypeOK
  <1>. QED  BY <1>1, Invariance, TypeCorrect, PTL DEF Spec, ActiveSessionKept

\* The command that wakes the robot is carried out at the end of the sleep: both
\* motor controllers were enabled before it, and every child keeps them so.
THEOREM WakeCommandIsExecuted == Spec => WakeCommandExecuted
  <1>1. TypeOK /\ IInv /\ [Next]_vars =>
          [currentState = "Idle" /\ currentState' \in MovingChildren => Executed(cause)']_vars
    <2>. SUFFICES ASSUME TypeOK, IInv, [Next]_vars,
                         currentState = "Idle", currentState' \in MovingChildren
                  PROVE  Executed(cause)'
      OBVIOUS
    <2>1. EnterMoving
      BY DEF Next, vars, workerVars, MovingChildren, Start, EnterInitialState, postEvent, stop,
             Tick, Worker, CheckRunning, PostDueTimer, TimersPosted, WakeWithoutEvent, dispatch,
             HandleControl, SkipTimeout, LeaveMoving, Fail, LeaveIdle, Ignore
    <2>. DEFINE child == ChildFor(cause.source)
                flags == EnabledIn(child, enabled)
    <2>2. cause' = cause /\ child \in MovingChildren
      BY <2>1 DEF EnterMoving
    <2>3. flags["dc"] /\ flags["servo"]
      <3>1. enabled["dc"] /\ enabled["servo"]
        <4>1. enabled = setEnableSensorContinuousReadings(FALSE)
          BY <2>1 DEF EnterMoving, IInv, SleepInv
        <4>. QED  BY <4>1, FlagsValue DEF Controllers, Actuators
      <3>. QED  BY <3>1 DEF EnabledIn, Controllers, Actuators
    <2>4. Accepts(child, cause)
      BY <2>2 DEF ChildFor, Accepts, MovingChildren
    <2>5. motor' = MotorAfter(cause, flags) /\ joints' = JointsAfter(cause, flags)
      BY <2>1, <2>4 DEF EnterMoving
    <2>. QED  BY <2>2, <2>3, <2>5 DEF Executed, MotorAfter, JointsAfter
  <1>. QED  BY <1>1, Invariance, TypeCorrect, PTL DEF Spec, WakeCommandExecuted

\* In TuiControlState only the terminal's own commands reach the actuators.
THEOREM TuiIsExclusive == Spec => TuiExclusive
  <1>1. TypeOK /\ IInv /\ [Next]_vars =>
          [currentState = "TuiControl" /\ bodyVars' # bodyVars
             => Head(eventQueue).source = "tuiService"]_vars
    <2>. SUFFICES ASSUME TypeOK, IInv, [Next]_vars,
                         currentState = "TuiControl", bodyVars' # bodyVars
                  PROVE  Head(eventQueue).source = "tuiService"
      OBVIOUS
    <2>1. ~EnterMoving
      BY DEF EnterMoving, IInv, SleepInv
    <2>2. PICK ev \in Events : HandleControl(ev)
      BY <2>1 DEF Next, vars, Start, EnterInitialState, postEvent, stop, Tick, Worker,
             CheckRunning, PostDueTimer, TimersPosted, WakeWithoutEvent, dispatch,
             SkipTimeout, LeaveMoving, Fail, LeaveIdle, Ignore
    <2>3. Accepts(currentState, ev)
      BY <2>2 DEF HandleControl, bodyVars
    <2>. QED  BY <2>2, <2>3 DEF HandleControl, PopEvent, Accepts
  <1>. QED  BY <1>1, Invariance, TypeCorrect, PTL DEF Spec, TuiExclusive
=============================================================================
