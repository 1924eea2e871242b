-------------------------------- MODULE Robot --------------------------------
(***************************************************************************)
(* The robot's hierarchical state machine: the event queue and the timer   *)
(* list of StateMachine (statemachines/state_machine.cpp), the states that *)
(* Robot creates (robot.cpp), what each of them does on entry and on an    *)
(* event, the enable flags of the five hardware controllers, and the       *)
(* actuators.                                                              *)
(*                                                                         *)
(* One worker thread runs StateMachine::loop; start() runs on the caller's *)
(* thread; postEvent is called by the RobotControllerService thread.  The  *)
(* handlers only touch state that the worker owns, so a dispatch is one    *)
(* step, except for the entry into MovingState, which sleeps.  The locks   *)
(* of the queue are the subject of StateMachineLoop.                       *)
(*                                                                         *)
(* Time is counted in ticks and kept relative: a timer is the number of    *)
(* ticks until it is due, _lastEventTime is its age.                       *)
(***************************************************************************)
EXTENDS Integers, Sequences

CONSTANTS
    Commands,    \* the control commands: records with a source and a data field
    PostedTypes, \* the other event types given to postEvent
    Continuous,  \* sources that publish for ever (the landmark tracker does)
    MaxPosts,    \* bound: commands of each of the other sources
    MaxQueue,    \* bound: events in the queue when another one is posted
    Timeout,     \* MovingState::_timeoutMs, in ticks
    Slack,       \* the 10 ms by which a timeout may come early, in ticks
    EntryDelay   \* the sleep in MovingState::onEnter, in ticks

Sources == {"none", "expressionService", "landmarkTrackerService",
            "mappingService", "tuiService", "remoteConnectionService"}

\* What control_motion does with a command: drive the wheels, stop them
\* (the (0,0) joystick), or move servo joints.
Data == {"drive", "halt", "joint"}

ASSUME CommandsAssumption ==
    Commands \subseteq [source : Sources, data : Data]
ASSUME TypesAssumption ==
    PostedTypes \subseteq {"stop", "critical_error"} /\ Continuous \subseteq Sources
ASSUME BoundsAssumption == MaxPosts \in Nat /\ MaxQueue \in Nat
ASSUME TimesAssumption ==
    /\ Timeout \in Nat \ {0}
    /\ Slack \in 1 .. Timeout
    /\ EntryDelay \in Nat

VARIABLES
    startPc,        \* progress of StateMachine::start on the caller's thread
    running,        \* _running
    workerPc,       \* where the worker is in loop()
    currentState,   \* _currentState, "nullptr" before the first transition
    eventQueue,     \* _eventQueue
    timers,         \* _timers, in the order in which they become due
    sinceLastEvent, \* age of MovingState::_lastEventTime, saturated at Timeout
    entrySource,    \* TalkingState::_entrySource
    cause,          \* the event whose transition is sleeping in MovingState
    sleepLeft,      \* what is left of that sleep
    enabled,        \* Controller::_enable of each controller
    motor,          \* the wheels: "stopped", or who drove them last
    joints,         \* the servos: "rest", or who moved them last
    posts,          \* how many events each source has posted
    ownerSilence    \* history: age of the session owner's last handled command

workerVars == <<workerPc, currentState, timers, entrySource, cause, enabled>>
bodyVars == <<motor, joints>>
clockVars == <<sinceLastEvent, sleepLeft, ownerSilence>>
vars == <<startPc, running, eventQueue, posts, workerVars, bodyVars, clockVars>>

-----------------------------------------------------------------------------
Sensors == {"compass", "distance", "power"}
Actuators == {"servo", "dc"}
Controllers == Sensors \cup Actuators

MovingChildren == {"TuiControl", "RemoteControl", "Talking"}
MovingSubtree == MovingChildren \cup {"Moving"}
States == MovingSubtree \cup {"nullptr", "Idle", "CriticalError"}

ControlEvents ==
    {[type |-> "control", source |-> c.source, data |-> c.data] : c \in Commands}
OtherEvents == [type : PostedTypes, source : {"none"}, data : {"none"}]
TimeoutEvent == [type |-> "timeout", source |-> "none", data |-> "none"]
Events == ControlEvents \cup OtherEvents \cup {TimeoutEvent}

\* setEnableSensorContinuousReadings: the sensors are read, or the motors move.
setEnableSensorContinuousReadings(e) ==
    [c \in Controllers |-> IF c \in Sensors THEN e ELSE ~e]

\* MovingState::onEnter: the state that handles a session of this source.
ChildFor(source) ==
    CASE source = "tuiService" -> "TuiControl"
      [] source = "remoteConnectionService" -> "RemoteControl"
      [] source \in {"expressionService", "landmarkTrackerService"} -> "Talking"
      [] OTHER -> "Moving"

\* Seeded fault: only RemoteControlState switches the sensors back on.
EnabledIn_OnlyRemote(child, flags) ==
    [c \in Controllers |-> child = "RemoteControl" \/ flags[c]]

\* Seeded fault: the children call setEnableSensorContinuousReadings(true).
EnabledIn_SensorsOnly(child, flags) ==
    IF child \in {"RemoteControl", "Talking"}
    THEN setEnableSensorContinuousReadings(TRUE) ELSE flags

\* onEnter of the child: remote control and talking switch the sensors back on.
EnabledIn(child, flags) ==
    IF child \in {"RemoteControl", "Talking"}
    THEN [c \in Controllers |-> c \in Sensors \cup {"servo"} \/ flags[c]]
    ELSE flags

\* Seeded fault: TuiControlState::onEvent without the check of the source.
Accepts_AnySource(state, ev) == state \in MovingChildren

\* The control branch of the child's onEvent runs for this event.
Accepts(state, ev) ==
    CASE state = "TuiControl" -> ev.source = "tuiService"
      [] state \in {"RemoteControl", "Talking"} -> TRUE
      [] OTHER -> FALSE

\* Seeded fault: TalkingState refreshes the timeout for every source.
Refreshes_AnySource(state, ev, entry) == Accepts(state, ev)

\* Seeded fault: MovingState itself refreshes the timeout on control events.
Refreshes_InParent(state, ev, entry) == state \in MovingSubtree

\* Seeded fault: TuiControlState forgets to move _lastEventTime.
Refreshes_NotInTui(state, ev, entry) ==
    state \in {"RemoteControl", "Talking"} /\ (state = "Talking" => ev.source = entry)

\* ... and moves _lastEventTime, given TalkingState::_entrySource.
Refreshes(state, ev, entry) ==
    /\ Accepts(state, ev)
    /\ state = "Talking" => ev.source = entry

\* control_motion, gated by isEnabled() in the controllers it calls.
MotorAfter(ev, flags) ==
    IF ev.data \in {"drive", "halt"} /\ flags["dc"]
    THEN IF ev.data = "drive" THEN ev.source ELSE "stopped"
    ELSE motor
JointsAfter(ev, flags) ==
    IF ev.data = "joint" /\ flags["servo"] THEN ev.source ELSE joints

\* Seeded faults: the timeout is not armed; it is armed twice.
Armed_Never == timers
Armed_Twice == timers \o <<Timeout, Timeout>>

\* addPostDelayedEvent always posts a timeout with the state's own _timeoutMs.
Armed == Append(timers, Timeout)

\* The source whose commands keep the session in a state alive.
OwnerOf(state, entry) ==
    CASE state = "TuiControl" -> "tuiService"
      [] state = "RemoteControl" -> "remoteConnectionService"
      [] state = "Talking" -> entry
      [] OTHER -> "none"

-----------------------------------------------------------------------------
Init ==
    /\ startPc = "new" /\ running = FALSE /\ workerPc = "none"
    /\ currentState = "nullptr"
    /\ eventQueue = <<>> /\ timers = <<>>
    /\ sinceLastEvent = Timeout /\ ownerSilence = Timeout
    /\ entrySource = "none" /\ cause = TimeoutEvent /\ sleepLeft = 0
    /\ enabled = [c \in Controllers |-> TRUE]
    /\ motor = "stopped" /\ joints = "rest"
    /\ posts = [s \in Sources |-> 0]

\* start(): the worker is spawned first ...
Start ==
    /\ startPc = "new"
    /\ startPc' = "transition" /\ running' = TRUE /\ workerPc' = "check"
    /\ UNCHANGED <<currentState, timers, entrySource, cause, enabled,
                   eventQueue, posts, bodyVars, clockVars>>

\* ... then the caller makes the initial transition: InitializeState::onEnter
\* disables all controllers and redirects to IdleState, whose onEnter runs.
EnterInitialState ==
    /\ startPc = "transition"
    /\ startPc' = "done"
    /\ currentState' = "Idle"
    /\ enabled' = setEnableSensorContinuousReadings(TRUE)
    /\ UNCHANGED <<running, workerPc, timers, entrySource, cause,
                   eventQueue, posts, bodyVars, clockVars>>

\* The RobotControllerService thread, which exists once start() has returned.
MayPost == startPc = "done"

postEvent(ev) ==
    /\ MayPost
    /\ Len(eventQueue) < MaxQueue
    /\ ev.source \in Continuous \/ posts[ev.source] < MaxPosts
    /\ eventQueue' = Append(eventQueue, ev)
    /\ posts' = IF ev.source \in Continuous THEN posts
                ELSE [posts EXCEPT ![ev.source] = @ + 1]
    /\ UNCHANGED <<startPc, running, workerVars, bodyVars, clockVars>>

stop ==
    /\ startPc = "done" /\ running
    /\ running' = FALSE
    /\ UNCHANGED <<startPc, eventQueue, posts, workerVars, bodyVars, clockVars>>

Decrement(n) == IF n = 0 THEN 0 ELSE n - 1
Saturate(n) == IF n >= Timeout THEN Timeout ELSE n + 1

Tick ==
    /\ timers' = [i \in 1 .. Len(timers) |-> Decrement(timers[i])]
    /\ sleepLeft' = Decrement(sleepLeft)
    /\ sinceLastEvent' = Saturate(sinceLastEvent)
    /\ ownerSilence' = Saturate(ownerSilence)
    /\ UNCHANGED <<startPc, running, eventQueue, posts, workerPc, currentState,
                   entrySource, cause, enabled, bodyVars>>

-----------------------------------------------------------------------------
(* loop() *)

TimerDue == timers # <<>> /\ Head(timers) = 0

CheckRunning ==
    /\ workerPc = "check"
    /\ workerPc' = IF running THEN "timers" ELSE "exited"
    /\ UNCHANGED <<startPc, running, eventQueue, posts, currentState, timers,
                   entrySource, cause, enabled, bodyVars, clockVars>>

\* One round of the loop that moves due timers into the queue.
PostDueTimer ==
    /\ workerPc = "timers" /\ TimerDue
    /\ eventQueue' = Append(eventQueue, TimeoutEvent)
    /\ timers' = Tail(timers)
    /\ UNCHANGED <<startPc, running, posts, workerPc, currentState, entrySource,
                   cause, enabled, bodyVars, clockVars>>

TimersPosted ==
    /\ workerPc = "timers" /\ ~TimerDue
    /\ workerPc' = "pop"
    /\ UNCHANGED <<startPc, running, eventQueue, posts, currentState, timers,
                   entrySource, cause, enabled, bodyVars, clockVars>>

\* The wait on the condition variable ends without an event.
WakeWithoutEvent ==
    /\ workerPc = "pop" /\ eventQueue = <<>>
    /\ ~running \/ TimerDue
    /\ workerPc' = "check"
    /\ UNCHANGED <<startPc, running, eventQueue, posts, currentState, timers,
                   entrySource, cause, enabled, bodyVars, clockVars>>

-----------------------------------------------------------------------------
(* dispatch(ev) and the handlers of the states *)

PopEvent(ev) ==
    /\ workerPc = "pop" /\ eventQueue # <<>>
    /\ ev = Head(eventQueue)
    /\ eventQueue' = Tail(eventQueue)
    /\ UNCHANGED <<startPc, running, posts>>

\* Moving children and MovingState itself on a control event.
HandleControl(ev) ==
    /\ PopEvent(ev)
    /\ currentState \in MovingSubtree /\ ev.type = "control"
    /\ workerPc' = "check"
    /\ motor' = IF Accepts(currentState, ev) THEN MotorAfter(ev, enabled) ELSE motor
    /\ joints' = IF Accepts(currentState, ev) THEN JointsAfter(ev, enabled) ELSE joints
    /\ sinceLastEvent' = IF Refreshes(currentState, ev, entrySource)
                         THEN 0 ELSE sinceLastEvent
    /\ ownerSilence' = IF ev.source = OwnerOf(currentState, entrySource)
                       THEN 0 ELSE ownerSilence
    /\ UNCHANGED <<currentState, timers, entrySource, cause, enabled, sleepLeft>>

\* MovingState on a timeout that a later command has overtaken: arm it again.
SkipTimeout(ev) ==
    /\ PopEvent(ev)
    /\ currentState \in MovingSubtree /\ ev.type = "timeout"
    /\ sinceLastEvent <= Timeout - Slack
    /\ timers' = Armed
    /\ workerPc' = "check"
    /\ UNCHANGED <<currentState, entrySource, cause, enabled, bodyVars, clockVars>>

\* transition(IdleState) out of MovingState; nothing happens once stopped.
LeaveMoving(ev) ==
    /\ PopEvent(ev)
    /\ currentState \in MovingSubtree
    /\ \/ ev.type = "timeout" /\ sinceLastEvent > Timeout - Slack
       \/ ev.type = "stop"
    /\ currentState' = IF running THEN "Idle" ELSE currentState
    /\ enabled' = IF running THEN setEnableSensorContinuousReadings(TRUE) ELSE enabled
    /\ workerPc' = "check"
    /\ UNCHANGED <<timers, entrySource, cause, bodyVars, clockVars>>

Fail(ev) ==
    /\ PopEvent(ev)
    /\ currentState \in MovingSubtree /\ ev.type = "critical_error"
    /\ currentState' = IF running THEN "CriticalError" ELSE currentState
    /\ workerPc' = "check"
    /\ UNCHANGED <<timers, entrySource, cause, enabled, bodyVars, clockVars>>

\* IdleState on a control event: transition(MovingState) up to the sleep.
LeaveIdle(ev) ==
    /\ PopEvent(ev)
    /\ currentState = "Idle" /\ ev.type = "control" /\ running
    /\ enabled' = setEnableSensorContinuousReadings(FALSE)
    /\ cause' = ev /\ sleepLeft' = EntryDelay
    /\ workerPc' = "sleeping"
    /\ UNCHANGED <<currentState, timers, entrySource, bodyVars,
                   sinceLastEvent, ownerSilence>>

\* ... and after it: the timeout is armed, the child is entered, and the new
\* current state handles the event that caused the transition.
EnterMoving ==
    LET child == ChildFor(cause.source)
        flags == EnabledIn(child, enabled)
        entry == IF child = "Talking" THEN cause.source ELSE entrySource
    IN  /\ workerPc = "sleeping" /\ sleepLeft = 0
        /\ timers' = Armed
        /\ currentState' = child
        /\ enabled' = flags
        /\ entrySource' = entry
        /\ motor' = IF Accepts(child, cause) THEN MotorAfter(cause, flags) ELSE motor
        /\ joints' = IF Accepts(child, cause) THEN JointsAfter(cause, flags) ELSE joints
        /\ sinceLastEvent' = IF Refreshes(child, cause, entry) THEN 0 ELSE sinceLastEvent
        /\ ownerSilence' = 0
        /\ workerPc' = "check"
        /\ UNCHANGED <<startPc, running, eventQueue, posts, cause, sleepLeft>>

\* No current state, CriticalErrorState, and IdleState on any other event.
Ignore(ev) ==
    /\ PopEvent(ev)
    /\ \/ currentState \in {"nullptr", "CriticalError"}
       \/ currentState = "Idle" /\ (ev.type # "control" \/ ~running)
    /\ workerPc' = "check"
    /\ UNCHANGED <<currentState, timers, entrySource, cause, enabled,
                   bodyVars, clockVars>>

dispatch(ev) ==
    \/ HandleControl(ev)
    \/ SkipTimeout(ev)
    \/ LeaveMoving(ev)
    \/ Fail(ev)
    \/ LeaveIdle(ev)
    \/ Ignore(ev)

Worker ==
    \/ CheckRunning
    \/ PostDueTimer
    \/ TimersPosted
    \/ WakeWithoutEvent
    \/ \E ev \in Events : dispatch(ev)
    \/ EnterMoving

Next ==
    \/ Start
    \/ EnterInitialState
    \/ \E ev \in ControlEvents \cup OtherEvents : postEvent(ev)
    \/ stop
    \/ Tick
    \/ Worker

Spec == Init /\ [][Next]_vars

\* The worker is a thread that is scheduled again and again; the clock runs.
Fairness == WF_vars(Worker) /\ WF_vars(Tick) /\ WF_vars(EnterInitialState)

FairSpec == Spec /\ Fairness

-----------------------------------------------------------------------------
\* Every variable has its type; no event is in the queue that nobody posts.
TypeOK ==
    /\ startPc \in {"new", "transition", "done"}
    /\ running \in BOOLEAN
    /\ workerPc \in {"none", "check", "timers", "pop", "sleeping", "exited"}
    /\ currentState \in States
    /\ eventQueue \in Seq(Events)
    /\ timers \in Seq(0 .. Timeout)
    /\ sinceLastEvent \in 0 .. Timeout /\ ownerSilence \in 0 .. Timeout
    /\ entrySource \in Sources
    /\ cause \in Events
    /\ sleepLeft \in 0 .. EntryDelay
    /\ enabled \in [Controllers -> BOOLEAN]
    /\ motor \in Sources \cup {"stopped"}
    /\ joints \in Sources \cup {"rest"}
    /\ posts \in [Sources -> 0 .. MaxPosts]

InMoving == currentState \in MovingSubtree
TimeoutQueued == \E i \in 1 .. Len(eventQueue) : eventQueue[i].type = "timeout"
SingleTimeoutQueued ==
    \A i, j \in 1 .. Len(eventQueue) :
        eventQueue[i].type = "timeout" /\ eventQueue[j].type = "timeout" => i = j

\* While the robot is in MovingState or a child of it, a timeout is armed or
\* on its way through the queue, so the state cannot be left for good to its
\* last command (MovingState::onEnter and its timeout branch re-arm it).
WatchdogArmed == running /\ InMoving => timers # <<>> \/ TimeoutQueued

\* With the events that the services really post there is never more than one
\* timeout, and none outside MovingState: timers do not pile up over sessions
\* although onExit clears none of them.
WatchdogUnique ==
    PostedTypes = {} =>
        /\ Len(timers) <= 1
        /\ timers # <<>> => ~TimeoutQueued
        /\ SingleTimeoutQueued
        /\ timers # <<>> \/ TimeoutQueued => InMoving

\* The enable flags that several handlers write piecewise agree with the state:
\* in IdleState the sensors are read and no motor can be commanded, in the
\* moving states both motor controllers are enabled, and the sensors are
\* enabled again exactly in the children that ask for them.
EnableMatchesState ==
    /\ currentState = "Idle" /\ workerPc # "sleeping" =>
          \A c \in Controllers : enabled[c] <=> c \in Sensors
    /\ currentState \in {"RemoteControl", "Talking"} =>
          \A c \in Controllers : enabled[c]
    /\ currentState \in {"TuiControl", "Moving"} =>
          \A c \in Controllers : enabled[c] <=> c \in Actuators

Executed(ev) ==
    CASE ev.data = "drive" -> motor = ev.source
      [] ev.data = "halt" -> motor = "stopped"
      [] ev.data = "joint" -> joints = ev.source
      [] OTHER -> TRUE

\* The command that wakes the robot out of IdleState is carried out by the
\* child it leads to, after the sleep and not lost in the transition.
WakeCommandExecuted ==
    [][currentState = "Idle" /\ currentState' \in MovingChildren
          => Executed(cause)']_vars

\* A session that the terminal UI opened is its own: while TuiControlState is
\* current no other service moves an actuator.
TuiExclusive ==
    [][currentState = "TuiControl" /\ bodyVars' # bodyVars
          => Head(eventQueue).source = "tuiService"]_vars

\* A timeout does not end a session whose owner sent a command that was handled
\* within the timeout, whatever other timeouts and commands were queued.
ActiveSessionKept ==
    [][currentState' = "Idle" /\ currentState \in MovingChildren
          => Head(eventQueue).type = "stop" \/ ownerSilence > Timeout - Slack]_vars

\* A terminal session ends once the terminal is silent, although the landmark
\* tracker goes on publishing: TuiControlState does not count its commands.
TuiSessionEnds == []<>(~running \/ currentState # "TuiControl")

\* A talking session that the expression service opened ends once its gestures
\* are done, although the landmark tracker goes on publishing.
ExpressionSessionEnds ==
    []<>(~running \/ currentState # "Talking" \/ entrySource # "expressionService")

\* design/state_diagram.excalidraw:395, timeout event of the Moving State: "if
\* the timeout is exceed stop all motors and trans to Idle".
MotorsStoppedWhenIdle == currentState = "Idle" /\ workerPc # "sleeping" => motor = "stopped"
=============================================================================
