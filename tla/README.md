# A TLA+ model of kufibot

Kufibot is the program of a small robot on a Raspberry Pi: wheels, servo joints,
a camera, a compass, a distance and a power sensor, a terminal, a remote control
and a voice agent. The program in `src/src` is C++: a dozen *services*, each a
thread with a publisher and a set of subscriptions, around a hierarchical state
machine that owns the hardware. `src/voiceAgent` is Python and talks to the
program over UDP.

This directory holds TLA+ modules that model the parts of that program whose
correctness depends on the order in which things happen, TLC configurations that
check them on small instances, and TLAPS proofs for every value of the constants.

1. [Inventory](#1-inventory)
2. [Plan](#2-plan)
3. [The modules](#3-the-modules)
4. [What the runs show](#4-what-the-runs-show)
5. [Proofs](#5-proofs)
6. [Where code and documentation disagree](#6-where-code-and-documentation-disagree)
7. [What is not modelled](#7-what-is-not-modelled)

## 1. Inventory

### The parts, their state and their operations

| Part | State | Operations |
|---|---|---|
| `StateMachine` (state_machine.cpp) | `_eventQueue`, `_timers` (heap), `_currentState`, `_running`; `_mtx`, `_timerMtx`, `_cv`; one worker thread | `start`, `stop`, `postEvent`, `postDelayedEvent`, `loop`, `dispatch`, `transition` |
| `Robot` and its states (robot.cpp, *_state.cpp) | current state, `_lastEventTime`, `_timeoutMs`, `_entrySource`; five controllers with an enable flag each | `onEnter`, `onExit`, `onEvent` of Initialize, Idle, Moving, TuiControl, RemoteControl, Talking, CriticalError; `control_motion`, `setEnableSensorContinuousReadings` |
| `RobotControllerService` | `_controlData` (an optional), `_dataMutex`, `_condVar`, `_robot` | `initialize`, `service_function`, `subcribed_data_receive`, `publishSensorValues` |
| `Service` (service.cpp) | `_running`, `_initialized`, `_disabled`, `_serviceThread`, `_subscribedServices` | `start`, `stop`, `run`, `disable`, `enable`, subscribe and unsubscribe |
| `Publisher`, `Subscriber` | subscriber list, `_mutex` | `publish` (calls every subscriber with the mutex held, on the caller's thread) |
| `ServoMotorController` | `_currentJointAngles` (`uint8_t`), pose file | `initialize`, `setJointAngle` (one degree at a time, pose saved after each), `saveJointAngles`, `loadJointAngles` |
| `DCMotorController`, sensor controllers, drivers | enable flag, last reading, I2C registers | `forward`, `turn`, `stop`, readings |
| `ExpressionService` | `_speakingQueue`, motion tables, the static `idleJointPositions` | queue a response, `makeMimic`, `executeMotionSequence`, `setIdlePosition` |
| `PerceptionService` | `_frame`, camera, AI mode | grab and process frames, answer snapshots, start and stop on request |
| `LandmarkTrackerService` | last recognised gesture, last sensor data, `_lastKnownTarget` | select a target, move the head, engage a reaction |
| `VoiceAgentService` | UDP socket, last sensor data and image path | answer requests of the bridge, publish responses |
| `RemoteConnectionService`, `WebSocketOperator` | one message slot, AI mode, server thread | open, close, message, send |
| `InteractiveChatService`, `RagService`, `MappingService` | conversation, embeddings and their rows, map | not started by `main.cpp`, only from the terminal |
| `TuiService` | terminal windows | parse a command, start and stop services, publish |
| voice agent bridge (`src/voiceAgent`) | pending reply, debounce timer, echo state | send a request and wait, debounce a response, mute the microphone |

### How they interact

`publish(type, data)` runs the callback of each subscriber on the publisher's
thread, with the publisher's mutex held. Subscriptions (receiver from sender):

* RobotController from Mapping, Expression, Tui, InteractiveChat, Landmark, Remote, VoiceAgent;
* Expression from InteractiveChat, Rag, Tui, Landmark, Remote, VoiceAgent;
* Perception from Remote, Expression; Landmark from Perception, InteractiveChat,
  RobotController, Expression, Remote;
* VoiceAgent and Mapping from RobotController; Tui from RobotController,
  InteractiveChat, Perception; InteractiveChat and Rag from Tui, Remote,
  Expression, Landmark; Remote, while a client is connected, from Perception and
  RobotController.

`main.cpp` starts Expression, Perception, RobotController, Landmark, VoiceAgent
and then, unless `--as-service` is given, Tui. A control command takes this way:

    service thread: publish -> RobotControllerService::subcribed_data_receive
        -> slot _controlData -> service_function -> Robot::postEvent
        -> _eventQueue -> worker: dispatch -> current state -> controllers

### What is hard in it

* **Lost notifications.** Three condition variables, two of them waited on without
  a predicate, and two `stop()` functions that notify without the mutex.
* **Unlocked shared state.** The command slot, the speaking queue and the idle pose
  are read on one thread and written on another without a common mutex.
* **Sessions and their watchdog.** Which service may move the robot, and for how
  long, depends on the state, the source of each command, a timer that nobody
  cancels and an age that is recomputed when the timer is handled.
* **Start and stop from several threads.** The terminal and a gesture start and stop
  the same services; `join()` is called inside callbacks.
* **Locks held over calls out.** A publisher's mutex is held while every subscriber's
  callback runs, and callbacks take other mutexes, publish, and join threads.
* **Datagrams and timers.** The voice agent sends text when 300 ms have passed without
  more of it, waits for replies with a timeout, and shuts the microphone while reports
  of its own voice are still on their way.
* **Crashes.** The pose of the joints is saved by truncating and rewriting a file.
* **Arithmetic at the edges.** Angles in unsigned bytes, duty cycles cut into two
  register bytes one of whose bits means "always off".

`PROJECT.json` lists each hazard at its line with the property that would catch it.

### What makes each part correct

* State machine: no posted event and no timer is lost; `stop()` comes to an end.
* Robot: the watchdog is armed and single in every moving state; the enable flags
  agree with the state; a session is not ended early and does end; the terminal's
  session is exclusive; the command that wakes the robot is carried out.
* RobotControllerService: an event is made of new commands only; after `stop()`
  nothing is left running.
* Servo joints: a joint jumps only out of an angle that no byte can hold and after a
  restart from a file that was cut short or is out of date; the saved pose is the
  remembered one.
* Gesture protocol: no tracker command disturbs a gesture; tracking resumes; a
  running service has a thread; a face that perception reported gone is given up.
* Voice agent: text is neither lost nor sent twice, a response has the mimic chosen
  for it, a request returns nothing that came before it, the agent does not hear itself
  and does not go deaf.
* Remote connection: no message is acted upon twice or after a newer one, or waits
  without its handle; `stop` returns (it does not).
* Motion: wheels and head go where the stick points; a joint leaves its pulse interval
  only after it was commanded beyond half a turn, which nothing checks.
* Publisher mutexes and joins: no circle of waiting threads; with the AI mode off
  neither a gesture nor the tracker moves the robot, unless the terminal starts or stops
  ExpressionService (the terminal's `set` moves it in any mode).
* Planned parts: memory and database rows agree (Rag), an answer is split without
  losing its end (InteractiveChat).

## 2. Plan

Done, in the order of importance:

1. `Robot`: the state machine that decides who moves the robot. Theorems `RobotProofs`.
2. `RobotControllerService` over `CommandMailbox`: how commands get there, and the
   abstract specification of the slot. Refinement proved in `RobotControllerProofs`.
3. `StateMachineLoop`: the locks below `Robot`. Proved in `LockProofs`.
4. `ServoMotorController`: the joints, the pose file, crashes. `ServoProofs`.
5. `ExpressionService`: gestures, perception, tracker, terminal. `ExpressionProofs`.
6. `RobotBridge`, `EchoSuppression` and `VoiceAgentService` over `Datagrams`, composed
   in `VoiceAgent`: the voice agent and the robot's side of it. `VoiceAgentProofs`.
7. `RemoteConnectionService`: the message slot, the AI mode and the server thread with
   its mutex; a second implementation of `CommandMailbox`. `RemoteConnectionProofs`.
8. `MotionControl`: from the joystick to the registers of the PWM chip. `MotionProofs`.
9. `PublisherLocks`: the graph of publisher mutexes, data mutexes and joins between all
   services, with absence of circular waiting as the property. `LockProofs`.

Next:

10. `RagStore` and `ResponseSplitting`: embeddings and rows; splitting an answer into
    sentences, both reached only from services that `main.cpp` does not start.
11. `SensorAlgorithms`: two's complement conversions and the median filter against
    reference definitions; the tracker's error vector and reaction count.
12. `Robot` with controllers that fail to initialise.

Runs are merged rather than multiplied: one passing run for each module, and one
for each disagreement that is worth a reader's time.

## 3. The modules

Every action is one operation or, where another thread can see the difference, one
access of an operation. Operators named `X_Something` are seeded faults: variants of
`X` as a plausible mistake would leave it, used to see that the properties can fail.

### Robot (`Robot.tla`, `MCRobot.tla`)

State: `startPc` (the caller in `start()`), `running`, `workerPc` (the worker in
`loop()`), `currentState`, `eventQueue`, `timers` (remaining ticks, in due order),
`sinceLastEvent` (age of `_lastEventTime`), `entrySource`, `cause` and `sleepLeft`
(the transition that sleeps in `MovingState::onEnter`), `enabled`, the actuators
`motor` and `joints` (who moved them last), and the history `ownerSilence`.

Actions: `Start` and `EnterInitialState` (`start()`; InitializeState leads to
IdleState in one step of the caller), `postEvent`, `stop`, `Tick`; the worker's
`CheckRunning`, `PostDueTimer`, `TimersPosted`, `WakeWithoutEvent`; and one action
for each outcome of `dispatch`: `HandleControl`, `SkipTimeout`, `LeaveMoving`,
`Fail`, `LeaveIdle`, `EnterMoving`, `Ignore`. A dispatch is a single step because the
handlers touch only what the worker owns, except for the entry into MovingState,
which sleeps and is two steps. Commands are abstracted to their source and to what
they do: drive the wheels, halt them, move joints. Times are ticks; 10 ms of slack
are one tick.

### RobotControllerService over CommandMailbox

State: the place of each publisher in its callback (`pc`) and of the service thread
(`svcPc`), the two mutexes, the slot (`engaged` and one `cell` for each field), the
copy that is being made, `initialized`, `running`, `robotRunning`. A command is the
number of its publication, and a field of the slot holds the number of the command
it came from, so that a mixed command shows.

Actions: `Start`, `Launch`, `Stop`, `StopNotify`, `Join` (Service); `BeginStore`,
`StoreField`, `EndStore`, `Notify`, `RequestSensors`, `AnswerRequest`, `EndRequest`
(callbacks); `CheckRunning`, `BeginWait`, `WakeSpuriously`, `EndWait`, `TestSlot`,
`ReadSource`, `CopyField`, `PostEvent`, `ResetSlot`, `PublishSensors`, `EndPublish`,
`Exit` (service thread). Assigning to an engaged optional and constructing an empty
one differ: only the latter keeps the reader out until it is complete. The data race
is the free choice of the order in which fields are written and read. An access to a
single field is atomic.

`CommandMailbox` says what the slot promises in spite of the race: an event consists
of commands published after the previous event was posted. Commands may be lost or
mixed; none is posted twice, none after a newer one.

### StateMachineLoop

The queue and the timers as counters, `_mtx`, and the condition variable: `PushEvent` and
`NotifyPush` (`postEvent`), `Stop`, `NotifyStop`, `Join`, and the worker's
`CheckRunning`, `PostTimer`, `LockQueue`, `TestPredicate`, `Block`, `WaitTimesOut`,
`WakeLoop` (a spurious wakeup), `Relock`, `PopEvent`, `Dispatch`. `Clock` makes the next timer due.
`_timerMtx` is left out: after `start()` only the worker takes it. The specification is
`LoopSpec`; the names begin with Loop where `PublisherLocks` has the same one, so that
`LockProofs` can extend both.

### ServoMotorController

`todo` are the joints that a command has still to move and `joint` the one that
`setJointAngle` moves now; `control_motion` takes them in a fixed order (`ComesNext`),
and compares with the angles it read at the beginning. `current` (`uint8_t`, so `% 256`), `file` with the value `Cut` between its truncation
and its writing, `position` (what the PWM chip holds, which survives the process).
`JointCommand`, `BeginMove`, `Step`, `Remember`, `Save`, `EndMove`, `EndCommand`,
`setEnable`, `Crash` at any point, `Restart`. A save may fail to open the file.
A command may send a joint to any angle, since percentages of the remote control are
checked nowhere. `stale` (the last save failed) and `lost` are history: `lost` are the
joints that the process has not moved since it resumed from a pose that was cut short or
is out of date. Their first output may be anywhere, and `NoJump` excepts it; so does it
the move out of an angle below 0 or above 255 (`MayBeRemembered` says what is left of it).

### ExpressionService

Three threads and the terminal. `running` and `thread` of the expression, perception
and tracker services (`"none"`: not joinable; `"ended"`: joinable, but over), `queue`,
`items` (sequence items left), `cameraOpen`, `face` and `follow` (what the tracker
knows), `terminated` (`std::terminate` was called).

The expression thread: `CheckExpression`, `Wait`, `Front`, then `makeMimic`
(`StopPerception` ... `JoinTracker`, `BasePosition`, `SequenceItem`, `IdlePosition`,
`StartPerception` ... `CreateTracker`), `Pop`. `start()` is three steps (test, set
`_running`, create the thread) and so is `stop()` (test, clear, join), because the
terminal may call either on the same service (`ConsoleStart` ... `ConsoleJoin`).
Creating a thread over one that is joinable terminates; two joins at once may.
Perception: `OpenCamera`, `CameraFails`, `CheckPerception`, `ProcessFrame`,
`CloseCamera`. Tracker: `CheckTracker`, `SelectTarget`, `ControlHead`,
`AssignIdlePose`. `blind` counts the rounds of the tracker since perception has reported
that there is no face. A perception that is stopped with a face in its last report never
makes that report, and the tracker follows the face for as long as it runs; `TargetGivenUp`
does not speak of that, and says so. Responses are the name of a motion, an unknown one, or a text for
which nothing is performed. `_speaking` is never set, since the body of `speakText`
is commented out, so the loop that waits for it is not there.

### Voice agent (`Datagrams`, `RobotBridge`, `EchoSuppression`, `VoiceAgentService`, `VoiceAgent`)

`Datagrams` is the network: two sets of messages under way, from which a message may
be taken in any order, several times (`TakenByRobot`, `TakenByAgent`) or never; one that is
longer than the receiver's buffer (`Fits`) arrives cut and is not parsed. `load` fixes how
much happens in a behaviour: pieces of text, turns, choices of a mimic, requests and their
kinds, sounds.

`RobotBridge` (Python, one event loop): `TextFrame` appends to the buffer, cancels the
sleeping task and starts another; `Flush` sends the buffer with the chosen mimic;
`SetMimic`; `Request`, `WaitResponse`, `DatagramReceived`, `ReplyReturned`,
`RequestTimesOut`; `Tick`; `Disconnect`. A step lasts from one `await` to the next.
Any number of requests may wait at once, each in a helper of its own (`waitLeft`,
`awaits`), but the protocol object has one `_event` and one `_response`, which every
request replaces. `WaitResponse` is a step of its own, since `wait_for` wraps the coroutine in a
task before Python 3.12; a later Python takes it at once, which is one of the
interleavings. Helpers whose Event was replaced time out, return the datagram of
another, or fail their assertion.

`EchoSuppression` is the processor in the same pipeline: reports that the voice began
and ended (`frames`) arrive late, and the second may not arrive at all; `AudioFrame`
applies the safety valve; `Passes` says whether the microphone's audio goes on.

`VoiceAgentService`: `Start` (with or without a port), `ReceiveData`, `ReceiveTimesOut`,
`SendReading`, `SendSnapshot`, `RequestReading`, and `StoreReading` on other threads.
`_sensorData` is serialised without its lock; if it is replaced meanwhile, an answer,
an exception or a fault may come of it.

`VoiceAgent` composes them up to the gesture that `makeMimic` chooses. `TextConserved`
is stated frame by frame: each response, and then the buffer, goes on where the one
before it ended (`GoesOn`, `LastFrame`).

### RemoteConnectionService

Three threads: the service (`svcPc`), the server (`serverPc`) with the handlers
`OnOpen`, `OnClose` and `OnMessage`, and the terminal (`consolePc`). `slot` holds the
number of the handler call that filled it, `kinds` what each call brought, so that a
message which is replaced between comparison and use shows. The service compares the
slot with `on_open` (`IsOpen`), with `on_close` (`IsClose`) and parses it (`Parse`) in
three separate steps, without the lock; each of the three acts on what it finds.
`Json::parse` throws on what is not JSON and the process ends (`terminated`).
`StopOperator`, `StopServer`, `JoinServer` are `WebSocketOperator::stop`.

### MotionControl

One step is one command, since `_controllerMutex` is held for all of it. `off` are the
OFF registers of the six motor channels, as two bytes; `Output` is what the chip makes
of them. `control_body` cuts the strength, normalises the angle with C++'s remainder
and chooses among four regions; `control_head` moves three joints with limits; the arms
take percentages, the eyes two positions, and gestures and the terminal poses of bytes.
Strengths and percentages are any integers, as the code checks neither: a negative count
sets the "always off" bit, and a percentage outside 0 to 100 leads out of the half turn of
a servo. `joint` is the byte that is remembered, `position` the angle that was put out, and
the history `beyond` the joints that were ever commanded beyond half a turn. Products of
floats that are cut to integers are a choice between the two results that rounding allows.

### PublisherLocks

Each thread has a list of operations still to do (`work`): publish, take a data mutex,
stop, join and so on. Publishing puts the callbacks of all subscribers and then the
release of the mutex in front of the list, so what a thread holds can be read off its
list. `Callback` is `subcribed_data_receive` of every service, `Rounds` one pass
through every `service_function`; those of the terminal include starting and stopping each
of the services that it knows by name (`TuiRounds`; the constant `Ordered` bounds which of
them). A `start()` over a thread that is still
joinable terminates the process (`Joinable`). `meddled` is history: the terminal has started
or stopped ExpressionService. `WaitsFor` relates a thread to the ones that hold
what it needs.

## 4. What the runs show

| Run | Bounds | Shows |
|---|---|---|
| `robot_services` | 2 commands of each of 4 services, queue 2, timeout 3 ticks | `WatchdogArmed`, `WatchdogUnique`, `EnableMatchesState`, `WakeCommandExecuted`, `TuiExclusive`, `ActiveSessionKept` |
| `robot_liveness` | all event types, an unset source, a tracker that never stops | `TuiSessionEnds`, `ExpressionSessionEnds` |
| `controller_slot` | 2 publishers, 3 commands, 2 fields, 1 stop and restart | `ImplementsMailbox`, `StopIsComplete`, `WaitingCommandPosted` |
| `loop_locks` | 3 posts, 2 timers | `NoLostWakeup`, `EventHandled`, `TimerFires`, `StopReturnsWithTimer` |
| `servo_pose` | 2 joints, 2 commands, 2 crashes, angles around 0 and 255 | `SavedPoseMatches`, `NoJump` |
| `expression_gesture` | 2 responses, 2 terminal commands, 1 camera failure, followTimeOut 3 | `GestureUndisturbed`, `RunningHasThread`, `TargetGivenUp`, `TrackingResumes` |
| `voice_agent` | five loads, each with a few pieces, choices, requests or sounds; packets of 2 pieces | `TextConserved`, `ChosenMimicPerformed`, `ReplyIsNew`, `OwnVoiceNotHeard`, `TextSent`, `MicrophoneOpens`, `DeliveredIsPerformed` |
| `remote_connection` | 2 clients, 4 handler calls, 1 stop | `MessageHasHandle`, `ImplementsMailbox`, `WaitingMessageHandled` |
| `motion_control` | any 2 commands, angles at and around every border, strengths below 0 and below -100, 0, 1, 99, 100 and more, percentages from -20 to 150 | `WheelsFollowStick`, `PulseInInterval`, `HeadFollowsStick` |
| `publisher_locks` | all 7 services, 2 inputs from outside, start and stop of ExpressionService among them | `NoCircularWait`, `RemoteHasBody` |

`servo_pose`, `voice_agent`, `motion_control` and `publisher_locks` also check `TypeOK`; the
type invariants of all modules are proved (section 5).

**Why the bounds are enough.** *Robot*: two sessions are needed for a timer of one to
meet the other, and two commands of one source for a refresh after the entry; the
queue needs two places for a timeout to be overtaken by a command; a timeout of three
ticks leaves room for a command that comes just in time, one that comes too late and
the entry's sleep. *Controller*: a mixed command needs two, a third shows that it is
not delivered again; two fields, one of them `source`, are enough to be torn; one stop
and restart reaches every state of the life cycle, and the second stop is covered by
the proof. *Loop*: an event posted at each of the three places where the worker can
miss it. *Servo*: two joints for a command that dies between them, two crashes for a
crash after a resumed pose. *Expression*: one gesture after another and two terminal
commands, so that a `start` and a `stop` can fall into the same gesture; the code's followTimeOut is
5, and 3 is the least with which a face that is gone is still followed (for one round, in
the code for three; the proof has any number). *Voice agent*: the loads separate what does
not interact (three pieces of text; two pieces with two mimics; two requests; a piece with a
request of either kind; three sounds). Three pieces are enough for an answer that is split in
two, a second request for a late reply, a copy of one and a shared Event, two voices for an
age that is inherited.
*Remote*: an open, a close or message that meets it, and one more of each that could be
lost; the proof covers any number. *Motion*: one body command determines the wheels
and a second may stop them, and a head command follows poses at and beyond the ends of the head's
ranges. *Locks*: a circle needs two threads that were set going from outside; the
others publish by themselves in every round. Of the services that the terminal can start
and stop, the run has the one on which the remote control's switch depends; the proofs have
all four, and any number of inputs. With all four the run has 1.6 million states; it passes
as well, but takes about twice as long.

**Fairness.** The threads are scheduled (weak fairness of each thread's own steps),
time passes (`Tick`, `Clock`), and a callback that began runs to its end. Strong
fairness is assumed only for taking `_dataMutex` and the publisher mutex in
`RobotControllerService`: holders release them and pause between two commands or two
requests (the voice agent's loop sleeps up to 100 ms), so a waiting thread gets its
turn. Nobody has to publish, to use the terminal, or to wake up without a
notification; the spurious wake-ups are possible and never counted on. In `VoiceAgent`
the event loop resumes tasks that can run, audio frames keep coming, and strong fairness
of receiving a given response says that a datagram that stays in the socket is read in
the end; a lost datagram never was in it. In `RemoteConnectionService` clients, sensors
and the terminal may stop at any time.

`CHECK_DEADLOCK FALSE` stands where the system really ends: `loop_locks` (the machine
was stopped), `expression_gesture`, `publisher_locks`, `remote_connection` (the process
was terminated, or the inputs are used up and everyone sleeps; in `remote_connection`
also the `stop()` that never returns) and `voice_agent` (the agent has ended). Circular
waiting is checked by `NoCircularWait` and not by the absence of a deadlock, so that two
threads stuck among seven are found.

The other two runs end in a violation; see section 6.

## 5. Proofs

TLAPS checks these for every value of the constants, from the named assumptions in
each module (bounds are naturals, commands and motions have their types, the slack is
between one tick and the timeout, the terminal starts and stops expression and
perception only).

* **RobotProofs.** `TypeCorrect` first. Then the invariant `IInv`, whose parts are
  `WatchdogArmed`, `WatchdogUnique`, `EnableMatchesState` and three strengthenings:
  `StartInv` (nothing is queued or current before `start()` has made its transition),
  `SleepInv` (during the sleep in `MovingState::onEnter` the state is still Idle, with
  the flags of a moving state), `SilenceInv` (the session's owner has been silent at
  least as long as the age that the code compares, in every child state). Without the
  second neither the flags nor the watchdog are inductive: `EnterMoving` arms a timer
  and must know that it comes from Idle, where there is none. Lemmas on `Append` and `Tail` say what posting and popping
  do to `TimeoutQueued`. From `IInv` follow `WatchdogAlwaysArmed`,
  `WatchdogNeverDuplicated`, `FlagsMatchState` and the action properties `SessionsKept`,
  `WakeCommandIsExecuted` (only `EnterMoving` leaves Idle for a child, and `SleepInv` says
  that both motor controllers are enabled then) and `TuiIsExclusive`.
* **RobotControllerProofs.** `IInv` = `TypeOK`, `LockInv` (a store holds
  `_dataMutex`), `ReadInv` (the reader works on an engaged slot), `ConstructInv` (a
  slot under construction is not engaged), `FreshInv` (whatever the reader may still
  use is newer than the last event), `LifeInv`. `FreshInv` is what the refinement
  needs: `PostEvent` is a `Deliver` because each part of the copy is fresh, the other
  steps are `Store` or stutter. `SlotImplementsMailbox` and `StopAlwaysComplete`.
  `CommandMailbox` counts the posts, so that an event posted twice is not a stutter.
* **RemoteConnectionProofs.** `IInv` = `TypeOK`, `SlotInv` (outside an act the slot is
  empty or newer than everything acted upon, and it is full from the test to the act,
  since only the service empties it), `HandleInv` (a full slot has a handle, except
  just before the reset that follows a close), `LifeInv` (a thread that is started has
  no unfinished act of its predecessor before it). Without `LifeInv` the step `Start`
  breaks `SlotInv`, whose exception would vanish with the old thread's place.
  `HandleKept` and `SlotImplementsMailbox` follow; in the refinement `IsOpen`,
  `IsClose` and `Parse` are `Deliver`, the handlers `Store`, the rest stutters.
* **LockProofs**, about `PublisherLocks` for any number of inputs and any services
  that the terminal starts and stops. `NoCircularWait` is not
  inductive, for it says nothing of what a thread will do when it goes on. The invariants:
  `NestingInv`: a thread's list has only operations of its own (`Ops`), the deeper ones
  first: `Rank` numbers how deep in the calls an operation is made, from the join inside
  `stop()` over the callbacks inside a publication inside an answer, to what a thread does
  with nothing held. `SubscribersInv`: the lists of subscribers are those of `main()`, but
  for the remote connection, which is last or absent. Together they determine what
  `publish()` puts in front of the list (`PublicationsOfRemote` and its like), and each
  action replaces the first operation by deeper ones, which keeps the nesting
  (`ReplacedNested`). The main lemma is `WaitsForLower`: whoever holds a mutex has its
  release in the list, so the operation before it is deeper than that release, and the
  `Level` of such an operation is lower than that of the operation that waits. Levels
  are, from below: callbacks that take mutexes never held over a step; the publication
  of RobotControllerService and the subscriptions; the `_dataMutex` of
  RobotControllerService; joining the tracker, perception or RobotControllerService;
  joining the expression thread; joining the remote connection. In a circle of waiting
  threads take one of least level (`LowestWaits`): `NoThreadWaitsForItself`. The terminal
  may join the remote connection, which nobody else waits for, because it holds no mutex
  while it starts and stops services (`CommandsInv`).
  `ThreadInv` (a running service has a thread, and a thread that has ended nothing to do)
  holds in any case. `JoinInv` and `ModeInv` say what is still to be done of a switch of the
  AI mode whenever a flag, a thread and the mode disagree: of the tracker and the expression
  service, a thread that was told to stop and lives is being joined, and with the mode off
  one lives only with its stop, its join or the next switch ahead of the remote connection.
  Both fail once the terminal has started or stopped ExpressionService, so they are kept
  under `~meddled` (`UnmeddledInv`); its other commands keep them. This gives
  `RemoteKeepsBody`. `CountInv`: responses in the queue and on their way to it are no more
  than the inputs, and a pop has one to take; with it `LocksTypeCorrect`.
* **LockProofs**, about `StateMachineLoop`. `LoopLockInv` (the worker holds `_mtx` from the
  test of the predicate to the wait, and found the queue empty) and `QueueInv`;
  `WakeupNeverLost` and `LoopTypeCorrect`.
* **ExpressionProofs.** `TrackerInv` (only the expression thread stops and starts the
  tracker, so between its join and its creation there is no tracker thread), `RunInv`
  (a perception thread that has left its loop is not marked as running, unless someone
  is about to create one, and that terminates), `TargetInv` (`follow + blind` stays
  below the timeout), `WorkInv` (the response that is performed is still in the
  queue). `GestureNeverDisturbed`, `RunningIsTrue`, `TargetIsGivenUp`.

* **ServoProofs.** `IInv` = `TypeOK`, `FileInv` (the pose file is cut or holds
  `current`, in the middle of a move and in a dead process too), `MoveInv` (what
  `setJointAngle` has output and remembered of its joint at each of its steps),
  `PositionInv` (what is remembered of a joint that is not lost is the angle of its output
  or the one before, or the byte that is left of it).
  `SavedPoseMatches` speaks of the time between commands only, which a crash can leave
  and a restart enter anywhere, so it is not inductive without the first; `JointsNeverJump`
  needs the last two, since a restart outputs a remembered angle that may be one degree
  old. Any joints in any order, commands to any angle, any number of crashes.
* **MotionProofs.** `IInv` adds to `TypeOK` that a joint that was always commanded within
  half a turn is where it is remembered to be, and that this is within half a turn, which a
  byte does not say and without which the pulse leaves its interval. The rest are lemmas
  on the operators: what the two register bytes play back (`BytesOutput`), that a speed
  which `control_body` caps is not played back as "always off" (`LevelOutput`), how the
  sectors of the code and of the property divide the circle after C++'s remainder
  (`Sectors`), and that one step towards a limit comes closer to it or reaches it
  (`LowerCloser`, `RaiseCloser`). `WheelsObey`, `PulsesInInterval`, and the action property
  `HeadObeys`, for any sticks, percentages, poses and configured ranges.
* **VoiceAgentProofs.** `IInv` = `TypeOK` and one part for each promise. `TextInv`:
  responses and buffer go on from each other without a gap, and there are no more
  responses than frames, which bounds their numbers. `ChoiceInv`: the pending mimic is
  the last valid choice since the last response, each response sent carries the one
  pending then, and what is in the network or was performed is one of them; `IsWanted`
  says "last valid choice" without `CHOOSE`, and `WantedUnique` leads back to the
  property. `ReplyInv`: every request that waits while there is a response was waiting when
  it came, since each request that begins clears it; the Event on which a helper wakes may
  be one of another request. `VoiceInv`: of a voice that is played the beginning is
  still to be reported, or the processor knows of it and counts no longer than it lasts;
  it does not suffice that `botSpeaking` is set, since a late end of an earlier voice
  would clear it. `TextIsConserved`, `ChosenIsPerformed`, `RepliesAreNew`,
  `OwnVoiceStaysOut`, for any load, timeouts and packet size.

Every inductive invariant was checked by TLC on small instances before it was proved, that
of `PublisherLocks` with all four services that the terminal starts and stops.

Only model-checked is every liveness property (`~>` and `[]<>` under fairness): liveness
is out of the prover's reach. All invariants and action properties of the passing runs are
proved.

The violations are counterexamples of TLC and need no proof.

## 6. Where code and documentation disagree

* `robot_idle_motors`: the design diagram says that a timeout stops all motors; the
  code only disables the controller, and the wheels keep their last command.
* `remote_stop`: the terminal's help says that `stop` stops a service; for
  RemoteConnectionService it never returns once the server runs, because `run()` is
  called with the mutex held that stopping it needs.

Other behaviours of the models that a reader may not expect, each of which was seen as a
counterexample of a stronger property:

* a Talking session that the tracker opened is kept alive by the tracker's own commands,
  which a comment (talking_state.cpp:54-57) means to prevent;
* `set <joint> <value>` of the terminal may find the service thread outside `wait()`, and
  the command stays in the slot;
* after `stop` and `start` of RobotControllerService nobody handles the commands, because
  only `initialize()` starts the state machine;
* a pose or a `set` above 180 degrees and an arm percentage outside 0 to 100 leave the
  documented pulse interval, and an angle below 0 or above 255 is remembered as a byte, from
  which the next movement of the joint starts;
* a face that perception saw last when the terminal stopped it is followed for ever;
* `stop PerceptionService` while a gesture ends terminates the process, because the
  gesture starts the service before `join()` has returned; AIModeOnCall during a gesture
  can do the same;
* a pause inside an answer of the voice agent sends it as two responses; a late reply
  may be returned to the next request of the bridge, one datagram to two requests that
  wait at once, and a request that begins may make the helper of another fail;
* with the AI mode off, a `start ExpressionService` of the terminal sets off gestures again;
  and when the terminal's `stop` has cleared `_running` and waits for a gesture, AIModeOffCall
  does not wait for it, and its end starts the tracker;
* a client that sends what is not JSON, or an open that replaces a message at the wrong
  moment, terminates the process;
* below -180 degrees the angle of the body joystick is not normalised as the comment at
  robot.cpp:190 says.

The same lost notification as for `set` can keep `Service::stop` and, when no
timer is pending, `StateMachine::stop` from returning, and can leave a response in the
queue of ExpressionService; the models have these behaviours, and the properties are
stated accordingly (`StopIsComplete` speaks of a `stop()` that has returned,
`StopReturnsWithTimer` of a machine with a timer).

## 7. What is not modelled

* Listening, mapping and tracking states, which are never entered; `Service::run`,
  `disable` and `enable`, which nobody calls.
* Finer outcomes of the data races: a torn `std::map` in the slot or in the idle pose,
  a `std::deque` that reallocates during a pop.
* `RobotControllerService` takes `_robot.stop()` as returning; whether it does is the
  subject of `StateMachineLoop`.
* A power failure, as opposed to the death of the process: the PWM chip would lose its
  outputs and the joints would go slack.
* The messages of services that neither `main.cpp` starts nor the remote control uses
  (InteractiveChat, Rag, Mapping): they work on the answers of a language model that the
  repository does not contain.
* The terminal's `exit`, which stops the services and ends the process. In `PublisherLocks`
  `startAll` is its starts, one after the other, and `speak` is `expression`, since it takes
  the same locks.
* The default of RobotControllerService for a command without a source
  (robot_controller_service.cpp:74-77): every publisher sets one. `Robot` handles events
  with that source all the same.
* Frames and sensor values sent to a remote client: no service publishes a frame, and
  the branch that sends them waits for one.
* The vendored headers under `src/include` and the libraries they belong to.
* Failing controllers: `Robot` assumes they are initialised.
* The parts planned in section 2, and what is only input and output: image
  processing, the terminal's windows, audio, the llama and HTTP wrappers, logging.
