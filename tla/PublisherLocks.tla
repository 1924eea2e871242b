--------------------------- MODULE PublisherLocks ---------------------------
(***************************************************************************)
(* The services that main.cpp starts, with the terminal and the remote     *)
(* connection, seen through the mutexes they take and the threads they     *)
(* join.  publish() calls every subscriber on the publisher's thread with  *)
(* the publisher's mutex held (src/publisher.cpp); a callback takes the    *)
(* subscriber's _dataMutex, may publish in turn, or may start or stop a    *)
(* service, and stop() joins.  What the messages say, and the condition    *)
(* variables of the other services, belong to the modules of those         *)
(* services; start() and the first half of stop() are one step here, and   *)
(* are taken apart in ExpressionService.                                   *)
(*                                                                         *)
(* The work of a thread is the sequence of operations it still has to do,  *)
(* the next one first.  publish() replaces itself by the callbacks of the  *)
(* subscribers, which cannot change while the mutex is held.               *)
(***************************************************************************)
EXTENDS Naturals, Sequences, SequencesExt

CONSTANTS MaxInputs,  \* bound: datagrams of the voice agent, commands of the
                      \* terminal and messages of the remote control
          Ordered     \* bound: the services that the terminal is told to start
                      \* and stop

\* The services that the terminal starts and stops by their names.
Startable == {"Controller", "Remote", "Perception", "Expression"}

ASSUME MaxInputsIsNatural == MaxInputs \in Nat
ASSUME OrderedAreStartable == Ordered \subseteq Startable

Services == {"Expression", "Perception", "Controller", "Landmark",
             "VoiceAgent", "Tui", "Remote"}

\* Seeded fault: the tracker subscribes to the remote connection before
\* ExpressionService does.
SubscribersAtStart_TrackerFirst ==
    [s \in Services |->
        CASE s = "Expression" -> <<"Perception", "Controller", "Landmark">>
          [] s = "Perception" -> <<"Landmark", "Tui">>
          [] s = "Controller" -> <<"Landmark", "VoiceAgent", "Tui">>
          [] s = "Remote" -> <<"Landmark", "Expression", "Perception", "Controller">>
          [] OTHER -> <<"Expression", "Controller">>]

(* The subscribers of each service, in the order in which main.cpp starts  *)
(* the services and their initialize() subscribes.                         *)
SubscribersAtStart ==
    [s \in Services |->
        CASE s = "Expression" -> <<"Perception", "Controller", "Landmark">>
          [] s = "Perception" -> <<"Landmark", "Tui">>
          [] s = "Controller" -> <<"Landmark", "VoiceAgent", "Tui">>
          [] s = "Remote" -> <<"Expression", "Perception", "Controller", "Landmark">>
          [] OTHER -> <<"Expression", "Controller">>]

-----------------------------------------------------------------------------
VARIABLES work,           \* what each service's thread has still to do
          running,        \* _running
          alive,          \* the service's thread exists and has not ended
          subscribers,    \* _subscribers of each publisher
          gestures,       \* responses in _speakingQueue; its texts need no lock
          aiModeEnabled,  \* _aiModeEnabled of PerceptionService
          terminated,     \* std::terminate was called
          meddled,        \* history: the terminal started or stopped ExpressionService
          inputs          \* bound: inputs from outside so far

vars == <<work, running, alive, subscribers, gestures, aiModeEnabled, terminated, meddled,
          inputs>>

threads == <<running, alive, terminated, meddled>>
data == <<subscribers, gestures, aiModeEnabled>>

(* Operations, as triples.  A mutex is held from the step that puts its    *)
(* release into the work until the release has been taken out of it.       *)
Publish(s, type) == <<"publish", s, type>>
Release(s, mutex) == <<"release", s, mutex>>
Store(s) == <<"store", s, "_dataMutex">>  \* a callback's critical section
Push(n) == <<"push", "Expression", n>>
TryAnswer == <<"answer", "Controller", "_dataMutex">>
StartOf(s) == <<"start", s, "">>
StopOf(s) == <<"stop", s, "">>
JoinOf(s) == <<"join", s, "">>
SetAIMode(mode) == <<"mode", "Perception", mode>>
Subscribe(s) == <<"subscribe", s, "_mutex">>
Unsubscribe(s) == <<"unsubscribe", s, "_mutex">>
Wait == <<"wait", "Expression", "">>
Asleep == <<"asleep", "Expression", "">>
Serve == <<"serve", "Expression", "">>
Pop == <<"pop", "Expression", "">>

-----------------------------------------------------------------------------
(* subcribed_data_receive of each service: what it does to locks and       *)
(* threads for a message type.                                             *)
Callback(s, type) ==
    CASE s = "Expression" /\ type = "LLMResponse" -> <<Push(1)>>
      [] s = "Expression" /\ type = "SpeakRequest" -> <<Push(0)>>
      [] s = "Expression" /\ type = "AIModeOnCall" -> <<StartOf(s)>>
      [] s = "Expression" /\ type = "AIModeOffCall" -> <<StopOf(s)>>
      [] s = "Perception" /\ type = "AIModeOnCall" -> <<SetAIMode("on"), StartOf(s)>>
      [] s = "Perception" /\ type = "AIModeOffCall" -> <<SetAIMode("off"), StartOf(s)>>
      [] s = "Perception" /\ type = "StartPerceptionRequest" -> <<StartOf(s)>>
      [] s = "Perception" /\ type = "StopPerceptionRequest" -> <<StopOf(s)>>
      [] s = "Landmark" /\ type \in {"RecognizedGesture", "SensorData"} -> <<Store(s)>>
      [] s = "Landmark" /\ type \in {"StartPerceptionRequest", "AIModeOnCall"} -> <<StartOf(s)>>
      [] s = "Landmark" /\ type \in {"StopPerceptionRequest", "AIModeOffCall"} -> <<StopOf(s)>>
      [] s = "Controller" /\ type = "ControlData" -> <<Store(s)>>
      [] s = "Controller" /\ type = "SensorReadRequest" -> <<TryAnswer>>
      [] s \in {"VoiceAgent", "Remote"} /\ type = "SensorData" -> <<Store(s)>>
      [] s = "Tui" /\ type \in {"SensorData", "RecognizedGesture"} -> <<Store(s)>>
      [] OTHER -> <<>>

(* What publish() does: the callbacks in the order of the subscribers.     *)
(* Nobody has more than four.                                              *)
Callbacks(s, type) ==
    LET Of(i) == IF i \in DOMAIN subscribers[s] THEN Callback(subscribers[s][i], type)
                 ELSE <<>>
    IN  Of(1) \o Of(2) \o Of(3) \o Of(4)

-----------------------------------------------------------------------------
(* One round of each service_function.                                     *)

PerceptionRounds == {<<Publish("Perception", "RecognizedGesture")>>}

\* Seeded fault: collectTrackingData's lock is kept while the head is moved.
LandmarkRounds_Locked ==
    {<<Publish("Landmark", "ControlData"), Release("Landmark", "_dataMutex")>>}

(* collectTrackingData, and controlHead; a round without a target takes    *)
(* the first lock only.                                                    *)
LandmarkRounds == {<<Store("Landmark"), Publish("Landmark", "ControlData")>>}

(* publishSensorValues after a command.  The wait for the command takes    *)
(* _dataMutex with nothing else held, and nobody joins this thread.        *)
ControllerRounds == {<<Publish("Controller", "SensorData")>>}

(* A response of the voice agent or none, and the request for sensor       *)
(* values.  No subscriber handles the publication of a snapshot request.   *)
VoiceAgentRounds ==
    {<<Publish("VoiceAgent", "SensorReadRequest")>>,
     <<Publish("VoiceAgent", "LLMResponse"), Publish("VoiceAgent", "SensorReadRequest")>>}

(* set and the joysticks, sensors, expression, of which speak takes the    *)
(* locks, start and stop.  startAll is the starts, one after the other.    *)
TuiRounds ==
    {<<Publish("Tui", m)>> : m \in {"ControlData", "SensorReadRequest", "LLMResponse"}}
    \cup {<<StartOf(s)>> : s \in Ordered} \cup {<<StopOf(s)>> : s \in Ordered}

(* on_open, on_close, the two switches of the AI mode, a joystick.         *)
RemoteRounds ==
    {<<Publish("Remote", "SpeakRequest"), Publish("Remote", "AIModeOffCall"),
       Subscribe("Perception"), Subscribe("Controller")>>,
     <<Publish("Remote", "AIModeOnCall"), Unsubscribe("Perception"),
       Unsubscribe("Controller"), Publish("Remote", "SpeakRequest")>>,
     <<Publish("Remote", "AIModeOnCall"), Publish("Remote", "SpeakRequest")>>,
     <<Publish("Remote", "SpeakRequest"), Publish("Remote", "AIModeOffCall")>>,
     <<Publish("Remote", "ControlData")>>}

Rounds(s) ==
    CASE s = "Expression" -> {<<Wait, Serve>>}
      [] s = "Perception" -> PerceptionRounds
      [] s = "Landmark" -> LandmarkRounds
      [] s = "Controller" -> ControllerRounds
      [] s = "VoiceAgent" -> VoiceAgentRounds
      [] s = "Tui" -> TuiRounds
      [] s = "Remote" -> RemoteRounds

(* makeMimic: the tracker is stopped, the robot moved, the tracker started *)
(* again.  Base position, items and idle position are publications alike,  *)
(* one of which stands for all of them.                                    *)
Gesture ==
    <<Publish("Expression", "StopPerceptionRequest"),
      Publish("Expression", "ControlData"),
      Publish("Expression", "StartPerceptionRequest")>>

-----------------------------------------------------------------------------
Init ==
    /\ work = [s \in Services |-> <<>>]
    /\ running = [s \in Services |-> TRUE]
    /\ alive = [s \in Services |-> TRUE]
    /\ subscribers = SubscribersAtStart
    /\ gestures = 0
    /\ aiModeEnabled = "on"
    /\ terminated = FALSE
    /\ meddled = FALSE
    /\ inputs = 0

Holds(t, mutex, s) == Contains(work[t], Release(s, mutex))

Free(mutex, s) == \A t \in Services : ~Holds(t, mutex, s)

(* The next operation of thread t is an op.                                *)
At(t, op) == alive[t] /\ work[t] # <<>> /\ Head(work[t])[1] = op

Of(t) == Head(work[t])[2]
Argument(t) == Head(work[t])[3]

(* A release cannot block and is part of the step before it.               *)
Settled(ops) ==
    LET others == {i \in DOMAIN ops : ops[i][1] # "release"}
    IN IF others = {} THEN <<>> ELSE SubSeq(ops, Min(others), Len(ops))

(* The work once thread t has replaced its next operation by ops.          *)
After(t, ops) == [work EXCEPT ![t] = Settled(ops \o Tail(@))]
Done(t) == work' = After(t, <<>>)

(* notify_one on the condition variable of ExpressionService.              *)
Notified(w) ==
    IF w["Expression"] # <<>> /\ Head(w["Expression"]) = Asleep
    THEN [w EXCEPT !["Expression"] = Tail(@)]
    ELSE w

(* while (_running): another round, or the end of the thread.  Only an     *)
(* empty receive of the voice agent needs no input.  The thread of the     *)
(* remote connection does not come to its end: it stops the web socket     *)
(* operator, which waits for a mutex of the server for ever (see           *)
(* RemoteConnectionService), and holds no mutex of this module then.       *)
BeginRound(t) ==
    /\ alive[t] /\ work[t] = <<>> /\ running[t]
    /\ \E round \in Rounds(t) :
          LET needsInput == \/ t \in {"Tui", "Remote"}
                            \/ t = "VoiceAgent" /\ Len(round) = 2
          IN /\ needsInput => inputs < MaxInputs
             /\ inputs' = IF needsInput THEN inputs + 1 ELSE inputs
             /\ work' = [work EXCEPT ![t] = round]
    /\ UNCHANGED <<threads, data>>

EndThread(t) ==
    /\ alive[t] /\ work[t] = <<>> /\ ~running[t] /\ t # "Remote"
    /\ alive' = [alive EXCEPT ![t] = FALSE]
    /\ UNCHANGED <<work, running, terminated, meddled, data, inputs>>

(* publish(): lock, and the callbacks up to the release.                   *)
LockPublisher(t) ==
    /\ At(t, "publish") /\ Free("_mutex", Of(t))
    /\ work' = After(t, Callbacks(Of(t), Argument(t)) \o <<Release(Of(t), "_mutex")>>)
    /\ UNCHANGED <<threads, data, inputs>>

(* A critical section that takes no other lock is one step.                *)
StoreData(t) ==
    /\ At(t, "store") /\ Free("_dataMutex", Of(t))
    /\ Done(t)
    /\ UNCHANGED <<threads, data, inputs>>

(* SensorReadRequest: try_to_lock; the answer is published with _dataMutex *)
(* held, or the request is dropped.                                        *)
TryLockData(t) ==
    /\ At(t, "answer")
    /\ work' = After(t, IF Free("_dataMutex", Of(t))
                        THEN <<Publish(Of(t), "SensorData"), Release(Of(t), "_dataMutex")>>
                        ELSE <<>>)
    /\ UNCHANGED <<threads, data, inputs>>

PushResponse(t) ==
    /\ At(t, "push") /\ Free("_dataMutex", Of(t))
    /\ gestures' = gestures + Argument(t)
    /\ work' = Notified(After(t, <<>>))
    /\ UNCHANGED <<threads, subscribers, aiModeEnabled, inputs>>

WaitForResponse(t) ==
    /\ At(t, "wait")
    /\ work' = After(t, <<Asleep>>)
    /\ UNCHANGED <<threads, data, inputs>>

WakeSpuriously(t) ==
    /\ At(t, "asleep")
    /\ Done(t)
    /\ UNCHANGED <<threads, data, inputs>>

(* while (!_speakingQueue.empty()): perform the front, pop, and again,     *)
(* whatever _running says.                                                 *)
ServeQueue(t) ==
    /\ At(t, "serve")
    /\ work' = After(t, IF gestures = 0 THEN <<>> ELSE Gesture \o <<Pop, Serve>>)
    /\ UNCHANGED <<threads, data, inputs>>

PopResponse(t) ==
    /\ At(t, "pop")
    /\ gestures' = gestures - 1
    /\ Done(t)
    /\ UNCHANGED <<threads, subscribers, aiModeEnabled, inputs>>

SwitchMode(t) ==
    /\ At(t, "mode")
    /\ aiModeEnabled' = Argument(t)
    /\ Done(t)
    /\ UNCHANGED <<threads, subscribers, gestures, inputs>>

(* _serviceThread is joinable as long as it runs, and until the join that  *)
(* stop() does has returned.                                               *)
Joinable(s) == alive[s] \/ \E u \in Services : At(u, "join") /\ Of(u) = s

Meddling(t) == t = "Tui" /\ Of(t) = "Expression"

(* start(): a thread assigned over one that is joinable terminates.        *)
StartService(t) ==
    /\ At(t, "start")
    /\ meddled' = (meddled \/ Meddling(t))
    /\ running' = [running EXCEPT ![Of(t)] = TRUE]
    /\ alive' = [alive EXCEPT ![Of(t)] = TRUE]
    /\ terminated' = (~running[Of(t)] /\ Joinable(Of(t)))
    /\ Done(t)
    /\ UNCHANGED <<data, inputs>>

(* stop(): clear _running, notify, join.                                   *)
StopService(t) ==
    /\ At(t, "stop")
    /\ meddled' = (meddled \/ Meddling(t))
    /\ running' = [running EXCEPT ![Of(t)] = FALSE]
    /\ work' = CASE ~running[Of(t)] -> After(t, <<>>)
                 [] running[Of(t)] /\ Of(t) = "Expression" -> Notified(After(t, <<JoinOf(Of(t))>>))
                 [] OTHER -> After(t, <<JoinOf(Of(t))>>)
    /\ UNCHANGED <<alive, terminated, data, inputs>>

JoinService(t) ==
    /\ At(t, "join") /\ ~alive[Of(t)]
    /\ Done(t)
    /\ UNCHANGED <<threads, data, inputs>>

\* Seeded fault: a service that is subscribed subscribes again.
Subscribed_Twice(list, t) == Append(list, t)

Subscribed(list, t) == IF Contains(list, t) THEN list ELSE Append(list, t)

(* subscribe_to_service and unsubscribe_from_service; a service is in the  *)
(* list once, so to remove it where it is found first is to remove it.     *)
ChangeSubscription(t) ==
    /\ At(t, "subscribe") \/ At(t, "unsubscribe")
    /\ Free("_mutex", Of(t))
    /\ subscribers' =
          [subscribers EXCEPT ![Of(t)] =
              IF At(t, "subscribe") THEN Subscribed(@, t)
              ELSE RemoveFirst(@, t)]
    /\ Done(t)
    /\ UNCHANGED <<threads, gestures, aiModeEnabled, inputs>>

(* One operation; each action names the one it is for once more, so that it *)
(* can be read alone.                                                      *)
Perform(t, op) ==
    \/ op = "publish" /\ LockPublisher(t)
    \/ op = "store" /\ StoreData(t)
    \/ op = "answer" /\ TryLockData(t)
    \/ op = "push" /\ PushResponse(t)
    \/ op = "wait" /\ WaitForResponse(t)
    \/ op = "serve" /\ ServeQueue(t)
    \/ op = "pop" /\ PopResponse(t)
    \/ op = "mode" /\ SwitchMode(t)
    \/ op = "start" /\ StartService(t)
    \/ op = "stop" /\ StopService(t)
    \/ op = "join" /\ JoinService(t)
    \/ op \in {"subscribe", "unsubscribe"} /\ ChangeSubscription(t)

(* What thread t does when it is scheduled.                                *)
Step(t) ==
    /\ ~terminated
    /\ \/ work[t] = <<>> /\ (BeginRound(t) \/ EndThread(t))
       \/ work[t] # <<>> /\ Perform(t, Head(work[t])[1])

Next == \E t \in Services : Step(t) \/ (~terminated /\ WakeSpuriously(t))

Spec == Init /\ [][Next]_vars

-----------------------------------------------------------------------------
TypeOK ==
    /\ running \in [Services -> BOOLEAN]
    /\ alive \in [Services -> BOOLEAN]
    /\ \A s \in Services : IsInjective(subscribers[s])
    /\ gestures \in 0 .. MaxInputs
    /\ aiModeEnabled \in {"on", "off"}
    /\ terminated \in BOOLEAN /\ meddled \in BOOLEAN

(* What the next operation needs, and the threads that thread t waits for. *)
Needs(op) ==
    CASE op \in {"publish", "subscribe", "unsubscribe"} -> "_mutex"
      [] op \in {"store", "push"} -> "_dataMutex"
      [] op = "join" -> "end"
      [] OTHER -> "nothing"

WaitsFor(t) ==
    LET needs == IF alive[t] /\ work[t] # <<>> THEN Needs(Head(work[t])[1]) ELSE "nothing"
    IN CASE needs = "nothing" -> {}
         [] needs = "end" -> {u \in {Of(t)} : alive[u]}
         [] OTHER -> {u \in Services : Holds(u, needs, Of(t))}

(* No set of threads waits for itself: whatever is published and whoever   *)
(* is stopped from a callback, the mutexes of publishers and subscribers   *)
(* and the joins never close a circle (no mutex is locked twice by its     *)
(* thread, and no thread waits for one that needs what it holds).          *)
NoCircularWait ==
    LET blocked == {t \in Services : WaitsFor(t) # {}}
    IN \A circle \in (SUBSET blocked) \ {{}} :
          \E t \in circle : WaitsFor(t) \cap circle = {}

(* A call that switches the AI mode has not come to its end.               *)
Switching == \E op \in ToSet(work["Remote"]) : op[1] \in {"start", "stop", "join"}

(* When AIModeOffCall has been published, neither a gesture nor the        *)
(* tracker moves the robot until AIModeOnCall: a gesture that is being     *)
(* performed ends first, and what it starts at its end is stopped after it.*)
(* That holds unless the terminal interferes.  Its start ExpressionService *)
(* sets off gestures with the mode off; and a switch that finds the        *)
(* service told to stop by the terminal does not wait for its gesture,     *)
(* which then starts the tracker again.  Its start and stop of the other   *)
(* services, and its other commands, do no harm.                           *)
RemoteHasBody ==
    aiModeEnabled = "off" /\ ~Switching /\ ~terminated /\ ~meddled
        => ~alive["Expression"] /\ ~alive["Landmark"]
=============================================================================
