-------------------------- MODULE ExpressionService --------------------------
(***************************************************************************)
(* Performing a gesture: the queue and the thread of ExpressionService,    *)
(* which stops perception and head tracking, moves the joints and starts   *)
(* both again (services/expression_service.cpp), the threads of            *)
(* PerceptionService and LandmarkTrackerService, and the terminal, which   *)
(* starts and stops services at any time (services/tui_service.cpp).       *)
(*                                                                         *)
(* The callbacks run on the thread that publishes, so stop() and its join  *)
(* are called by the expression thread.  Each publisher's mutex is only    *)
(* taken by its own thread here and is left out.  The model begins when    *)
(* main() has started the services; the services that main() does not      *)
(* start publish nothing.                                                  *)
(***************************************************************************)
EXTENDS Integers, Sequences

CONSTANTS
    Motion,            \* number of sequence items of each motion; 0: just hold
    ConsoleServices,   \* the services that the terminal starts and stops
    MaxResponses,      \* bound: responses and texts published
    MaxCalls,          \* bound: start and stop commands of the terminal
    MaxCameraFailures, \* bound: failures to open the camera
    FollowTimeout      \* LastKnownTarget: what setValue gives followTimeOut

Services == {"expression", "perception", "tracker"}

\* "unknown" names a motion that was not loaded; "speech" is a SpeakRequest, or
\* a response without a sentence, for which nothing is performed.
Gestures == DOMAIN Motion
Responses == Gestures \cup {"unknown", "speech"}

ASSUME MotionAssumption ==
    /\ Motion \in [Gestures -> Nat]
    /\ Gestures \cap {"unknown", "speech"} = {}
ASSUME ServicesAssumption == ConsoleServices \subseteq {"expression", "perception"}
ASSUME LimitsAssumption ==
    /\ MaxResponses \in Nat /\ MaxCalls \in Nat /\ MaxCameraFailures \in Nat
    /\ FollowTimeout \in Nat \ {0}

VARIABLES
    running,    \* _running of each service
    thread,     \* where each service's thread is; "none" when it is not joinable
    queue,      \* _speakingQueue
    notifying,  \* a publisher is between push and notify_one
    items,      \* sequence items of the motion that are still to be executed
    consolePc,  \* where the terminal is in start() or stop() ...
    consoleOf,  \* ... of this service
    cameraOpen, \* VideoOperator::_cap is open
    face,       \* _recognizedGestureData of the tracker has a face
    follow,     \* followTimeOut, 0 when _target has no value
    terminated, \* std::terminate was called
    responses, calls, failures,
    blind       \* history: rounds of the tracker since perception reported no face

consoleVars == <<consolePc, consoleOf, calls>>
speechVars == <<queue, notifying, responses>>
trackVars == <<face, follow, blind>>
vars == <<running, thread, items, cameraOpen, terminated, failures,
          consoleVars, speechVars, trackVars>>

\* initialize() of PerceptionService has opened the camera.
Init ==
    /\ running = [s \in Services |-> TRUE]
    /\ thread = [s \in Services |-> IF s = "perception" THEN "open" ELSE "check"]
    /\ queue = <<>> /\ notifying = FALSE /\ responses = 0
    /\ items = 0
    /\ consolePc = "idle" /\ consoleOf = "expression" /\ calls = 0
    /\ cameraOpen = TRUE /\ failures = 0
    /\ face = FALSE /\ follow = 0 /\ blind = FollowTimeout
    /\ terminated = FALSE

-----------------------------------------------------------------------------
(* Service::start and Service::stop, in the steps that other threads see.  *)

At(s, where) == thread[s] = where
Alive == ~terminated
Goto(s, where) == thread' = [thread EXCEPT ![s] = where]

\* The first thing a new thread of the service does.
Entry(s) == IF s = "perception" THEN "open" ELSE "check"

\* Assigning a new thread over one that is still joinable terminates.  So does
\* a second join while another thread is in join(), unless that one returns
\* before the second looks: both may have passed the test of _running.
Terminates(s) == thread[s] # "none"

\* Seeded fault: join() does not wait for the thread.
Joined_Always(s) == TRUE

\* stop() is over when join() returns or the service was not running.
Joined(s) == thread[s] \in {"ended", "none"}

-----------------------------------------------------------------------------
(* subcribed_data_receive, on the thread of VoiceAgentService or TuiService *)

Push(r) ==
    /\ Alive /\ ~notifying /\ responses < MaxResponses
    /\ queue' = Append(queue, r)
    /\ notifying' = TRUE
    /\ responses' = responses + 1
    /\ UNCHANGED <<running, thread, items, cameraOpen, terminated, failures,
                   consoleVars, trackVars>>

Woken(where) == IF where = "waiting" THEN "drain" ELSE where

Notify ==
    /\ Alive /\ notifying
    /\ notifying' = FALSE
    /\ Goto("expression", Woken(thread["expression"]))
    /\ UNCHANGED <<running, queue, responses, items, cameraOpen, terminated,
                   failures, consoleVars, trackVars>>

-----------------------------------------------------------------------------
(* ExpressionService::service_function and makeMimic *)

exprUnchanged == UNCHANGED <<cameraOpen, failures, consoleVars, notifying, responses,
                             trackVars>>

\* while (_running)
CheckExpression ==
    /\ Alive /\ At("expression", "check")
    /\ Goto("expression", IF running["expression"] THEN "enter" ELSE "ended")
    /\ UNCHANGED <<running, queue, items, terminated>> /\ exprUnchanged

\* wait() has no predicate, and its mutex is not the one of the publishers.
Wait ==
    /\ Alive /\ At("expression", "enter")
    /\ Goto("expression", "waiting")
    /\ UNCHANGED <<running, queue, items, terminated>> /\ exprUnchanged

WakeSpuriously ==
    /\ Alive /\ At("expression", "waiting")
    /\ Goto("expression", "drain")
    /\ UNCHANGED <<running, queue, items, terminated>> /\ exprUnchanged

\* while (!_speakingQueue.empty()): the front decides what is performed.
Front ==
    /\ Alive /\ At("expression", "drain")
    /\ Goto("expression", IF queue = <<>> THEN "check"
                          ELSE IF Head(queue) = "speech" THEN "pop" ELSE "stopPerception")
    /\ UNCHANGED <<running, queue, items, terminated>> /\ exprUnchanged

\* publish(StopPerceptionRequest): the handlers of PerceptionService and of the
\* tracker call stop(), which tests _running, clears it and joins the thread.
StopOne(s, from, clear, after) ==
    /\ Alive /\ At("expression", from)
    /\ Goto("expression", IF running[s] THEN clear ELSE after)
    /\ UNCHANGED <<running, queue, items, terminated>> /\ exprUnchanged

ClearOne(s, from, join) ==
    /\ Alive /\ At("expression", from)
    /\ running' = [running EXCEPT ![s] = FALSE]
    /\ terminated' \in BOOLEAN
    /\ terminated' => consolePc = "join" /\ consoleOf = s
    /\ Goto("expression", join)
    /\ UNCHANGED <<queue, items>> /\ exprUnchanged

JoinOne(s, from, after) ==
    /\ Alive /\ At("expression", from) /\ Joined(s)
    /\ thread' = [thread EXCEPT !["expression"] = after,
                                ![s] = IF @ = "ended" THEN "none" ELSE @]
    /\ UNCHANGED <<running, queue, items, terminated>> /\ exprUnchanged

StopPerception == StopOne("perception", "stopPerception", "clearPerception", "stopTracker")
ClearPerception == ClearOne("perception", "clearPerception", "joinPerception")
JoinPerception == JoinOne("perception", "joinPerception", "stopTracker")
StopTracker == StopOne("tracker", "stopTracker", "clearTracker", "base")
ClearTracker == ClearOne("tracker", "clearTracker", "joinTracker")
JoinTracker == JoinOne("tracker", "joinTracker", "base")

\* Seeded fault: returning early from makeMimic when there is nothing to execute.
AfterBase_Return(n) == IF n > 0 THEN "items" ELSE "pop"

AfterBase(n) == IF n > 0 THEN "items" ELSE "startPerception"

\* executeMotionSequence: the base joints, then the items; a motion that was
\* not found moves nothing, one without items just holds its base position.
BasePosition ==
    LET known == Head(queue) \in Gestures
    IN  /\ Alive /\ At("expression", "base")
        /\ items' = IF known THEN Motion[Head(queue)] ELSE 0
        /\ Goto("expression", AfterBase(items'))
        /\ UNCHANGED <<running, queue, terminated>> /\ exprUnchanged

SequenceItem ==
    /\ Alive /\ At("expression", "items")
    /\ items' = items - 1
    /\ Goto("expression", IF items' = 0 THEN "idlePose" ELSE "items")
    /\ UNCHANGED <<running, queue, terminated>> /\ exprUnchanged

\* setIdlePosition copies the static idleJointPositions and publishes it.
IdlePosition ==
    /\ Alive /\ At("expression", "idlePose")
    /\ Goto("expression", "startPerception")
    /\ UNCHANGED <<running, queue, items, terminated>> /\ exprUnchanged

\* publish(StartPerceptionRequest): start() tests _running, sets it and creates
\* the thread.
StartOne(s, from, launch, after) ==
    /\ Alive /\ At("expression", from)
    /\ Goto("expression", IF running[s] THEN after ELSE launch)
    /\ UNCHANGED <<running, queue, items, terminated>> /\ exprUnchanged

LaunchOne(s, from, create) ==
    /\ Alive /\ At("expression", from)
    /\ running' = [running EXCEPT ![s] = TRUE]
    /\ Goto("expression", create)
    /\ UNCHANGED <<queue, items, terminated>> /\ exprUnchanged

CreateOne(s, from, after) ==
    /\ Alive /\ At("expression", from)
    /\ terminated' = Terminates(s)
    /\ thread' = [thread EXCEPT !["expression"] = after,
                                ![s] = IF Terminates(s) THEN @ ELSE Entry(s)]
    /\ UNCHANGED <<running, queue, items>> /\ exprUnchanged

StartPerception ==
    StartOne("perception", "startPerception", "launchPerception", "startTracker")
LaunchPerception == LaunchOne("perception", "launchPerception", "createPerception")
CreatePerception == CreateOne("perception", "createPerception", "startTracker")
StartTracker == StartOne("tracker", "startTracker", "launchTracker", "pop")
LaunchTracker == LaunchOne("tracker", "launchTracker", "createTracker")
CreateTracker == CreateOne("tracker", "createTracker", "pop")

\* The response is popped only after it was performed.
Pop ==
    /\ Alive /\ At("expression", "pop")
    /\ queue' = Tail(queue)
    /\ Goto("expression", "drain")
    /\ UNCHANGED <<running, items, terminated>> /\ exprUnchanged

-----------------------------------------------------------------------------
(* PerceptionService::service_function *)

perceptionUnchanged == UNCHANGED <<items, terminated, consoleVars, speechVars, follow>>

OpenCamera ==
    /\ Alive /\ At("perception", "open")
    /\ cameraOpen' = TRUE
    /\ Goto("perception", "loop")
    /\ UNCHANGED <<running, failures, face, blind>> /\ perceptionUnchanged

\* Seeded fault: the service is still marked as running.
AfterFailure_Kept(r) == r

AfterFailure(r) == [r EXCEPT !["perception"] = FALSE]

\* The thread ends by itself and nobody joins it.
CameraFails ==
    /\ Alive /\ At("perception", "open") /\ ~cameraOpen /\ failures < MaxCameraFailures
    /\ failures' = failures + 1
    /\ running' = AfterFailure(running)
    /\ Goto("perception", "ended")
    /\ UNCHANGED <<cameraOpen, face, blind>> /\ perceptionUnchanged

CheckPerception ==
    /\ Alive /\ At("perception", "loop")
    /\ Goto("perception", IF running["perception"] THEN "process" ELSE "close")
    /\ UNCHANGED <<running, cameraOpen, failures, face, blind>> /\ perceptionUnchanged

\* processFrame publishes what it recognised and the tracker keeps it until the
\* next report, if there is one; a round that processes no frame is the one that
\* finds what is known already.
ProcessFrame(found) ==
    /\ Alive /\ At("perception", "process")
    /\ face' = found
    /\ blind' = IF found THEN 0 ELSE blind
    /\ Goto("perception", "loop")
    /\ UNCHANGED <<running, cameraOpen, failures>> /\ perceptionUnchanged

CloseCamera ==
    /\ Alive /\ At("perception", "close")
    /\ cameraOpen' = FALSE
    /\ Goto("perception", "ended")
    /\ UNCHANGED <<running, failures, face, blind>> /\ perceptionUnchanged

-----------------------------------------------------------------------------
(* LandmarkTrackerService::service_function *)

trackerUnchanged == UNCHANGED <<running, items, cameraOpen, terminated, failures,
                                consoleVars, speechVars, face>>

CheckTracker ==
    /\ Alive /\ At("tracker", "check")
    /\ Goto("tracker", IF running["tracker"] THEN "select" ELSE "ended")
    /\ UNCHANGED <<follow, blind>> /\ trackerUnchanged

\* Seeded fault: only a face that is seen counts down.
FollowLeft_Seen(n) == IF n = FollowTimeout THEN n - 1 ELSE n

\* getValue(): --followTimeOut, and at 0 the target is reset.
FollowLeft(n) == IF n = 0 THEN 0 ELSE n - 1

\* selectTheTarget, and whether the target is far enough from the middle of the
\* image for the head to be moved.
SelectTarget(far) ==
    /\ Alive /\ At("tracker", "select")
    /\ follow' = FollowLeft(IF face THEN FollowTimeout ELSE follow)
    /\ blind' = IF ~face /\ blind < FollowTimeout THEN blind + 1 ELSE blind
    /\ Goto("tracker", IF follow' > 0 /\ far THEN "control" ELSE "check")
    /\ trackerUnchanged

\* collectTrackingData had the joint angles of a SensorData, or not.
ControlHead(angles) ==
    /\ Alive /\ At("tracker", "control")
    /\ Goto("tracker", IF angles THEN "assign" ELSE "check")
    /\ UNCHANGED <<follow, blind>> /\ trackerUnchanged

\* The tracker assigns ExpressionService::idleJointPositions.
AssignIdlePose ==
    /\ Alive /\ At("tracker", "assign")
    /\ Goto("tracker", "check")
    /\ UNCHANGED <<follow, blind>> /\ trackerUnchanged

-----------------------------------------------------------------------------
(* The terminal: start <service> and stop <service> *)

consoleUnchanged == UNCHANGED <<items, cameraOpen, failures, speechVars, trackVars>>

ConsoleStart(s) ==
    /\ Alive /\ consolePc = "idle" /\ calls < MaxCalls /\ ~running[s]
    /\ calls' = calls + 1 /\ consoleOf' = s /\ consolePc' = "launch"
    /\ UNCHANGED <<running, thread, terminated>> /\ consoleUnchanged

ConsoleLaunch ==
    /\ Alive /\ consolePc = "launch"
    /\ running' = [running EXCEPT ![consoleOf] = TRUE]
    /\ consolePc' = "create"
    /\ UNCHANGED <<thread, terminated, consoleOf, calls>> /\ consoleUnchanged

ConsoleCreate ==
    /\ Alive /\ consolePc = "create"
    /\ terminated' = Terminates(consoleOf)
    /\ thread' = [thread EXCEPT ![consoleOf] =
                     IF Terminates(consoleOf) THEN @ ELSE Entry(consoleOf)]
    /\ consolePc' = "idle"
    /\ UNCHANGED <<running, consoleOf, calls>> /\ consoleUnchanged

ConsoleStop(s) ==
    /\ Alive /\ consolePc = "idle" /\ calls < MaxCalls /\ running[s]
    /\ calls' = calls + 1 /\ consoleOf' = s /\ consolePc' = "clear"
    /\ UNCHANGED <<running, thread, terminated>> /\ consoleUnchanged

ConsoleClear ==
    /\ Alive /\ consolePc = "clear"
    /\ running' = [running EXCEPT ![consoleOf] = FALSE]
    /\ consolePc' = "notify"
    /\ UNCHANGED <<thread, terminated, consoleOf, calls>> /\ consoleUnchanged

ConsoleNotify ==
    /\ Alive /\ consolePc = "notify"
    /\ thread' = [thread EXCEPT ![consoleOf] = Woken(@)]
    /\ terminated' \in BOOLEAN
    /\ terminated' => consoleOf = "perception" /\ At("expression", "joinPerception")
    /\ consolePc' = "join"
    /\ UNCHANGED <<running, consoleOf, calls>> /\ consoleUnchanged

ConsoleJoin ==
    /\ Alive /\ consolePc = "join" /\ Joined(consoleOf)
    /\ thread' = [thread EXCEPT ![consoleOf] = IF @ = "ended" THEN "none" ELSE @]
    /\ consolePc' = "idle"
    /\ UNCHANGED <<running, terminated, consoleOf, calls>> /\ consoleUnchanged

-----------------------------------------------------------------------------
makeMimic ==
    \/ StopPerception \/ ClearPerception \/ JoinPerception
    \/ StopTracker \/ ClearTracker \/ JoinTracker
    \/ BasePosition \/ SequenceItem \/ IdlePosition
    \/ StartPerception \/ LaunchPerception \/ CreatePerception
    \/ StartTracker \/ LaunchTracker \/ CreateTracker
Expression == CheckExpression \/ Wait \/ Front \/ makeMimic \/ Pop
Perception ==
    \/ OpenCamera \/ CameraFails \/ CheckPerception \/ CloseCamera
    \/ \E found \in BOOLEAN : ProcessFrame(found)
Tracker ==
    \/ CheckTracker \/ AssignIdlePose
    \/ \E known \in BOOLEAN : SelectTarget(known) \/ ControlHead(known)
Console ==
    \/ \E s \in ConsoleServices : ConsoleStart(s) \/ ConsoleStop(s)
    \/ ConsoleLaunch \/ ConsoleCreate \/ ConsoleClear \/ ConsoleNotify \/ ConsoleJoin

Next ==
    \/ Expression \/ WakeSpuriously \/ Notify \/ \E r \in Responses : Push(r)
    \/ Perception \/ Tracker \/ Console

\* The threads are scheduled.  Nobody has to publish a response, to use the
\* terminal, or to wake up without a notification.
Fairness ==
    /\ WF_vars(Expression) /\ WF_vars(Notify)
    /\ WF_vars(Perception) /\ WF_vars(Tracker)

Spec == Init /\ [][Next]_vars
FairSpec == Spec /\ Fairness

-----------------------------------------------------------------------------
ExpressionPcs ==
    {"none", "check", "enter", "waiting", "drain", "stopPerception", "clearPerception",
     "joinPerception", "stopTracker", "clearTracker", "joinTracker", "base", "items",
     "idlePose", "startPerception", "launchPerception", "createPerception",
     "startTracker", "launchTracker", "createTracker", "pop", "ended"}
PerceptionPcs == {"none", "open", "loop", "process", "close", "ended"}
TrackerPcs == {"none", "check", "select", "control", "assign", "ended"}

\* Every variable has its type, each thread is at one of its own places, and a
\* target is given up after followTimeOut rounds at the latest.
TypeOK ==
    /\ running \in [Services -> BOOLEAN]
    /\ thread \in [Services -> ExpressionPcs \cup PerceptionPcs \cup TrackerPcs]
    /\ thread["expression"] \in ExpressionPcs
    /\ thread["perception"] \in PerceptionPcs
    /\ thread["tracker"] \in TrackerPcs
    /\ queue \in Seq(Responses) /\ notifying \in BOOLEAN
    /\ responses \in 0 .. MaxResponses
    /\ items \in Nat
    /\ consolePc \in {"idle", "launch", "create", "clear", "notify", "join"}
    /\ consoleOf \in {"expression", "perception"} /\ calls \in 0 .. MaxCalls
    /\ cameraOpen \in BOOLEAN /\ failures \in 0 .. MaxCameraFailures
    /\ face \in BOOLEAN /\ follow \in 0 .. FollowTimeout - 1
    /\ blind \in 0 .. FollowTimeout
    /\ terminated \in BOOLEAN

InMimic == thread["expression"] \in
    {"base", "items", "idlePose", "startPerception", "launchPerception",
     "createPerception", "startTracker", "launchTracker", "createTracker"}

\* A gesture is not disturbed: while the expression service moves the joints the
\* tracker neither sends a command nor assigns idleJointPositions, which no mutex
\* protects, whatever the terminal starts and stops meanwhile
\* ("LandmarkTrackerService stopped for gesture", and joined).
GestureUndisturbed == InMimic => thread["tracker"] \notin {"control", "assign"}

\* start() is between setting _running and creating the thread.
Creating(s) ==
    \/ consolePc = "create" /\ consoleOf = s
    \/ s = "perception" /\ At("expression", "createPerception")
    \/ s = "tracker" /\ At("expression", "createTracker")

\* is_running() tells the truth: a service whose _running is set has a thread
\* that has not ended, or is about to get one, through all the starts and stops
\* of two threads and the failures of the camera.
RunningHasThread ==
    \A s \in Services :
        running[s] /\ ~Creating(s) /\ ~terminated => thread[s] \notin {"none", "ended"}

\* What makes GestureUndisturbed inductive: only the expression thread stops and
\* starts the tracker, once each in every gesture.
TrackerStopped == {"joinTracker", "base", "items", "idlePose", "startPerception",
                   "launchPerception", "createPerception", "startTracker", "launchTracker"}
TrackerInv ==
    /\ running["tracker"] = (thread["expression"] \notin TrackerStopped)
    /\ InMimic => At("tracker", "none")
    /\ running["tracker"] /\ ~InMimic => ~At("tracker", "none") /\ ~At("tracker", "ended")

\* What makes RunningHasThread inductive: a perception thread that has left its
\* loop will end.
RunInv ==
    /\ RunningHasThread
    /\ running["perception"] /\ ~Creating("perception") /\ ~terminated
         => ~At("perception", "close")

\* What makes TypeOK inductive: nobody else pops the response that is performed.
WorkInv ==
    /\ thread["expression"] \notin {"none", "check", "enter", "waiting", "drain", "ended"}
         => queue # <<>>
    /\ At("expression", "items") => items > 0

\* What makes TargetGivenUp inductive: the rounds that are left and the rounds
\* without a face.
TargetInv ==
    /\ face => blind = 0
    /\ follow > 0 => follow + blind <= FollowTimeout - 1
    /\ At("tracker", "control") => follow > 0

IInv == TypeOK /\ WorkInv /\ TrackerInv /\ RunInv /\ TargetInv

\* Once perception has reported that the face is gone, the head still follows it
\* for followTimeOut - 2 rounds at most, through stops and restarts of both
\* services.  It takes that report: when perception ends with a face in its last
\* one, the tracker keeps it (_recognizedGestureData is never cleared) and
\* follows that face for as long as it runs.
TargetGivenUp == At("tracker", "control") => blind < FollowTimeout - 1

\* Tracking that was stopped for a gesture is started again: the gesture and
\* the joins before it come to an end.
TrackingResumes == ~running["tracker"] ~> running["tracker"] \/ terminated
=============================================================================
