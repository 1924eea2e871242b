----------------------- MODULE RobotControllerService -----------------------
(***************************************************************************)
(* The hand-over of control commands to the robot: the slot _controlData   *)
(* of RobotControllerService, the threads of the services that fill it,    *)
(* the service's own thread that empties it, and Service::start and stop,  *)
(* which the terminal's thread calls (services/robot_controller_service    *)
(* .cpp, services/service.cpp, publisher.cpp).                             *)
(*                                                                         *)
(* Publishers fill the slot under _dataMutex.  The service thread takes    *)
(* that mutex only for the condition variable and reads and resets the     *)
(* slot without it: a data race.  The slot is therefore copied field by    *)
(* field, in any order, on both sides.  A command is the number of its     *)
(* publication; a field of the slot holds the command it came from.        *)
(*                                                                         *)
(* The robot's state machine appears only as robotRunning; see Robot.      *)
(***************************************************************************)
EXTENDS Naturals

CONSTANTS
    Publishers,   \* the threads that call publish: one for each service
    Console,      \* the one of TuiService, which also starts and stops
    Fields,       \* the fields of ControlData, "source" included
    MaxPublished, \* bound: commands stored
    MaxStops      \* bound: calls of stop()

ASSUME ConsoleAssumption ==
    Console \in Publishers /\ Publishers \cap {"service", "none"} = {}
ASSUME FieldsAssumption == "source" \in Fields
ASSUME LimitsAssumption == MaxPublished \in Nat /\ MaxStops \in Nat

VARIABLES
    pc,          \* where each publisher is in its callback, or in start/stop
    svcPc,       \* where the service thread is; "none" when there is none
    initialized, \* _initialized: the service has subscribed to the publishers
    running,     \* _running
    robotRunning,\* StateMachine::_running of _robot
    stops,       \* calls of stop() so far
    dataMutex,   \* the holder of _dataMutex, or "none"
    pubMutex,    \* the holder of the service's own Publisher::_mutex
    engaged,     \* _controlData.has_value()
    cell,        \* the fields of _controlData
    storePath,   \* what the store in progress found: "assign" or "construct"
    toStore,     \* the fields it has not copied yet
    copied,      \* the event the service thread is putting together
    toCopy,      \* the fields it has not copied yet
    published,   \* number of commands stored; the newest one's number
    postedUpTo,  \* history: published when an event was last posted
    event,       \* history: the last event given to postEvent
    posts,       \* history: number of events given to postEvent
    promised     \* history: newest command stored while the service waited

slotVars == <<engaged, cell, storePath, toStore>>
readVars == <<copied, toCopy>>
lifeVars == <<initialized, running, robotRunning, stops>>
historyVars == <<published, postedUpTo, event, posts, promised>>
vars == <<pc, svcPc, dataMutex, pubMutex, slotVars, readVars, lifeVars, historyVars>>

NoEvent == [source |-> 0, data |-> [f \in Fields |-> 0]]
Numbers == 0 .. MaxPublished
Actors == Publishers \cup {"service", "none"}

Init ==
    /\ pc = [p \in Publishers |-> "idle"]
    /\ svcPc = "none"
    /\ initialized = FALSE /\ running = FALSE /\ robotRunning = FALSE
    /\ stops = 0
    /\ dataMutex = "none" /\ pubMutex = "none"
    /\ engaged = FALSE
    /\ cell = [f \in Fields |-> 0]
    /\ storePath = "assign" /\ toStore = {}
    /\ copied = NoEvent /\ toCopy = {}
    /\ published = 0 /\ postedUpTo = 0 /\ event = NoEvent
    /\ posts = 0 /\ promised = 0

-----------------------------------------------------------------------------
(* Service::start and Service::stop, on the console's thread.              *)

\* start(): nothing happens when the service is running already.
Start ==
    /\ pc[Console] = "idle" /\ ~running
    /\ pc' = [pc EXCEPT ![Console] = "launch"]
    /\ initialized' = TRUE
    /\ robotRunning' = (robotRunning \/ ~initialized)
    /\ UNCHANGED <<svcPc, dataMutex, pubMutex, slotVars, readVars, running,
                   stops, historyVars>>

\* ... and then the service thread is created.
Launch ==
    /\ pc[Console] = "launch"
    /\ pc' = [pc EXCEPT ![Console] = "idle"]
    /\ running' = TRUE /\ svcPc' = "check"
    /\ UNCHANGED <<dataMutex, pubMutex, slotVars, readVars, initialized,
                   robotRunning, stops, historyVars>>

\* Seeded fault: the notification never reaches the thread that waits.
Notified_Lost(where) == where

\* _condVar.notify_one(): only a thread that waits is woken.
Notified(where) == IF where = "waiting" THEN "woken" ELSE where

Stop ==
    /\ pc[Console] = "idle" /\ running /\ stops < MaxStops
    /\ running' = FALSE
    /\ stops' = stops + 1
    /\ pc' = [pc EXCEPT ![Console] = "stopNotify"]
    /\ UNCHANGED <<svcPc, dataMutex, pubMutex, slotVars, readVars, initialized,
                   robotRunning, historyVars>>

StopNotify ==
    /\ pc[Console] = "stopNotify"
    /\ svcPc' = Notified(svcPc)
    /\ pc' = [pc EXCEPT ![Console] = "join"]
    /\ UNCHANGED <<dataMutex, pubMutex, slotVars, readVars, lifeVars, historyVars>>

\* Seeded fault: stop() returns without joining the service thread.
Joinable_Always(where) == TRUE

\* The thread function has returned, so join() does.
Joinable(where) == where = "done"

Join ==
    /\ pc[Console] = "join" /\ Joinable(svcPc)
    /\ pc' = [pc EXCEPT ![Console] = "idle"]
    /\ svcPc' = IF svcPc = "done" THEN "none" ELSE svcPc
    /\ UNCHANGED <<dataMutex, pubMutex, slotVars, readVars, lifeVars, historyVars>>

-----------------------------------------------------------------------------
(* subcribed_data_receive, on the publisher's thread.                      *)

\* ControlData: take the lock; the optional is assigned when it holds a
\* value and constructed when it does not.
BeginStore(p) ==
    /\ pc[p] = "idle" /\ initialized
    /\ dataMutex = "none" /\ published < MaxPublished
    /\ dataMutex' = p
    /\ published' = published + 1
    /\ storePath' = IF engaged THEN "assign" ELSE "construct"
    /\ toStore' = Fields
    /\ pc' = [pc EXCEPT ![p] = "store"]
    /\ UNCHANGED <<svcPc, pubMutex, engaged, cell, readVars, lifeVars,
                   postedUpTo, event, posts, promised>>

StoreField(p, f) ==
    /\ pc[p] = "store" /\ f \in toStore
    /\ cell' = [cell EXCEPT ![f] = published]
    /\ toStore' = toStore \ {f}
    /\ UNCHANGED <<pc, svcPc, dataMutex, pubMutex, engaged, storePath, readVars,
                   lifeVars, historyVars>>

\* The service thread is in wait(), or on its way out of it.
InWait == svcPc \in {"waiting", "woken"}

\* A constructed optional now has its value; the lock is released.
EndStore(p) ==
    /\ pc[p] = "store" /\ toStore = {}
    /\ engaged' = (engaged \/ storePath = "construct")
    /\ dataMutex' = "none"
    /\ promised' = IF InWait THEN published ELSE promised
    /\ pc' = [pc EXCEPT ![p] = "notify"]
    /\ UNCHANGED <<svcPc, pubMutex, cell, storePath, toStore, readVars, lifeVars,
                   published, postedUpTo, event, posts>>

Notify(p) ==
    /\ pc[p] = "notify"
    /\ svcPc' = Notified(svcPc)
    /\ pc' = [pc EXCEPT ![p] = "idle"]
    /\ UNCHANGED <<dataMutex, pubMutex, slotVars, readVars, lifeVars, historyVars>>

\* SensorReadRequest: dropped unless _dataMutex is free, and then held while
\* the sensor values are published.
RequestSensors(p) ==
    /\ pc[p] = "idle" /\ initialized
    /\ dataMutex = "none"
    /\ dataMutex' = p
    /\ pc' = [pc EXCEPT ![p] = "request"]
    /\ UNCHANGED <<svcPc, pubMutex, slotVars, readVars, lifeVars, historyVars>>

AnswerRequest(p) ==
    /\ pc[p] = "request" /\ pubMutex = "none"
    /\ pubMutex' = p
    /\ pc' = [pc EXCEPT ![p] = "answer"]
    /\ UNCHANGED <<svcPc, dataMutex, slotVars, readVars, lifeVars, historyVars>>

EndRequest(p) ==
    /\ pc[p] = "answer"
    /\ pubMutex' = "none" /\ dataMutex' = "none"
    /\ pc' = [pc EXCEPT ![p] = "idle"]
    /\ UNCHANGED <<svcPc, slotVars, readVars, lifeVars, historyVars>>

-----------------------------------------------------------------------------
(* service_function, on the service's thread.                              *)

\* while (_running)
CheckRunning ==
    /\ svcPc = "check"
    /\ svcPc' = IF running THEN "lock" ELSE "exit"
    /\ UNCHANGED <<pc, dataMutex, pubMutex, slotVars, readVars, lifeVars, historyVars>>

\* The lock is taken and given up again by wait().
BeginWait ==
    /\ svcPc = "lock" /\ dataMutex = "none"
    /\ svcPc' = "waiting"
    /\ UNCHANGED <<pc, dataMutex, pubMutex, slotVars, readVars, lifeVars, historyVars>>

\* wait() has no predicate: it may return without a notification.
WakeSpuriously ==
    /\ svcPc = "waiting"
    /\ svcPc' = "woken"
    /\ UNCHANGED <<pc, dataMutex, pubMutex, slotVars, readVars, lifeVars, historyVars>>

\* wait() returns with the lock, which the end of the block releases.
EndWait ==
    /\ svcPc = "woken" /\ dataMutex = "none"
    /\ svcPc' = "test"
    /\ UNCHANGED <<pc, dataMutex, pubMutex, slotVars, readVars, lifeVars, historyVars>>

\* if (_controlData.has_value())
TestSlot ==
    /\ svcPc = "test"
    /\ svcPc' = IF engaged THEN "source" ELSE "check"
    /\ UNCHANGED <<pc, dataMutex, pubMutex, slotVars, readVars, lifeVars, historyVars>>

\* Every publisher sets the source of its commands and no assignment clears it,
\* so the branch that takes SourceService::none for an unset one is not reached
\* (Robot handles an event with that source all the same).
SourceOf(data) == data["source"]

ReadSource ==
    /\ svcPc = "source"
    /\ copied' = [copied EXCEPT !.source = SourceOf(cell)]
    /\ toCopy' = Fields
    /\ svcPc' = "copy"
    /\ UNCHANGED <<pc, dataMutex, pubMutex, slotVars, lifeVars, historyVars>>

\* The ControlData argument of the event is copied, still without the lock.
CopyField(f) ==
    /\ svcPc = "copy" /\ f \in toCopy
    /\ copied' = [copied EXCEPT !.data[f] = cell[f]]
    /\ toCopy' = toCopy \ {f}
    /\ UNCHANGED <<pc, svcPc, dataMutex, pubMutex, slotVars, lifeVars, historyVars>>

\* _robot.postEvent
PostEvent ==
    /\ svcPc = "copy" /\ toCopy = {}
    /\ event' = copied /\ posts' = posts + 1
    /\ postedUpTo' = published
    /\ svcPc' = "reset"
    /\ UNCHANGED <<pc, dataMutex, pubMutex, slotVars, readVars, lifeVars,
                   published, promised>>

\* Seeded fault: the slot is not reset after its command was posted.
EngagedAfterPost_Kept == engaged

\* _controlData.reset()
EngagedAfterPost == FALSE

ResetSlot ==
    /\ svcPc = "reset"
    /\ engaged' = EngagedAfterPost
    /\ svcPc' = "sense"
    /\ UNCHANGED <<pc, dataMutex, pubMutex, cell, storePath, toStore, readVars,
                   lifeVars, historyVars>>

\* publishSensorValues, after the pause of 5 us.
PublishSensors ==
    /\ svcPc = "sense" /\ pubMutex = "none"
    /\ pubMutex' = "service"
    /\ svcPc' = "publish"
    /\ UNCHANGED <<pc, dataMutex, slotVars, readVars, lifeVars, historyVars>>

EndPublish ==
    /\ svcPc = "publish"
    /\ pubMutex' = "none"
    /\ svcPc' = "check"
    /\ UNCHANGED <<pc, dataMutex, slotVars, readVars, lifeVars, historyVars>>

\* After the loop: _robot.stop(), and the thread function returns.
Exit ==
    /\ svcPc = "exit"
    /\ robotRunning' = FALSE
    /\ svcPc' = "done"
    /\ UNCHANGED <<pc, dataMutex, pubMutex, slotVars, readVars, initialized,
                   running, stops, historyVars>>

-----------------------------------------------------------------------------
Lifecycle == Start \/ Launch \/ Stop \/ StopNotify \/ Join

Publishing(p) ==
    \/ BeginStore(p) \/ EndStore(p) \/ Notify(p)
    \/ \E f \in Fields : StoreField(p, f)
    \/ RequestSensors(p) \/ AnswerRequest(p) \/ EndRequest(p)

ServiceThread ==
    \/ CheckRunning \/ BeginWait \/ WakeSpuriously \/ EndWait \/ TestSlot
    \/ ReadSource \/ PostEvent \/ ResetSlot \/ PublishSensors \/ EndPublish \/ Exit
    \/ \E f \in Fields : CopyField(f)

Next == Lifecycle \/ ServiceThread \/ \E p \in Publishers : Publishing(p)

\* Every thread is scheduled, a callback that began runs to its end, and a
\* mutex that is free again and again is obtained: its holders pause between
\* two commands or two requests.  Nobody has to publish, to call start or
\* stop, or to wake up without a notification.
Fairness ==
    /\ WF_vars(Launch \/ StopNotify \/ Join)
    /\ WF_vars(CheckRunning \/ TestSlot \/ ReadSource \/ PostEvent \/ ResetSlot
               \/ EndPublish \/ Exit \/ \E f \in Fields : CopyField(f))
    /\ SF_vars(BeginWait) /\ SF_vars(EndWait) /\ SF_vars(PublishSensors)
    /\ \A p \in Publishers :
        /\ WF_vars(EndStore(p) \/ Notify(p) \/ EndRequest(p)
                   \/ \E f \in Fields : StoreField(p, f))
        /\ SF_vars(AnswerRequest(p))

SafetySpec == Init /\ [][Next]_vars
Spec == SafetySpec /\ Fairness

-----------------------------------------------------------------------------
\* Every variable has its type: program counters of the threads, the owners of
\* the two mutexes, and fields that hold the number of a published command.
TypeOK ==
    /\ pc \in [Publishers -> {"idle", "launch", "stopNotify", "join", "store",
                              "notify", "request", "answer"}]
    /\ svcPc \in {"none", "check", "lock", "waiting", "woken", "test", "source",
                  "copy", "reset", "sense", "publish", "exit", "done"}
    /\ initialized \in BOOLEAN /\ running \in BOOLEAN /\ robotRunning \in BOOLEAN
    /\ stops \in 0 .. MaxStops
    /\ dataMutex \in Actors /\ pubMutex \in Actors
    /\ engaged \in BOOLEAN
    /\ cell \in [Fields -> Numbers]
    /\ storePath \in {"assign", "construct"} /\ toStore \subseteq Fields
    /\ copied \in [source : Numbers, data : [Fields -> Numbers]]
    /\ toCopy \subseteq Fields
    /\ published \in Numbers /\ postedUpTo \in Numbers /\ promised \in Numbers
    /\ posts \in Nat
    /\ event \in [source : Numbers, data : [Fields -> Numbers]]

\* The slot is a lossy mailbox (CommandMailbox): each event given to
\* postEvent is made of commands published after the previous one was posted,
\* although service_function reads and resets _controlData without the lock.
Mailbox == INSTANCE CommandMailbox
    WITH Fields <- Fields, published <- published,
         postedUpTo <- postedUpTo, event <- event, posts <- posts
ImplementsMailbox == Mailbox!MailboxSpec

\* Once stop() has returned the service thread is gone and the robot's state
\* machine is stopped, so that start() never assigns over a live thread.
StopIsComplete ==
    ~running /\ pc[Console] \notin {"stopNotify", "join"}
        => svcPc = "none" /\ (stops > 0 => ~robotRunning)

\* The parts of the inductive invariant.  A store that constructs the value
\* excludes the reader, which works on a slot that has one ...
Fresh == (postedUpTo + 1) .. published
Reading == svcPc \in {"source", "copy", "reset"}
LockInv ==
    \A p \in Publishers : pc[p] \in {"store", "request", "answer"} => dataMutex = p
ReadInv == Reading => engaged
ConstructInv ==
    \A p \in Publishers : pc[p] = "store" /\ storePath = "construct" =>
        /\ ~engaged /\ postedUpTo < published
        /\ \A f \in Fields \ toStore : cell[f] = published
\* ... so every field of a slot that may still be read, and of the copy that
\* is being made, comes from a command no earlier event was posted after.
FreshInv ==
    /\ postedUpTo <= published
    /\ engaged /\ svcPc # "reset" => \A f \in Fields : cell[f] \in Fresh
    /\ svcPc = "copy" => /\ copied.source \in Fresh
                         /\ \A f \in Fields \ toCopy : copied.data[f] \in Fresh

\* The life of the service thread, and of the robot that it stops.
LifeInv ==
    /\ running => initialized /\ svcPc \notin {"none", "exit", "done"}
    /\ pc[Console] = "launch" => ~running /\ initialized
    /\ pc[Console] \in {"stopNotify", "join"} => ~running
    /\ ~running /\ pc[Console] \notin {"stopNotify", "join"} => svcPc = "none"
    /\ stops > 0 => initialized
    /\ stops > 0 /\ svcPc \in {"none", "done"} => ~robotRunning

IInv == TypeOK /\ LockInv /\ ReadInv /\ ConstructInv /\ FreshInv /\ LifeInv

\* A command stored while the service thread is in wait() is followed by an
\* event that was posted after it was stored, even if stop() comes meanwhile.
WaitingCommandPosted ==
    \A k \in 1 .. MaxPublished : promised = k ~> postedUpTo >= k
=============================================================================
