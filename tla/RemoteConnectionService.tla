----------------------- MODULE RemoteConnectionService -----------------------
(***************************************************************************)
(* The remote control: the thread of RemoteConnectionService               *)
(* (services/remote_connection_service.cpp), the server thread of          *)
(* WebSocketOperator, whose callbacks put connections and messages into    *)
(* one slot (operators/web_socket_operator.cpp), and the terminal, which   *)
(* starts and stops the service.                                           *)
(*                                                                         *)
(* Nothing calls publishVideoFrame, so _frame never has a value and the    *)
(* branch that sends frames and sensor values to the client does not run.  *)
(* publish(AIModeOffCall) is taken to return: it stops other services.     *)
(***************************************************************************)
EXTENDS Integers, Sequences

CONSTANTS
    MaxClients,   \* bound: clients connected at a time
    MaxStored,    \* bound: calls of the open, close and message handlers
    MaxStops      \* bound: times the terminal stops the service

ASSUME RemoteAssumption ==
    MaxClients \in Nat /\ MaxStored \in Nat /\ MaxStops \in Nat

VARIABLES
    running,      \* _running of the service
    svcPc,        \* where the service thread is
    consolePc,    \* where the terminal is in start() or stop()
    slot,         \* _socketMessage: the number of the call that set it, 0 if none
    hdl,          \* _hdl has a value
    sensor,       \* _sensorData has a value
    subscribed,   \* to PerceptionService and RobotControllerService
    aiMode,       \* the last AI mode call that was published was AIModeOnCall
    opRunning,    \* _running of the operator
    serverPc,     \* where the server thread is
    stopped,      \* _server->stop() was called
    broadcast,    \* the broadcast responder's thread is in its loop
    clients,      \* number of connected clients
    terminated,   \* an exception left the service thread
    stops,
    kinds,        \* history: what each call of a handler put into the slot
    handled,      \* history: the call that was last acted upon
    handledUpTo,  \* history: number of calls so far when it was
    acts          \* history: number of times one was acted upon

slotVars == <<slot, hdl, kinds, clients>>
modeVars == <<subscribed, aiMode>>
serverVars == <<opRunning, serverPc, stopped, broadcast>>
historyVars == <<handled, handledUpTo, acts>>
consoleVars == <<running, consolePc, stops>>
vars == <<svcPc, sensor, terminated, slotVars, modeVars, serverVars, historyVars,
          consoleVars>>

Events == {"on_open", "on_close"}
Texts == {"ai_on", "ai_off", "command", "malformed"}

\* Number of calls of the handlers so far.
Calls == Len(kinds)

\* The terminal has just started the service.
Init ==
    /\ running = TRUE /\ svcPc = "begin" /\ consolePc = "idle" /\ stops = 0
    /\ slot = 0 /\ hdl = FALSE /\ kinds = <<>> /\ clients = 0
    /\ sensor = FALSE /\ subscribed = FALSE /\ aiMode = TRUE
    /\ opRunning = FALSE /\ serverPc = "none" /\ stopped = FALSE /\ broadcast = FALSE
    /\ terminated = FALSE /\ handled = 0 /\ handledUpTo = 0 /\ acts = 0

-----------------------------------------------------------------------------
(* WebSocketOperator: the server thread *)

\* runServer holds _serverMutex while it listens and as long as run() lasts.
ServerMutexFree == serverPc # "run"

\* listen() and start_accept(), or a port that is taken.
Listen ==
    /\ ~terminated /\ serverPc = "listen"
    /\ serverPc' \in {"listening", "ended"}
    /\ UNCHANGED <<svcPc, sensor, terminated, opRunning, stopped, broadcast, slotVars,
                   modeVars, historyVars, consoleVars>>

\* run() returns at once when stop() came before it, and otherwise only when
\* stop() is called, for which the mutex is needed that run() is called with.
RunServer ==
    /\ ~terminated /\ serverPc = "listening"
    /\ serverPc' = IF stopped THEN "ended" ELSE "run"
    /\ UNCHANGED <<svcPc, sensor, terminated, opRunning, stopped, broadcast, slotVars,
                   modeVars, historyVars, consoleVars>>

\* runBroadcastResponder: answers until _running is cleared.
BroadcastEnds ==
    /\ ~terminated /\ broadcast /\ ~opRunning
    /\ broadcast' = FALSE
    /\ UNCHANGED <<svcPc, sensor, terminated, opRunning, serverPc, stopped, slotVars,
                   modeVars, historyVars, consoleVars>>

\* notify_one(), for a handler that holds _dataMutex and for stop().
Notified == IF svcPc = "asleep" THEN "wait" ELSE svcPc

\* handle_websocket_open, _close and _message.  The service thread holds
\* _dataMutex between the predicate of its wait and the sleep.
Store(kind) ==
    /\ ~terminated /\ serverPc = "run" /\ svcPc # "falling_asleep"
    /\ Calls < MaxStored
    /\ kinds' = Append(kinds, kind)
    /\ slot' = Calls + 1
    /\ hdl' = TRUE
    /\ svcPc' = Notified
    /\ UNCHANGED <<sensor, terminated, modeVars, serverVars, historyVars, consoleVars>>

OnOpen == clients < MaxClients /\ Store("on_open") /\ clients' = clients + 1
OnClose == clients > 0 /\ Store("on_close") /\ clients' = clients - 1
OnMessage(text) == clients > 0 /\ Store(text) /\ UNCHANGED clients

\* subcribed_data_receive for a sensor reading; it does not notify.
StoreSensor ==
    /\ ~terminated /\ subscribed /\ ~sensor /\ svcPc # "falling_asleep"
    /\ sensor' = TRUE
    /\ UNCHANGED <<svcPc, terminated, slotVars, modeVars, serverVars, historyVars,
                   consoleVars>>

-----------------------------------------------------------------------------
(* RemoteConnectionService::service_function *)

At(pc) == ~terminated /\ svcPc = pc
svcUnchanged == UNCHANGED <<sensor, consoleVars, kinds, clients>>

\* WebSocketOperator::start; the broadcast responder may not get its port.
Begin ==
    /\ At("begin")
    /\ svcPc' = "check"
    /\ opRunning' = TRUE /\ broadcast' \in BOOLEAN
    /\ serverPc' = "listen" /\ stopped' = FALSE
    /\ svcUnchanged /\ UNCHANGED <<terminated, slot, hdl, modeVars, historyVars>>

Move(from, to) ==
    /\ At(from)
    /\ svcPc' = to
    /\ svcUnchanged /\ UNCHANGED <<terminated, slot, hdl, modeVars, serverVars, historyVars>>

\* while (_running)
Check == Move("check", IF running THEN "wait" ELSE "stop")

\* Seeded fault: the predicate forgets the message.
Wakes_NoMessage == ~running \/ sensor

\* The predicate of the wait.
Wakes == ~running \/ slot # 0 \/ sensor

Wait == Move("wait", IF Wakes THEN "woken" ELSE "falling_asleep")
FallAsleep == Move("falling_asleep", "asleep")
WakeSpuriously == Move("asleep", "wait")

\* if (!_running) break; and the test of _socketMessage and _hdl
Woken == Move("woken", IF ~running THEN "stop"
                       ELSE IF slot # 0 /\ hdl THEN "is_open" ELSE "check")

\* The slot is acted upon as it is at the comparison: its lock is not held.
Handle ==
    /\ handled' = slot
    /\ handledUpTo' = Calls
    /\ acts' = acts + 1

IsOpen ==
    /\ At("is_open")
    /\ IF kinds[slot] = "on_open"
       THEN svcPc' = "opening" /\ Handle
       ELSE svcPc' = "is_close" /\ UNCHANGED historyVars
    /\ svcUnchanged /\ UNCHANGED <<terminated, slot, hdl, modeVars, serverVars>>

\* After the announcement and its three seconds.
Opened ==
    /\ At("opening")
    /\ svcPc' = "reset"
    /\ aiMode' = FALSE /\ subscribed' = TRUE
    /\ svcUnchanged /\ UNCHANGED <<terminated, slot, hdl, serverVars, historyVars>>

IsClose ==
    /\ At("is_close")
    /\ IF kinds[slot] = "on_close"
       THEN svcPc' = "closing" /\ Handle /\ aiMode' = TRUE /\ subscribed' = FALSE
       ELSE svcPc' = "parse" /\ UNCHANGED <<historyVars, modeVars>>
    /\ svcUnchanged /\ UNCHANGED <<terminated, slot, hdl, serverVars>>

\* After the sleep of one second: _hdl.reset(), whoever set it.
CloseHandle ==
    /\ At("closing")
    /\ svcPc' = "reset"
    /\ hdl' = FALSE
    /\ svcUnchanged /\ UNCHANGED <<terminated, slot, modeVars, serverVars, historyVars>>

\* Json::parse throws on what is not JSON, "on_open" that has just replaced a
\* message among it, and nothing catches it.
Parse ==
    /\ At("parse")
    /\ Handle
    /\ terminated' = (kinds[slot] \in Events \cup {"malformed"})
    /\ svcPc' = IF kinds[slot] = "ai_off" THEN "switching_off" ELSE "reset"
    /\ aiMode' = (aiMode \/ kinds[slot] = "ai_on")
    /\ svcUnchanged /\ UNCHANGED <<slot, hdl, subscribed, serverVars>>

\* "switch ai mode off", after its three seconds
SwitchOff ==
    /\ At("switching_off")
    /\ svcPc' = "reset"
    /\ aiMode' = FALSE
    /\ svcUnchanged /\ UNCHANGED <<terminated, slot, hdl, subscribed, serverVars, historyVars>>

\* Seeded fault: only opens and closes are cleared.
AfterReset_OfEvents == IF kinds[handled] \in Events THEN 0 ELSE slot
\* Seeded fault: a close goes back to the loop without the reset.
AfterReset_NotOfClose == IF kinds[handled] = "on_close" THEN slot ELSE 0
\* _socketMessage.reset(): what arrived meanwhile is lost.
AfterReset == 0

Reset ==
    /\ At("reset")
    /\ svcPc' = "check"
    /\ slot' = AfterReset
    /\ svcUnchanged /\ UNCHANGED <<terminated, hdl, modeVars, serverVars, historyVars>>

-----------------------------------------------------------------------------
(* WebSocketOperator::stop at the end of the service thread *)

StopOperator ==
    /\ At("stop")
    /\ svcPc' = "lock" /\ opRunning' = FALSE
    /\ svcUnchanged /\ UNCHANGED <<terminated, slot, hdl, modeVars, historyVars, serverPc,
                                   stopped, broadcast>>

StopServer ==
    /\ At("lock") /\ ServerMutexFree
    /\ svcPc' = "join" /\ stopped' = TRUE
    /\ svcUnchanged /\ UNCHANGED <<terminated, slot, hdl, modeVars, historyVars, opRunning,
                                   serverPc, broadcast>>

JoinServer ==
    /\ At("join") /\ serverPc = "ended" /\ ~broadcast
    /\ svcPc' = "ended"
    /\ svcUnchanged /\ UNCHANGED <<terminated, slot, hdl, modeVars, serverVars, historyVars>>

-----------------------------------------------------------------------------
(* The terminal: Service::stop and Service::start *)

Stop ==
    /\ ~terminated /\ consolePc = "idle" /\ running /\ stops < MaxStops
    /\ running' = FALSE /\ consolePc' = "notify" /\ stops' = stops + 1
    /\ UNCHANGED <<svcPc, sensor, terminated, slotVars, modeVars, serverVars, historyVars>>

NotifyStop ==
    /\ ~terminated /\ consolePc = "notify"
    /\ consolePc' = "join" /\ svcPc' = Notified
    /\ UNCHANGED <<running, stops, sensor, terminated, slotVars, modeVars, serverVars,
                   historyVars>>

JoinService ==
    /\ ~terminated /\ consolePc = "join" /\ svcPc = "ended"
    /\ consolePc' = "idle" /\ svcPc' = "none"
    /\ UNCHANGED <<running, stops, sensor, terminated, slotVars, modeVars, serverVars,
                   historyVars>>

Start ==
    /\ ~terminated /\ consolePc = "idle" /\ ~running
    /\ running' = TRUE /\ svcPc' = "begin"
    /\ UNCHANGED <<consolePc, stops, sensor, terminated, slotVars, modeVars, serverVars,
                   historyVars>>

-----------------------------------------------------------------------------
ServiceStep ==
    \/ Begin \/ Check \/ Wait \/ FallAsleep \/ Woken \/ IsOpen \/ Opened \/ IsClose
    \/ CloseHandle \/ Parse \/ SwitchOff \/ Reset \/ StopOperator \/ StopServer \/ JoinServer
Handlers == OnOpen \/ OnClose \/ (\E t \in Texts : OnMessage(t))

Next ==
    \/ ServiceStep \/ WakeSpuriously \/ Handlers \/ StoreSensor
    \/ Listen \/ RunServer \/ BroadcastEnds
    \/ Stop \/ NotifyStop \/ JoinService \/ Start

\* Every thread that can go on does; clients, sensors and the terminal may not.
Fairness ==
    /\ WF_vars(ServiceStep)
    /\ WF_vars(Listen \/ RunServer) /\ WF_vars(BroadcastEnds)
    /\ WF_vars(NotifyStop \/ JoinService)

Spec == Init /\ [][Next]_vars /\ Fairness

-----------------------------------------------------------------------------
Numbers == 0 .. MaxStored
KindsOK == kinds \in Seq(Events \cup Texts)

TypeOK ==
    /\ running \in BOOLEAN /\ hdl \in BOOLEAN /\ sensor \in BOOLEAN
    /\ subscribed \in BOOLEAN /\ aiMode \in BOOLEAN /\ opRunning \in BOOLEAN
    /\ stopped \in BOOLEAN /\ broadcast \in BOOLEAN /\ terminated \in BOOLEAN
    /\ svcPc \in {"none", "begin", "check", "wait", "falling_asleep", "asleep", "woken",
                  "is_open", "opening", "is_close", "closing", "parse", "switching_off",
                  "reset", "stop", "lock", "join", "ended"}
    /\ consolePc \in {"idle", "notify", "join"} /\ stops \in 0 .. MaxStops
    /\ serverPc \in {"none", "listen", "listening", "run", "ended"}
    /\ KindsOK /\ Calls <= MaxStored
    /\ slot \in 0 .. Calls /\ clients \in 0 .. MaxClients
    /\ handled \in Numbers /\ handledUpTo \in Numbers /\ acts \in Nat

\* The slot is a lossy mailbox too: what the service acts upon was put there
\* after its previous act, so that no message is acted upon twice or after a
\* newer one, although the slot is read and reset without the lock.
Mailbox == INSTANCE CommandMailbox
    WITH Fields <- {"text"}, published <- Calls, postedUpTo <- handledUpTo,
         posts <- acts,
         event <- [source |-> handled, data |-> [f \in {"text"} |-> handled]]
ImplementsMailbox == Mailbox!MailboxSpec

\* When the service looks for a message, one that is there has its handle;
\* otherwise the message would never be taken and the loop would spin on it.
MessageHasHandle ==
    svcPc \in {"check", "wait", "falling_asleep", "asleep", "woken"} /\ slot # 0 => hdl

\* What makes the two hold: while a message is acted upon, the slot and the
\* handle may be out of date, but not outside; and only the service empties the
\* slot, so that it is full from its test to the act.  A thread that is started
\* has no act of its predecessor before it.
Acting == {"opening", "closing", "switching_off", "reset"}
SlotInv ==
    /\ handledUpTo <= Calls
    /\ svcPc \notin Acting => slot = 0 \/ slot > handledUpTo
    /\ svcPc \in {"is_open", "is_close", "parse"} => slot # 0
HandleInv == svcPc # "reset" /\ slot # 0 => hdl
LifeInv == consolePc = "idle" /\ ~running => svcPc = "none"
IInv == TypeOK /\ SlotInv /\ HandleInv /\ LifeInv

\* A message that finds the service waiting is acted upon, or a newer one is,
\* unless the service is stopped or the program terminated.
WaitingMessageHandled ==
    \A n \in 1 .. MaxStored :
        (slot = n /\ svcPc \in {"asleep", "wait"}) ~> (handled >= n \/ ~running \/ terminated)

\* What the terminal's help says: stop stops the service.
StopReturns == consolePc = "join" ~> consolePc = "idle" \/ terminated
=============================================================================
