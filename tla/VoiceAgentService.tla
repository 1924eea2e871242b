-------------------------- MODULE VoiceAgentService --------------------------
(***************************************************************************)
(* The robot's side of the voice agent (services/voice_agent_service.cpp): *)
(* a thread that takes datagrams, publishes the agent's responses to       *)
(* ExpressionService and answers requests from the last sensor reading,    *)
(* which other threads store while it is being serialised.                 *)
(***************************************************************************)
EXTENDS Datagrams

VARIABLES
    svcPc,       \* where the service thread is
    haveReading, \* _sensorData is not null
    raced,       \* it was replaced while the thread serialises it
    performed    \* the responses published to ExpressionService

serviceVars == <<svcPc, haveReading, raced, performed>>

ServiceInit ==
    /\ svcPc = "start"
    /\ haveReading = FALSE /\ raced = FALSE /\ performed = {}

\* Service::start with initialize(): without a port there is no thread.
Start ==
    /\ svcPc = "start"
    /\ svcPc' \in {"receive", "failed"}
    /\ UNCHANGED <<haveReading, raced, performed, channels>>

\* process_received_data: what the type of the packet leads to.
AfterReceive(m) ==
    CASE m.type = "SensorReadRequest" /\ haveReading -> "serialise"
      [] m.type = "CameraSnapShotRequest" -> "snapshot"
      [] OTHER -> "request"

\* receiveData and process_received_data up to the reply.
ReceiveData(m) ==
    /\ svcPc = "receive" /\ TakenByRobot(m)
    /\ svcPc' = AfterReceive(m)
    /\ performed' = IF m.type = "LLMResponse" /\ Fits(m) THEN performed \cup {m}
                    ELSE performed
    /\ UNCHANGED <<haveReading, raced, toAgent>>

\* The 100 ms of receiveData pass without a datagram.
ReceiveTimesOut ==
    /\ svcPc = "receive"
    /\ svcPc' = "request"
    /\ UNCHANGED <<haveReading, raced, performed, channels>>

\* No field of a reply tells which request it answers.
Reply(type) == [type |-> type]

\* _sensorData is read without _dataMutex: if it is replaced meanwhile, a reply,
\* an exception that process_received_data catches, or a fault may come of it.
SendReading ==
    /\ svcPc = "serialise"
    /\ \/ svcPc' = "request" /\ SendToAgent(Reply("SensorData"))
       \/ raced /\ svcPc' \in {"request", "crashed"} /\ UNCHANGED toAgent
    /\ raced' = FALSE
    /\ UNCHANGED <<haveReading, performed, toRobot>>

\* After the 10 ms sleep.  PerceptionService is not subscribed to this service
\* and the request carries no data: no path is ever stored, and "" is sent.
SendSnapshot ==
    /\ svcPc = "snapshot"
    /\ svcPc' = "request"
    /\ SendToAgent(Reply("CameraSnapShotResponse"))
    /\ UNCHANGED <<haveReading, raced, performed, toRobot>>

\* publish(SensorReadRequest): RobotControllerService answers at once through
\* subcribed_data_receive, unless its mutex is taken.
RequestReading ==
    /\ svcPc = "request"
    /\ svcPc' = "receive"
    /\ haveReading' \in {haveReading, TRUE}
    /\ UNCHANGED <<raced, performed, channels>>

\* subcribed_data_receive for a reading that the terminal asked for.
StoreReading ==
    /\ svcPc \notin {"start", "crashed"}
    /\ haveReading' = TRUE
    /\ raced' = (svcPc = "serialise")
    /\ UNCHANGED <<svcPc, performed, channels>>

ServiceNext ==
    \/ Start \/ (\E m \in toRobot : ReceiveData(m)) \/ ReceiveTimesOut
    \/ SendReading \/ SendSnapshot \/ RequestReading \/ StoreReading

ServiceGone == svcPc \in {"failed", "crashed"}
=============================================================================
