----------------------------- MODULE RobotBridge -----------------------------
(***************************************************************************)
(* The agent's side: RobotBridgeProcessor, which gathers the text of an    *)
(* answer and sends it after a silence (voiceAgent/voiceAgent.py), the     *)
(* mimic that the model chooses meanwhile (mimic_tool.py), and requests to *)
(* the robot with a timeout (robot_bridge.py).  The tasks share one event  *)
(* loop, so what lies between two awaits is one action.                    *)
(***************************************************************************)
EXTENDS Datagrams

CONSTANTS
    Debounce,      \* the silence before a text is sent: 0.3 s
    RecvTimeout,   \* recv_timeout of a request: 2 s
    Loads          \* bounds: how many text frames, turns of the model, calls of
                   \* set_mimic, requests (of these kinds) and sounds (voices played,
                   \* interruptions) a behaviour has

RequestTypes == {"SensorReadRequest", "CameraSnapShotRequest"}

ASSUME BridgeAssumption ==
    /\ Debounce \in Nat \ {0} /\ RecvTimeout \in Nat \ {0}
    /\ Loads \subseteq [pieces : Nat, turns : Nat, choices : Nat, requests : Nat,
                       kinds : SUBSET RequestTypes, sounds : Nat]

VARIABLES
    load,        \* the bounds of this behaviour
    transport,   \* _transport is open
    buffer,      \* _buffer, as numbers of text frames
    flushLeft,   \* what is left of the sleep of _flush_task; -1 without a task
    mimic,       \* PendingMimicState: the call that set each field, 0 is None
    requests,    \* how many requests were begun; their helpers may run at once
    waitLeft,    \* what is left of the timeout of each, -1 when it does not run
    awaits,      \* the number of the Event that each waits for, 0 before it does
    event,       \* _event of the protocol: its number, 0 is None
    setEvents,   \* the Events that are set
    response,    \* _response of the protocol
    turnOf,      \* history: the turn of each text frame
    choices,     \* history: the arguments of each call of set_mimic
    sent,        \* history: the responses sent
    heard,       \* history: the requests that waited when response came
    returned     \* history: the requests that returned a datagram, with its heard

textVars == <<buffer, flushLeft, turnOf>>
mimicVars == <<mimic, choices>>
requestVars == <<requests, waitLeft, awaits, event, setEvents, response, heard, returned>>
bridgeVars == <<load, transport, textVars, mimicVars, sent, requestVars>>

NoMimic == [emotion |-> 0, reaction |-> 0]
NoReply == [type |-> "none"]
NoTask == -1

\* main() has connected.
BridgeInit ==
    /\ load \in Loads
    /\ transport = TRUE
    /\ buffer = <<>> /\ flushLeft = NoTask /\ turnOf = <<>>
    /\ mimic = NoMimic /\ choices = <<>> /\ sent = <<>>
    /\ requests = 0 /\ waitLeft = [n \in 1 .. load.requests |-> NoTask]
    /\ awaits = [n \in 1 .. load.requests |-> 0]
    /\ event = 0 /\ setEvents = {} /\ response = NoReply
    /\ heard = {} /\ returned = {}

-----------------------------------------------------------------------------
(* RobotBridgeProcessor *)

Turn == IF turnOf = <<>> THEN 0 ELSE turnOf[Len(turnOf)]

\* Seeded fault: the cancelled task is not replaced.
Restarted_Cancelled == IF flushLeft = NoTask THEN Debounce ELSE NoTask
\* create_task(_flush_buffer())
Restarted == Debounce

\* process_frame: the frame restarts the silence; cancelling a task that has
\* slept but not resumed leaves its text in the buffer.
TextFrame(t) ==
    /\ transport
    /\ Len(turnOf) < load.pieces /\ t \in {Turn, Turn + 1} \cap 1 .. load.turns
    /\ turnOf' = Append(turnOf, t)
    /\ buffer' = Append(buffer, Len(turnOf) + 1)
    /\ flushLeft' = Restarted
    /\ UNCHANGED <<load, transport, mimicVars, sent, requestVars, channels>>

\* make_llm_response_payload; 0 is the default gesture (happy, talking).
Payload(emotion, emotionSimilarity, reaction, reactionSimilarity) ==
    [type |-> "LLMResponse", n |-> Len(sent) + 1, text |-> buffer,
     emotion |-> emotion, emotionSimilarity |-> emotionSimilarity,
     reaction |-> reaction, reactionSimilarity |-> reactionSimilarity,
     seen |-> Len(choices)]

\* Tenths; a choice of the model gets 1.0 and the other kind 0.0.
MimicPayload ==
    IF mimic.emotion # 0 THEN Payload(mimic.emotion, 10, 0, 0)
    ELSE IF mimic.reaction # 0 THEN Payload(0, 0, mimic.reaction, 10)
    ELSE Payload(0, 8, 0, 7)

\* Seeded fault: text that arrived is kept in the buffer and sent again.
Flushed_Kept == buffer
\* _buffer.clear()
Flushed == <<>>

\* _flush_buffer after its sleep; send_message does not suspend.
Flush ==
    /\ transport /\ flushLeft = 0
    /\ flushLeft' = NoTask
    /\ IF buffer = <<>>
       THEN UNCHANGED <<buffer, mimic, sent, toRobot>>
       ELSE /\ buffer' = Flushed
            /\ mimic' = NoMimic
            /\ sent' = Append(sent, MimicPayload)
            /\ SendToRobot(MimicPayload)
    /\ UNCHANGED <<load, transport, turnOf, choices, requestVars, toAgent>>

\* Seeded fault: the other kind of gesture keeps its value.
Chosen_BothKept(args, n) ==
    [emotion |-> IF args.emotion THEN n ELSE mimic.emotion,
     reaction |-> IF ~args.emotion /\ args.reaction THEN n ELSE mimic.reaction]

\* set_mimic_handler; args says which of the arguments names a known gesture.
Chosen(args, n) ==
    IF args.emotion THEN [emotion |-> n, reaction |-> 0]
    ELSE IF args.reaction THEN [emotion |-> 0, reaction |-> n]
    ELSE mimic

SetMimic(args) ==
    /\ transport /\ Len(choices) < load.choices
    /\ choices' = Append(choices, args)
    /\ mimic' = Chosen(args, Len(choices) + 1)
    /\ UNCHANGED <<load, transport, textVars, sent, requestVars, channels>>

-----------------------------------------------------------------------------
(* RobotBridge: the helpers of the requests share one protocol object *)

InFlight == {n \in 1 .. load.requests : waitLeft[n] # NoTask}

\* Seeded fault: a later request finds the Event and the response of the first.
Cleared_Kept ==
    IF event = 0 THEN [event |-> 1, response |-> NoReply]
    ELSE [event |-> event, response |-> response]
\* _clear_response: a new Event, which is not set, and no response.
Cleared == [event |-> requests + 1, response |-> NoReply]

\* _request_reply up to wait_for; other requests may still be waiting.
Request(type) ==
    /\ transport /\ requests < load.requests
    /\ requests' = requests + 1
    /\ event' = Cleared.event /\ response' = Cleared.response
    /\ waitLeft' = [waitLeft EXCEPT ![requests'] = RecvTimeout]
    /\ SendToRobot([type |-> type])
    /\ UNCHANGED <<load, transport, textVars, mimicVars, sent, awaits, setEvents, heard,
                   returned, toAgent>>

\* _wait_response begins, at once or, where wait_for makes a task of it, later:
\* it waits for the Event that the protocol has by then.
WaitResponse(n) ==
    /\ transport /\ n \in InFlight /\ awaits[n] = 0
    /\ awaits' = [awaits EXCEPT ![n] = event]
    /\ UNCHANGED <<load, transport, textVars, mimicVars, sent, requests, waitLeft, event,
                   setEvents, response, heard, returned, channels>>

\* datagram_received; there is no Event before the first request.
DatagramReceived(m) ==
    /\ transport /\ TakenByAgent(m)
    /\ response' = m
    /\ setEvents' = (setEvents \cup {event}) \ {0}
    /\ heard' = InFlight
    /\ UNCHANGED <<load, transport, textVars, mimicVars, sent, requests, waitLeft, awaits,
                   event, returned, toRobot>>

\* _wait_response resumes.  The helper returns whatever came, or its assertion
\* fails when the next request has cleared it.
ReplyReturned(n) ==
    /\ transport /\ n \in InFlight /\ awaits[n] \in setEvents
    /\ waitLeft' = [waitLeft EXCEPT ![n] = NoTask] /\ awaits' = [awaits EXCEPT ![n] = 0]
    /\ returned' = IF response # NoReply
                   THEN returned \cup {[request |-> n, heard |-> heard]}
                   ELSE returned
    /\ UNCHANGED <<load, transport, textVars, mimicVars, sent, requests, event,
                   setEvents, response, heard, channels>>

\* asyncio.TimeoutError: the helper returns None.
RequestTimesOut(n) ==
    /\ transport /\ n \in InFlight /\ waitLeft[n] = 0
    /\ waitLeft' = [waitLeft EXCEPT ![n] = NoTask] /\ awaits' = [awaits EXCEPT ![n] = 0]
    /\ UNCHANGED <<load, transport, textVars, mimicVars, sent, requests, event,
                   setEvents, response, heard, returned, channels>>

\* Seeded fault: a wait that is over, or was never begun, goes on.
Countdown_Free(left) == left - 1
\* What is left of asyncio.sleep and of the timeout of wait_for.
Countdown(left) == IF left > 0 THEN left - 1 ELSE left

\* Time passes for the sleeping task and for the requests.
Tick ==
    /\ transport
    /\ flushLeft > 0 \/ \E n \in InFlight : waitLeft[n] > 0
    /\ flushLeft' = Countdown(flushLeft)
    /\ waitLeft' = [n \in 1 .. load.requests |-> Countdown(waitLeft[n])]
    /\ UNCHANGED <<load, transport, buffer, turnOf, mimicVars, sent, requests, awaits,
                   event, setEvents, response, heard, returned, channels>>

\* main() ends: disconnect(), asyncio.run cancels what still runs, and the protocol
\* object goes with the process.
Disconnect ==
    /\ transport
    /\ transport' = FALSE
    /\ flushLeft' = NoTask
    /\ waitLeft' = [n \in 1 .. load.requests |-> NoTask]
    /\ awaits' = [n \in 1 .. load.requests |-> 0]
    /\ event' = 0 /\ setEvents' = {} /\ response' = NoReply /\ heard' = {}
    /\ UNCHANGED <<load, buffer, turnOf, mimicVars, sent, requests, returned, channels>>

\* What a helper does after its request was sent.
Helper ==
    \E n \in 1 .. load.requests : WaitResponse(n) \/ ReplyReturned(n) \/ RequestTimesOut(n)

BridgeNext ==
    \/ \E t \in 1 .. load.turns : TextFrame(t)
    \/ Flush
    \/ \E args \in [emotion : BOOLEAN, reaction : BOOLEAN] : SetMimic(args)
    \/ \E type \in load.kinds : Request(type)
    \/ \E m \in toAgent : DatagramReceived(m)
    \/ Helper \/ Tick \/ Disconnect
=============================================================================
