------------------------------ MODULE VoiceAgent ------------------------------
(***************************************************************************)
(* The voice agent and the robot together: RobotBridge, with the echo      *)
(* suppression of the same pipeline, and VoiceAgentService over Datagrams, *)
(* up to the gesture that ExpressionService::makeMimic chooses for a       *)
(* response.                                                               *)
(***************************************************************************)
EXTENDS RobotBridge, EchoSuppression, VoiceAgentService

vars == <<channels, bridgeVars, echoVars, serviceVars>>

Init ==
    /\ toRobot = {} /\ toAgent = {}
    /\ BridgeInit /\ EchoInit /\ ServiceInit

\* The pipeline hears and speaks until the agent ends.
Echo(step) ==
    /\ transport /\ step /\ sounds' <= load.sounds
    /\ UNCHANGED <<channels, bridgeVars, serviceVars>>

Next ==
    \/ BridgeNext /\ UNCHANGED <<echoVars, serviceVars>>
    \/ ServiceNext /\ UNCHANGED <<echoVars, bridgeVars>>
    \/ Echo(EchoNext)

\* The event loop resumes a task that can run, time passes and the microphone
\* goes on recording; the service thread goes on, and takes what waits in its
\* socket in the end.
Numbers == UNION {1 .. l.pieces : l \in Loads}
Fairness ==
    /\ WF_vars(Echo(EchoTick)) /\ WF_vars(Echo(AudioFrame))
    /\ WF_vars(Tick /\ UNCHANGED <<echoVars, serviceVars>>)
    /\ WF_vars(Flush /\ UNCHANGED <<echoVars, serviceVars>>)
    /\ WF_vars(Helper /\ UNCHANGED <<echoVars, serviceVars>>)
    /\ WF_vars((Start \/ ReceiveTimesOut \/ SendReading \/ SendSnapshot
                \/ RequestReading) /\ UNCHANGED <<echoVars, bridgeVars>>)
    /\ \A n \in Numbers :
           SF_vars((\E m \in toRobot : m.type = "LLMResponse" /\ m.n = n /\ ReceiveData(m))
                   /\ UNCHANGED <<echoVars, bridgeVars>>)

Spec == Init /\ [][Next]_vars /\ Fairness

-----------------------------------------------------------------------------
Choices == [emotion : BOOLEAN, reaction : BOOLEAN]
TextMessages ==
    [type : {"LLMResponse"}, n : 1 .. load.pieces, text : Seq(1 .. load.pieces),
     emotion : 0 .. load.choices, emotionSimilarity : {0, 8, 10},
     reaction : 0 .. load.choices, reactionSimilarity : {0, 7, 10},
     seen : 0 .. load.choices]
RequestMessages == [type : RequestTypes]
Replies == [type : {"SensorData", "CameraSnapShotResponse"}]

ChannelTypes ==
    toRobot \subseteq TextMessages \cup RequestMessages /\ toAgent \subseteq Replies

TextTypes ==
    /\ load \in Loads /\ transport \in BOOLEAN
    /\ buffer \in Seq(1 .. load.pieces) /\ flushLeft \in NoTask .. Debounce
    /\ turnOf \in Seq(1 .. load.turns)
    /\ mimic \in [emotion : 0 .. load.choices, reaction : 0 .. load.choices]
    /\ choices \in Seq(Choices) /\ sent \in Seq(TextMessages)

RequestVarTypes ==
    /\ requests \in 0 .. load.requests
    /\ waitLeft \in [1 .. load.requests -> NoTask .. RecvTimeout]
    /\ awaits \in [1 .. load.requests -> 0 .. load.requests]
    /\ event \in 0 .. load.requests /\ setEvents \subseteq 1 .. load.requests
    /\ response \in Replies \cup {NoReply} /\ heard \subseteq 1 .. load.requests
    /\ returned \subseteq [request : 1 .. load.requests, heard : SUBSET (1 .. load.requests)]

ServiceTypes ==
    /\ svcPc \in {"start", "failed", "crashed", "receive", "serialise", "snapshot",
                  "request"}
    /\ haveReading \in BOOLEAN /\ raced \in BOOLEAN
    /\ performed \subseteq TextMessages

EchoTypes ==
    /\ botSpeaking \in BOOLEAN /\ playing \in BOOLEAN /\ interrupted \in BOOLEAN
    /\ speakingFor \in 0 .. MaxSpeaking + 1 /\ playedFor \in 0 .. MaxSpeaking + 1
    /\ ignoreLeft \in 0 .. IgnoreAfter /\ frames \in Seq({"started", "stopped"})
    /\ sounds \in 0 .. load.sounds

TypeOK == ChannelTypes /\ TextTypes /\ RequestVarTypes /\ ServiceTypes /\ EchoTypes

\* The frames of text go on after the n-th one without a gap.
GoesOn(text, n) == \A i \in 1 .. Len(text) : text[i] = n + i

\* The last frame that the k-th response carries.
LastFrame(k) == IF k = 0 THEN 0 ELSE sent[k].text[Len(sent[k].text)]

\* Every text frame is sent once and in order, or still in the buffer, although
\* each frame cancels the task that would send the ones before it: the first
\* response begins with the first frame, each goes on where the one before it
\* ended, and so does the buffer, up to the last frame.
TextConserved ==
    /\ \A k \in 1 .. Len(sent) : sent[k].text # <<>> /\ GoesOn(sent[k].text, LastFrame(k - 1))
    /\ GoesOn(buffer, LastFrame(Len(sent)))
    /\ LastFrame(Len(sent)) + Len(buffer) = Len(turnOf)

\* makeMimic: the gesture that is performed, and the call that chose it.
Gesture(m) ==
    IF m.reactionSimilarity > m.emotionSimilarity
    THEN [kind |-> "reaction", by |-> m.reaction]
    ELSE [kind |-> "emotion", by |-> m.emotion]

\* What the model asked for between two responses: its last valid choice.
Wanted(after, upTo) ==
    LET valid == {i \in after + 1 .. upTo : choices[i].emotion \/ choices[i].reaction}
        last == CHOOSE i \in valid : \A j \in valid : j <= i
    IN  IF valid = {} THEN [kind |-> "emotion", by |-> 0]
        ELSE [kind |-> IF choices[last].emotion THEN "emotion" ELSE "reaction", by |-> last]

\* The robot performs for each response the last mimic that the model chose
\* since the response before, and the default one if it chose none: a choice
\* outlives neither a newer one nor the response it was used for.
ChosenMimicPerformed ==
    \A m \in performed :
        LET after == IF m.n = 1 THEN 0 ELSE sent[m.n - 1].seen
        IN  Gesture(m) = Wanted(after, m.seen)

\* A request returns only a datagram that came while it was waiting, never one
\* that was there before it began, although all requests share one Event and one
\* response and any number of them may wait.  What came may still be the late
\* reply of an earlier request, a copy that the network made of one, or the same
\* datagram that another request returns which waits at the same time.
ReplyIsNew == \A r \in returned : r.request \in r.heard

\* Text that was gathered is sent once the model falls silent, unless the
\* agent ends.
TextSent == buffer # <<>> ~> buffer = <<>> \/ ~transport

\* The microphone is never shut for good, even if the end of a voice is not
\* reported and whenever the user breaks in.
MicrophoneOpens == []<>(Passes \/ ~transport)

\* A response that reaches the robot and fits in its buffer is performed, while
\* the service lives.
DeliveredIsPerformed ==
    \A n \in Numbers :
        (\E m \in toRobot : m.type = "LLMResponse" /\ m.n = n /\ Len(m.text) <= PacketPieces)
            ~> (\E m \in performed : m.n = n) \/ ServiceGone
=============================================================================
