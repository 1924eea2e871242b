-------------------------- MODULE VoiceAgentProofs --------------------------
(***************************************************************************)
(* Proofs about VoiceAgent, for any number of text frames, choices of the  *)
(* model, requests and voices, any timeouts and any size of the receive    *)
(* buffer: no text is lost or sent twice, the gesture that is performed is *)
(* the last one chosen, no request takes a datagram that came before it,   *)
(* and the agent does not hear itself.                                     *)
(***************************************************************************)
EXTENDS VoiceAgent, SequenceTheorems, TLAPS

-----------------------------------------------------------------------------
(* The inductive invariant *)

\* Texts are counted: no response is empty, so there are no more responses than
\* text frames, and no more frames than the load has.
TextInv ==
    /\ TextConserved
    /\ \A k \in 0 .. Len(sent) : LastFrame(k) \in Nat /\ k <= LastFrame(k)
    /\ Len(turnOf) <= load.pieces

\* What the model wanted between two responses, from the choices c, without
\* CHOOSE.
ValidChoices(c, after, upTo) == {i \in after + 1 .. upTo : c[i].emotion \/ c[i].reaction}
GestureOf(c, i) == [kind |-> IF c[i].emotion THEN "emotion" ELSE "reaction", by |-> i]
DefaultGesture == [kind |-> "emotion", by |-> 0]
IsWanted(c, g, after, upTo) ==
    \/ ValidChoices(c, after, upTo) = {} /\ g = DefaultGesture
    \/ \E i \in ValidChoices(c, after, upTo) :
           (\A j \in ValidChoices(c, after, upTo) : j <= i) /\ g = GestureOf(c, i)

\* The choices that were used by the responses before the k-th.
SeenBefore(k) == IF k = 1 THEN 0 ELSE sent[k - 1].seen

\* The gesture that a response would have now.
Pending ==
    IF mimic.emotion # 0 THEN [kind |-> "emotion", by |-> mimic.emotion]
    ELSE [kind |-> IF mimic.reaction # 0 THEN "reaction" ELSE "emotion", by |-> mimic.reaction]

ChoiceInv ==
    /\ Len(choices) <= load.choices
    /\ \A k \in 1 .. Len(sent) :
           /\ sent[k].n = k /\ sent[k].seen <= Len(choices)
           /\ IsWanted(choices, Gesture(sent[k]), SeenBefore(k), sent[k].seen)
    /\ IsWanted(choices, Pending, SeenBefore(Len(sent) + 1), Len(choices))
    /\ \A m \in toRobot \cup performed :
           m.type = "LLMResponse" => m.n \in 1 .. Len(sent) /\ m = sent[m.n]

\* What is kept of the last datagram came after the last request began, so every
\* request that waits now was waiting then.
ReplyInv ==
    /\ response # NoReply => InFlight \subseteq heard
    /\ ReplyIsNew

\* While a voice is played that nobody broke into, its beginning is still to be
\* reported, or the processor knows of it and counts no longer than it lasts.
VoiceInv ==
    playing /\ ~interrupted =>
        \/ frames # <<>> /\ frames[Len(frames)] = "started"
        \/ frames = <<>> /\ (playedFor <= MaxSpeaking => botSpeaking /\ speakingFor <= playedFor)

IInv == TypeOK /\ TextInv /\ ChoiceInv /\ ReplyInv /\ VoiceInv

-----------------------------------------------------------------------------
(* EchoSuppression *)

\* A step of the echo suppression keeps its types and VoiceInv.
LEMMA EchoStep ==
    ASSUME EchoTypes, VoiceInv, UNCHANGED load, load.sounds \in Nat, EchoNext,
           sounds' <= load.sounds
    PROVE  EchoTypes' /\ VoiceInv'
  <1>. DEFINE Ages == 0 .. MaxSpeaking + 1
              Reports == {"started", "stopped"}
  <1>1. sounds' \in 0 .. load.sounds
    <2>1. sounds \in Nat
      BY DEF EchoTypes
    <2>2. sounds' \in Nat
      BY <2>1
      DEF EchoNext, StartPlaying, StopPlaying, BotStarted, BotStopped, Interruption, AudioFrame,
          EchoTick
    <2>. QED  BY <2>2
  <1>2. 0 \in Ages /\ 0 \in 0 .. IgnoreAfter /\ IgnoreAfter \in 0 .. IgnoreAfter
    BY EchoAssumption
  <1>. HIDE DEF Ages
  <1>3. SUFFICES /\ botSpeaking' \in BOOLEAN /\ playing' \in BOOLEAN /\ interrupted' \in BOOLEAN
                 /\ speakingFor' \in Ages /\ playedFor' \in Ages
                 /\ ignoreLeft' \in 0 .. IgnoreAfter /\ frames' \in Seq(Reports)
                 /\ VoiceInv'
    BY <1>1 DEF EchoTypes, Ages
  <1>4. /\ botSpeaking \in BOOLEAN /\ playing \in BOOLEAN /\ interrupted \in BOOLEAN
        /\ speakingFor \in Ages /\ playedFor \in Ages
        /\ ignoreLeft \in 0 .. IgnoreAfter /\ frames \in Seq(Reports)
    BY DEF EchoTypes, Ages
  <1>5. CASE StartPlaying
    <2>1. frames' \in Seq(Reports) /\ frames' # <<>> /\ frames'[Len(frames')] = "started"
      BY <1>4, <1>5, AppendProperties DEF StartPlaying
    <2>. QED  BY <1>2, <1>4, <1>5, <2>1 DEF StartPlaying, VoiceInv
  <1>6. CASE StopPlaying
    <2>1. frames' \in Seq(Reports)
      BY <1>4, <1>6 DEF StopPlaying
    <2>. QED  BY <1>2, <1>4, <1>6, <2>1 DEF StopPlaying, VoiceInv
  <1>7. CASE BotStarted
    <2>1. frames' \in Seq(Reports)
      BY <1>4, <1>7 DEF BotStarted
    <2>2. frames' # <<>> => frames'[Len(frames')] = frames[Len(frames)]
      BY <1>4, <1>7 DEF BotStarted
    <2>3. playedFor \in Nat /\ frames # <<>>
      BY <1>4, <1>7, EchoAssumption DEF Ages, BotStarted
    <2>4. VoiceInv'
      BY <1>7, <2>2, <2>3 DEF BotStarted, AgeAtStart, VoiceInv
    <2>. QED  BY <1>2, <1>4, <1>7, <2>1, <2>4 DEF BotStarted, AgeAtStart
  <1>8. CASE BotStopped
    <2>1. frames' \in Seq(Reports)
      BY <1>4, <1>8 DEF BotStopped
    <2>2. frames' # <<>> => frames'[Len(frames')] = frames[Len(frames)]
      BY <1>4, <1>8 DEF BotStopped
    <2>3. frames' = <<>> => Len(frames) = 1
      <3>1. Len(frames') = Len(frames) - 1 /\ Len(frames) \in Nat
        BY <1>4, <1>8, HeadTailProperties DEF BotStopped
      <3>. QED  BY <3>1
    <2>4. frames' = <<>> => frames[Len(frames)] = "stopped" /\ frames # <<>>
      BY <1>4, <1>8, <2>3 DEF BotStopped
    <2>5. VoiceInv'
      BY <1>8, <2>2, <2>4 DEF BotStopped, VoiceInv
    <2>. QED  BY <1>2, <1>4, <1>8, <2>1, <2>5 DEF BotStopped
  <1>9. CASE Interruption
    <2>1. ignoreLeft' \in 0 .. IgnoreAfter
      BY <1>2, <1>4, <1>9 DEF Interruption
    <2>. QED  BY <1>2, <1>4, <1>9, <2>1 DEF Interruption, VoiceInv
  <1>10. CASE AudioFrame
    <2>1. speakingFor \in Int /\ playedFor \in Int /\ MaxSpeaking \in Int
      BY <1>4, EchoAssumption DEF Ages
    <2>2. VoiceInv'
      BY <1>10, <2>1 DEF AudioFrame, Stuck, VoiceInv
    <2>. QED  BY <1>2, <1>4, <1>10, <2>2 DEF AudioFrame
  <1>11. CASE EchoTick
    <2>1. speakingFor' \in Ages /\ playedFor' \in Ages
      BY <1>4, <1>11, EchoAssumption DEF EchoTick, Ages
    <2>2. ignoreLeft' \in 0 .. IgnoreAfter
      BY <1>4, <1>11, EchoAssumption DEF EchoTick
    <2>3. VoiceInv'
      BY <1>4, <1>11, EchoAssumption DEF EchoTick, Ages, VoiceInv
    <2>. QED  BY <1>4, <1>11, <2>1, <2>2, <2>3 DEF EchoTick
  <1>. QED  BY <1>5, <1>6, <1>7, <1>8, <1>9, <1>10, <1>11 DEF EchoNext

\* A step of the others leaves both alone.
LEMMA EchoKept ==
    ASSUME EchoTypes, VoiceInv, UNCHANGED load, UNCHANGED echoVars
    PROVE  EchoTypes' /\ VoiceInv'
  BY DEF EchoTypes, VoiceInv, echoVars

-----------------------------------------------------------------------------
(* RobotBridgeProcessor: the text *)

LEMMA LoadType ==
    ASSUME load \in Loads
    PROVE  /\ load.pieces \in Nat /\ load.turns \in Nat /\ load.choices \in Nat
           /\ load.requests \in Nat /\ load.kinds \subseteq RequestTypes
           /\ load.sounds \in Nat
  BY BridgeAssumption

LEMMA MessagesKept ==
    ASSUME UNCHANGED load
    PROVE  UNCHANGED <<TextMessages, RequestMessages, Replies>>
  BY DEF TextMessages, RequestMessages, Replies

\* A text frame goes to the end of the buffer, where it goes on from the frames
\* before it.
LEMMA TextFrameStep ==
    ASSUME TextTypes, TextInv, NEW t, TextFrame(t)
    PROVE  TextTypes' /\ TextInv'
  <1>1. /\ load' = load /\ load.pieces \in Nat /\ load.turns \in Nat /\ load \in Loads
        /\ sent' = sent /\ choices' = choices /\ mimic' = mimic /\ transport' = transport
    BY LoadType DEF TextTypes, TextFrame, mimicVars
  <1>2. t \in 1 .. load.turns /\ Len(turnOf) \in Nat /\ Len(turnOf) < load.pieces
    BY DEF TextFrame, TextTypes
  <1>3. Len(turnOf) + 1 \in 1 .. load.pieces
    BY <1>1, <1>2
  <1>4. buffer' \in Seq(1 .. load.pieces) /\ Len(buffer') = Len(buffer) + 1
        /\ Len(buffer) \in Nat /\ buffer'[Len(buffer) + 1] = Len(turnOf) + 1
        /\ \A i \in 1 .. Len(buffer) : buffer'[i] = buffer[i]
    BY <1>3, AppendProperties DEF TextFrame, TextTypes
  <1>5. turnOf' \in Seq(1 .. load.turns) /\ Len(turnOf') = Len(turnOf) + 1
    BY <1>2, AppendProperties DEF TextFrame, TextTypes
  <1>6. TextTypes'
    <2>1. flushLeft' \in NoTask .. Debounce
      BY BridgeAssumption DEF TextFrame, Restarted, NoTask
    <2>. QED  BY <1>1, <1>4, <1>5, <2>1, MessagesKept DEF TextTypes
  <1>7. TextInv'
    <2>1. \A k : LastFrame(k)' = LastFrame(k)
      BY <1>1 DEF LastFrame
    <2>2. LastFrame(Len(sent)) \in Nat /\ LastFrame(Len(sent)) + Len(buffer) = Len(turnOf)
      BY DEF TextInv, TextConserved, TextTypes
    <2>3. GoesOn(buffer', LastFrame(Len(sent)))
      <3>. SUFFICES ASSUME NEW i \in 1 .. Len(buffer') PROVE buffer'[i] = LastFrame(Len(sent)) + i
        BY DEF GoesOn
      <3>1. CASE i \in 1 .. Len(buffer)
        BY <1>4, <3>1 DEF TextInv, TextConserved, GoesOn
      <3>2. CASE i = Len(buffer) + 1
        BY <1>4, <2>2, <3>2
      <3>. QED  BY <1>4, <3>1, <3>2
    <2>4. LastFrame(Len(sent)) + Len(buffer') = Len(turnOf')
      <3>1. PICK last \in Nat : last = LastFrame(Len(sent)) /\ last + Len(buffer) = Len(turnOf)
        BY <2>2
      <3>2. /\ Len(buffer) \in Nat /\ Len(buffer') = Len(buffer) + 1
            /\ Len(turnOf) \in Nat /\ Len(turnOf') = Len(turnOf) + 1
        BY <1>2, <1>4, <1>5
      <3>3. last + Len(buffer') = Len(turnOf')
        BY ONLY last \in Nat, <3>1, <3>2
      <3>. QED  BY <3>1, <3>3
    <2>5. Len(turnOf') <= load'.pieces
      BY <1>1, <1>2, <1>5
    <2>6. TextConserved'
      BY <1>1, <2>1, <2>3, <2>4 DEF TextInv, TextConserved, GoesOn, LastFrame
    <2>. QED  BY <1>1, <2>1, <2>5, <2>6 DEF TextInv, LastFrame
  <1>. QED  BY <1>6, <1>7

\* What does not touch the text keeps it.
LEMMA TextKept ==
    ASSUME TextInv, UNCHANGED <<load, buffer, turnOf, sent>>
    PROVE  TextInv'
  BY DEF TextInv, TextConserved, GoesOn, LastFrame

\* What the model's choices are worth to a response.
LEMMA PayloadType ==
    ASSUME TextTypes, TextInv, Len(choices) <= load.choices, buffer # <<>>
    PROVE  /\ MimicPayload \in TextMessages
           /\ MimicPayload.text = buffer /\ MimicPayload.n = Len(sent) + 1
           /\ MimicPayload.type = "LLMResponse" /\ MimicPayload.seen = Len(choices)
           /\ Gesture(MimicPayload) = Pending
  <1>1. load.pieces \in Nat /\ load.choices \in Nat
    BY LoadType DEF TextTypes
  <1>2. /\ mimic.emotion \in 0 .. load.choices /\ mimic.reaction \in 0 .. load.choices
        /\ 0 \in 0 .. load.choices /\ buffer \in Seq(1 .. load.pieces)
    BY <1>1 DEF TextTypes
  <1>3. Len(sent) + 1 \in 1 .. load.pieces
    <2>1. Len(sent) \in Nat /\ Len(buffer) \in Nat /\ Len(buffer) # 0 /\ Len(turnOf) \in Nat
      BY EmptySeq DEF TextTypes
    <2>2. /\ LastFrame(Len(sent)) \in Nat /\ Len(sent) <= LastFrame(Len(sent))
          /\ LastFrame(Len(sent)) + Len(buffer) = Len(turnOf) /\ Len(turnOf) <= load.pieces
      BY <2>1 DEF TextInv, TextConserved
    <2>. QED  BY <1>1, <2>1, <2>2
  <1>4. Len(choices) \in 0 .. load.choices
    BY <1>1 DEF TextTypes
  <1>5. ASSUME NEW e \in 0 .. load.choices, NEW es \in {0, 8, 10},
               NEW a \in 0 .. load.choices, NEW as \in {0, 7, 10}
        PROVE  /\ Payload(e, es, a, as) \in TextMessages
               /\ Payload(e, es, a, as).text = buffer /\ Payload(e, es, a, as).n = Len(sent) + 1
               /\ Payload(e, es, a, as).type = "LLMResponse"
               /\ Payload(e, es, a, as).seen = Len(choices)
               /\ Gesture(Payload(e, es, a, as)) =
                    IF as > es THEN [kind |-> "reaction", by |-> a]
                    ELSE [kind |-> "emotion", by |-> e]
    BY <1>2, <1>3, <1>4, <1>5 DEF Payload, TextMessages, Gesture
  <1>6. CASE mimic.emotion # 0
    <2>1. MimicPayload = Payload(mimic.emotion, 10, 0, 0)
      BY <1>6 DEF MimicPayload
    <2>2. Pending = [kind |-> "emotion", by |-> mimic.emotion] /\ ~(0 > 10)
      BY <1>6 DEF Pending
    <2>. QED  BY <1>2, <1>5, <2>1, <2>2
  <1>7. CASE mimic.emotion = 0 /\ mimic.reaction # 0
    BY <1>2, <1>5, <1>7 DEF MimicPayload, Pending
  <1>8. CASE mimic.emotion = 0 /\ mimic.reaction = 0
    BY <1>2, <1>5, <1>8 DEF MimicPayload, Pending
  <1>. QED  BY <1>6, <1>7, <1>8

\* A flush with text in the buffer sends it all, once.
LEMMA FlushStep ==
    ASSUME TextTypes, TextInv, Len(choices) <= load.choices, Flush
    PROVE  TextTypes' /\ TextInv'
  <1>1. /\ load' = load /\ load.pieces \in Nat /\ load.choices \in Nat /\ load \in Loads
        /\ turnOf' = turnOf /\ choices' = choices /\ transport' = transport
        /\ flushLeft' \in NoTask .. Debounce
    BY LoadType, BridgeAssumption DEF TextTypes, Flush, NoTask
  <1>2. CASE buffer = <<>>
    <2>1. UNCHANGED <<buffer, mimic, sent>>
      BY <1>2 DEF Flush
    <2>. QED  BY <1>1, <2>1, MessagesKept, TextKept DEF TextTypes
  <1>3. CASE buffer # <<>>
    <2>1. /\ buffer' = <<>> /\ mimic' = NoMimic /\ sent' = Append(sent, MimicPayload)
          /\ MimicPayload \in TextMessages /\ MimicPayload.text = buffer
      BY <1>3, PayloadType DEF Flush, Flushed
    <2>2. Len(buffer) \in Nat /\ Len(buffer) # 0 /\ Len(turnOf) \in Nat
      BY <1>3, EmptySeq DEF TextTypes
    <2>15. PICK n \in Nat : n = Len(sent)
      BY DEF TextTypes
    <2>16. PICK last \in Nat : last = LastFrame(n)
      BY <2>15 DEF TextInv
    <2>3. /\ sent' \in Seq(TextMessages) /\ Len(sent') = n + 1
          /\ sent'[n + 1] = MimicPayload
          /\ \A k \in 1 .. n : sent'[k] = sent[k]
      BY <2>1, <2>15, AppendProperties DEF TextTypes
    <2>4. TextTypes'
      <3>1. mimic' \in [emotion : 0 .. load.choices, reaction : 0 .. load.choices]
        BY <1>1, <2>1 DEF NoMimic
      <3>. QED  BY <1>1, <2>1, <2>3, <3>1, MessagesKept, EmptySeq DEF TextTypes
    <2>5. \A k \in 0 .. n : LastFrame(k)' = LastFrame(k)
      BY <2>3 DEF LastFrame
    <2>6. LastFrame(n + 1)' = buffer[Len(buffer)]
      BY <2>1, <2>3 DEF LastFrame
    <2>7. n <= last /\ last + Len(buffer) = Len(turnOf) /\ GoesOn(buffer, last)
      BY <2>15, <2>16 DEF TextInv, TextConserved
    <2>8. LastFrame(n + 1)' = Len(turnOf) /\ n + 1 <= Len(turnOf)
      BY <2>2, <2>6, <2>7 DEF GoesOn
    <2>9. ASSUME NEW k \in 1 .. n + 1
          PROVE  sent'[k].text # <<>> /\ GoesOn(sent'[k].text, LastFrame(k - 1)')
      <3>1. CASE k \in 1 .. n
        <4>1. k - 1 \in 0 .. n
          BY <3>1
        <4>. QED  BY <2>3, <2>5, <2>15, <3>1, <4>1 DEF TextInv, TextConserved
      <3>2. CASE k = n + 1
        <4>1. LastFrame(n)' = last
          BY <2>5, <2>16
        <4>2. k - 1 = n
          BY <3>2
        <4>. QED  BY <1>3, <2>1, <2>3, <2>7, <3>2, <4>1, <4>2
      <3>. QED  BY <3>1, <3>2
    <2>10. GoesOn(buffer', LastFrame(n + 1)')
      BY <2>1 DEF GoesOn
    <2>11. LastFrame(n + 1)' + Len(buffer') = Len(turnOf')
      BY <1>1, <2>1, <2>2, <2>8
    <2>12. TextConserved'
      BY <2>3, <2>9, <2>10, <2>11 DEF TextConserved, GoesOn, LastFrame
    <2>13. ASSUME NEW k \in 0 .. n + 1 PROVE LastFrame(k)' \in Nat /\ k <= LastFrame(k)'
      <3>1. CASE k \in 0 .. n
        BY <2>5, <2>15, <3>1 DEF TextInv
      <3>2. CASE k = n + 1
        BY <2>2, <2>8, <3>2
      <3>. QED  BY <3>1, <3>2
    <2>14. Len(turnOf') <= load'.pieces
      BY <1>1 DEF TextInv
    <2>. QED  BY <2>3, <2>4, <2>12, <2>13, <2>14 DEF TextInv
  <1>. QED  BY <1>2, <1>3

-----------------------------------------------------------------------------
(* The gestures *)

\* What was wanted up to a point does not change with later choices.
LEMMA WantedKept ==
    ASSUME NEW c, NEW d, NEW g, NEW after \in Nat, NEW upTo \in Nat,
           \A i \in after + 1 .. upTo : d[i] = c[i], IsWanted(c, g, after, upTo)
    PROVE  IsWanted(d, g, after, upTo)
  <1>1. ValidChoices(d, after, upTo) = ValidChoices(c, after, upTo)
    BY DEF ValidChoices
  <1>2. \A i \in ValidChoices(c, after, upTo) : GestureOf(d, i) = GestureOf(c, i)
    BY DEF ValidChoices, GestureOf
  <1>. QED  BY <1>1, <1>2 DEF IsWanted

\* A valid choice is wanted at once.
LEMMA WantedNewest ==
    ASSUME NEW c, NEW after \in Nat, NEW upTo \in Nat, after < upTo,
           c[upTo].emotion \/ c[upTo].reaction
    PROVE  IsWanted(c, GestureOf(c, upTo), after, upTo)
  <1>1. upTo \in ValidChoices(c, after, upTo)
    BY DEF ValidChoices
  <1>2. \A j \in ValidChoices(c, after, upTo) : j <= upTo
    BY DEF ValidChoices
  <1>. QED  BY <1>1, <1>2 DEF IsWanted

\* One that names no gesture changes nothing.
LEMMA WantedSame ==
    ASSUME NEW c, NEW g, NEW after \in Nat, NEW upTo \in Nat, after <= upTo,
           ~c[upTo + 1].emotion, ~c[upTo + 1].reaction, IsWanted(c, g, after, upTo)
    PROVE  IsWanted(c, g, after, upTo + 1)
  <1>1. ValidChoices(c, after, upTo + 1) = ValidChoices(c, after, upTo)
    BY DEF ValidChoices
  <1>. QED  BY <1>1 DEF IsWanted

\* Nothing is wanted right after a response.
LEMMA WantedNone ==
    ASSUME NEW c, NEW n \in Nat PROVE IsWanted(c, DefaultGesture, n, n)
  <1>1. ValidChoices(c, n, n) = {}
    BY DEF ValidChoices
  <1>. QED  BY <1>1 DEF IsWanted

\* There is one gesture that is wanted.
LEMMA WantedUnique ==
    ASSUME NEW g, NEW after \in Nat, NEW upTo \in Nat, IsWanted(choices, g, after, upTo)
    PROVE  g = Wanted(after, upTo)
  <1>. DEFINE valid == ValidChoices(choices, after, upTo)
              last == CHOOSE i \in valid : \A j \in valid : j <= i
  <1>1. valid \subseteq Int
    BY DEF ValidChoices
  <1>2. Wanted(after, upTo) = IF valid = {} THEN DefaultGesture ELSE GestureOf(choices, last)
    BY DEF Wanted, ValidChoices, DefaultGesture, GestureOf
  <1>3. CASE valid = {}
    BY <1>2, <1>3 DEF IsWanted
  <1>4. CASE valid # {}
    <2>1. PICK i \in valid : (\A j \in valid : j <= i) /\ g = GestureOf(choices, i)
      BY <1>4 DEF IsWanted
    <2>2. last \in valid /\ \A j \in valid : j <= last
      BY <2>1
    <2>3. last = i
      BY <1>1, <2>1, <2>2
    <2>. QED  BY <1>2, <1>4, <2>1, <2>3
  <1>. QED  BY <1>3, <1>4

\* What a response has seen are choices that were made.
LEMMA SeenType ==
    ASSUME TextTypes, ChoiceInv
    PROVE  /\ Len(choices) \in Nat /\ Len(sent) \in Nat
           /\ \A k \in 1 .. Len(sent) : sent[k].seen \in Nat /\ sent[k].seen <= Len(choices)
           /\ \A k \in 1 .. Len(sent) + 1 : SeenBefore(k) \in Nat /\ SeenBefore(k) <= Len(choices)
  <1>1. Len(choices) \in Nat /\ Len(sent) \in Nat
    BY DEF TextTypes
  <1>2. \A k \in 1 .. Len(sent) : sent[k].seen \in Nat /\ sent[k].seen <= Len(choices)
    <2>1. \A k \in 1 .. Len(sent) : sent[k] \in TextMessages
      BY <1>1, ElementOfSeq DEF TextTypes
    <2>2. load.choices \in Nat
      BY LoadType DEF TextTypes
    <2>3. \A m \in TextMessages : m.seen \in Nat
      BY <2>2 DEF TextMessages
    <2>. QED  BY <2>1, <2>3 DEF ChoiceInv
  <1>3. ASSUME NEW k \in 1 .. Len(sent) + 1
        PROVE  SeenBefore(k) \in Nat /\ SeenBefore(k) <= Len(choices)
    <2>1. CASE k = 1
      BY <1>1, <2>1 DEF SeenBefore
    <2>2. CASE k # 1
      <3>1. k - 1 \in 1 .. Len(sent)
        BY <1>1, <2>2
      <3>. QED  BY <1>2, <2>2, <3>1 DEF SeenBefore
    <2>. QED  BY <2>1, <2>2
  <1>. QED  BY <1>1, <1>2, <1>3

\* A choice of the model is what the next response will carry, and a call that
\* names no gesture leaves the earlier choice.
LEMMA SetMimicStep ==
    ASSUME TextTypes, ChoiceInv, NEW args \in Choices, SetMimic(args), UNCHANGED performed
    PROVE  TextTypes' /\ ChoiceInv'
  <1>1. PICK n \in Nat : n = Len(choices)
    BY DEF TextTypes
  <1>2. PICK k \in Nat : k = Len(sent)
    BY DEF TextTypes
  <1>3. /\ choices' \in Seq(Choices) /\ Len(choices') = n + 1 /\ choices'[n + 1] = args
        /\ \A i \in 1 .. n : choices'[i] = choices[i]
    BY <1>1, AppendProperties DEF SetMimic, TextTypes
  <1>4. /\ UNCHANGED <<load, sent, toRobot, performed, buffer, flushLeft, turnOf, transport>>
        /\ n < load.choices /\ load.choices \in Nat
    BY <1>1, LoadType DEF SetMimic, TextTypes, textVars, channels
  <1>5. n + 1 \in 0 .. load.choices /\ 0 \in 0 .. load.choices /\ n + 1 # 0
    BY <1>4
  <1>6. mimic' \in [emotion : 0 .. load.choices, reaction : 0 .. load.choices]
    BY <1>1, <1>5 DEF SetMimic, Chosen, TextTypes
  <1>7. TextTypes'
    BY <1>3, <1>4, <1>6, MessagesKept DEF TextTypes
  <1>8. PICK seen \in Nat : seen = SeenBefore(k + 1) /\ seen <= n
    BY <1>1, <1>2, SeenType
  <1>9. IsWanted(choices', Pending, seen, n)
    <2>1. IsWanted(choices, Pending, seen, n)
      BY <1>1, <1>2, <1>8 DEF ChoiceInv
    <2>. QED  BY <1>3, <1>8, <2>1, WantedKept
  <1>10. IsWanted(choices', Pending', seen, n + 1)
    <2>1. CASE args.emotion \/ args.reaction
      <3>1. IsWanted(choices', GestureOf(choices', n + 1), seen, n + 1)
        BY <1>3, <1>8, <2>1, WantedNewest
      <3>2. CASE args.emotion
        <4>1. mimic' = [emotion |-> n + 1, reaction |-> 0]
          BY <1>1, <3>2 DEF SetMimic, Chosen
        <4>. QED  BY <1>3, <1>5, <3>1, <3>2, <4>1 DEF Pending, GestureOf
      <3>3. CASE ~args.emotion
        <4>1. mimic' = [emotion |-> 0, reaction |-> n + 1]
          BY <1>1, <2>1, <3>3 DEF SetMimic, Chosen
        <4>. QED  BY <1>3, <1>5, <3>1, <3>3, <4>1 DEF Pending, GestureOf
      <3>. QED  BY <3>2, <3>3
    <2>2. CASE ~args.emotion /\ ~args.reaction
      <3>1. mimic' = mimic
        BY <2>2 DEF SetMimic, Chosen
      <3>2. Pending' = Pending
        BY <3>1 DEF Pending
      <3>. QED  BY <1>3, <1>8, <1>9, <2>2, <3>2, WantedSame
    <2>. QED  BY <2>1, <2>2
  <1>11. ASSUME NEW j \in 1 .. Len(sent)
         PROVE  /\ sent[j].n = j /\ sent[j].seen <= n + 1
                /\ IsWanted(choices', Gesture(sent[j]), SeenBefore(j), sent[j].seen)
    <2>1. PICK s \in Nat : s = sent[j].seen /\ s <= n
      BY <1>1, SeenType
    <2>2. PICK b \in Nat : b = SeenBefore(j)
      BY <1>2, SeenType
    <2>3. IsWanted(choices, Gesture(sent[j]), b, s)
      BY <2>1, <2>2 DEF ChoiceInv
    <2>4. IsWanted(choices', Gesture(sent[j]), b, s)
      BY <1>3, <2>1, <2>2, <2>3, WantedKept
    <2>5. sent[j].n = j /\ sent[j].seen <= n + 1
      BY <2>1 DEF ChoiceInv
    <2>. QED  BY <2>1, <2>2, <2>4, <2>5
  <1>12. ChoiceInv'
    <2>1. \A j : SeenBefore(j)' = SeenBefore(j)
      BY <1>4 DEF SeenBefore
    <2>2. SeenBefore(Len(sent) + 1)' = seen
      BY <1>2, <1>4, <1>8 DEF SeenBefore
    <2>3. Len(choices') <= load'.choices
      BY <1>3, <1>4
    <2>4. IsWanted(choices', Pending', SeenBefore(Len(sent) + 1)', Len(choices'))
      BY <1>3, <1>10, <2>2
    <2>5. \A j \in 1 .. Len(sent') :
             /\ sent'[j].n = j /\ sent'[j].seen <= Len(choices')
             /\ IsWanted(choices', Gesture(sent'[j]), SeenBefore(j)', sent'[j].seen)
      BY <1>3, <1>4, <1>11, <2>1
    <2>. QED  BY <1>4, <2>3, <2>4, <2>5 DEF ChoiceInv
  <1>. QED  BY <1>7, <1>12

\* What neither chooses nor sends a response keeps ChoiceInv, as long as no
\* response appears from nowhere.
LEMMA ChoiceKept ==
    ASSUME ChoiceInv, UNCHANGED <<load, choices, mimic, sent>>,
           \A m \in toRobot' \cup performed' :
               m.type = "LLMResponse" => m \in toRobot \cup performed
    PROVE  ChoiceInv'
  <1>1. Pending' = Pending /\ \A k : SeenBefore(k)' = SeenBefore(k)
    BY DEF Pending, SeenBefore
  <1>2. SeenBefore(Len(sent) + 1)' = SeenBefore(Len(sent) + 1)
    BY DEF SeenBefore
  <1>3. IsWanted(choices', Pending', SeenBefore(Len(sent) + 1)', Len(choices'))
    BY <1>1, <1>2 DEF ChoiceInv
  <1>4. \A k \in 1 .. Len(sent') :
           /\ sent'[k].n = k /\ sent'[k].seen <= Len(choices')
           /\ IsWanted(choices', Gesture(sent'[k]), SeenBefore(k)', sent'[k].seen)
    BY <1>1 DEF ChoiceInv
  <1>5. \A m \in toRobot' \cup performed' :
           m.type = "LLMResponse" => m.n \in 1 .. Len(sent') /\ m = sent'[m.n]
    BY DEF ChoiceInv
  <1>. QED  BY <1>3, <1>4, <1>5 DEF ChoiceInv

\* A response carries the gesture that was pending, after which none is.
LEMMA FlushChoice ==
    ASSUME TextTypes, TextInv, ChoiceInv, Flush, UNCHANGED performed
    PROVE  ChoiceInv'
  <1>1. load' = load /\ choices' = choices /\ performed' = performed
    BY DEF Flush
  <1>2. CASE buffer = <<>>
    BY <1>1, <1>2, ChoiceKept DEF Flush
  <1>3. CASE buffer # <<>>
    <2>0. Len(choices) <= load.choices
      BY DEF ChoiceInv
    <2>1. /\ mimic' = NoMimic /\ sent' = Append(sent, MimicPayload)
          /\ toRobot' \subseteq toRobot \cup {MimicPayload}
      BY <1>3 DEF Flush, SendToRobot
    <2>2. /\ MimicPayload \in TextMessages /\ MimicPayload.n = Len(sent) + 1
          /\ MimicPayload.type = "LLMResponse" /\ MimicPayload.seen = Len(choices)
          /\ Gesture(MimicPayload) = Pending
      BY <1>3, <2>0, PayloadType
    <2>3. PICK n \in Nat : n = Len(sent)
      BY DEF TextTypes
    <2>4. PICK c \in Nat : c = Len(choices)
      BY DEF TextTypes
    <2>5. /\ Len(sent') = n + 1 /\ sent'[n + 1] = MimicPayload
          /\ \A k \in 1 .. n : sent'[k] = sent[k]
      BY <2>1, <2>2, <2>3, AppendProperties DEF TextTypes
    <2>6. \A k \in 1 .. n + 1 : SeenBefore(k)' = SeenBefore(k)
      <3>. SUFFICES ASSUME NEW k \in 1 .. n + 1 PROVE SeenBefore(k)' = SeenBefore(k)
        OBVIOUS
      <3>1. CASE k = 1
        BY <3>1 DEF SeenBefore
      <3>2. CASE k # 1
        <4>1. k - 1 \in 1 .. n
          BY <3>2
        <4>. QED  BY <2>5, <4>1, <3>2 DEF SeenBefore
      <3>. QED  BY <3>1, <3>2
    <2>7. SeenBefore(n + 1 + 1)' = c
      <3>1. (n + 1 + 1) - 1 = n + 1 /\ n + 1 + 1 # 1
        OBVIOUS
      <3>. QED  BY <2>2, <2>4, <2>5, <3>1 DEF SeenBefore
    <2>8. ASSUME NEW k \in 1 .. n + 1
          PROVE  /\ sent'[k].n = k /\ sent'[k].seen <= c
                 /\ IsWanted(choices, Gesture(sent'[k]), SeenBefore(k)', sent'[k].seen)
      <3>1. CASE k \in 1 .. n
        BY <2>3, <2>4, <2>5, <2>6, <3>1 DEF ChoiceInv
      <3>2. CASE k = n + 1
        <4>1. IsWanted(choices, Pending, SeenBefore(n + 1), c)
          BY <2>3, <2>4 DEF ChoiceInv
        <4>2. sent'[k].n = k /\ sent'[k].seen = c /\ Gesture(sent'[k]) = Pending
          BY <2>2, <2>3, <2>4, <2>5, <3>2
        <4>. QED  BY <2>6, <3>2, <4>1, <4>2
      <3>. QED  BY <3>1, <3>2
    <2>9. IsWanted(choices, Pending', c, c)
      <3>1. Pending' = DefaultGesture
        BY <2>1 DEF NoMimic, Pending, DefaultGesture
      <3>2. IsWanted(choices, DefaultGesture, c, c)
        BY WantedNone
      <3>. QED  BY <3>1, <3>2
    <2>10. IsWanted(choices', Pending', SeenBefore(Len(sent) + 1)', Len(choices'))
      <3>1. SeenBefore(Len(sent) + 1)' = c
        BY <2>5, <2>7 DEF SeenBefore
      <3>. QED  BY <1>1, <2>4, <2>9, <3>1
    <2>11. \A m \in toRobot' \cup performed' :
              m.type = "LLMResponse" => m.n \in 1 .. Len(sent') /\ m = sent'[m.n]
      <3>. SUFFICES ASSUME NEW m \in toRobot' \cup performed', m.type = "LLMResponse"
                    PROVE  m.n \in 1 .. n + 1 /\ m = sent'[m.n]
        BY <2>5
      <3>1. CASE m = MimicPayload
        BY <2>2, <2>3, <2>5, <3>1
      <3>2. CASE m \in toRobot \cup performed
        BY <2>3, <2>5, <3>2 DEF ChoiceInv
      <3>. QED  BY <1>1, <2>1, <3>1, <3>2
    <2>. QED  BY <1>1, <2>0, <2>4, <2>5, <2>8, <2>10, <2>11 DEF ChoiceInv
  <1>. QED  BY <1>2, <1>3

-----------------------------------------------------------------------------
(* Requests and replies *)

\* A step that leaves the requests alone.
LEMMA RequestsKept ==
    ASSUME RequestVarTypes, ReplyInv, UNCHANGED load,
           UNCHANGED <<requests, event, setEvents, response, heard, returned>>,
           UNCHANGED <<waitLeft, awaits>>
    PROVE  RequestVarTypes' /\ ReplyInv'
  BY MessagesKept DEF RequestVarTypes, ReplyInv, ReplyIsNew, InFlight

\* A new request clears what was kept of the last datagram.
LEMMA RequestStep ==
    ASSUME RequestVarTypes, load \in Loads, ReplyInv, NEW type, Request(type)
    PROVE  RequestVarTypes' /\ ReplyInv'
  <1>1. PICK q \in Nat : q = requests
    BY LoadType DEF RequestVarTypes
  <1>2. q + 1 \in 1 .. load.requests /\ q + 1 \in 0 .. load.requests
    BY <1>1, LoadType DEF Request
  <1>3. /\ requests' = q + 1 /\ event' = q + 1 /\ response' = NoReply
        /\ waitLeft' = [waitLeft EXCEPT ![q + 1] = RecvTimeout]
        /\ UNCHANGED <<load, awaits, setEvents, heard, returned>>
    BY <1>1 DEF Request, Cleared
  <1>4. RecvTimeout \in NoTask .. RecvTimeout
    BY BridgeAssumption DEF NoTask
  <1>5. RequestVarTypes'
    BY <1>2, <1>3, <1>4, MessagesKept DEF RequestVarTypes
  <1>6. ReplyInv'
    BY <1>3 DEF ReplyInv, ReplyIsNew
  <1>. QED  BY <1>5, <1>6

\* A datagram is heard by every request that waits.
LEMMA DatagramStep ==
    ASSUME ChannelTypes, RequestVarTypes, ReplyInv, NEW m \in toAgent, DatagramReceived(m)
    PROVE  RequestVarTypes' /\ ReplyInv'
  <1>1. /\ UNCHANGED <<load, requests, waitLeft, awaits, event, returned>>
        /\ response' = m /\ heard' = InFlight
        /\ setEvents' = (setEvents \cup {event}) \ {0}
    BY DEF DatagramReceived
  <1>2. m \in Replies
    BY DEF ChannelTypes
  <1>3. setEvents' \subseteq 1 .. load.requests
    <2>1. ASSUME NEW e \in setEvents' PROVE e \in 1 .. load.requests
      BY <1>1, <2>1 DEF RequestVarTypes
    <2>. QED  BY <2>1
  <1>4. InFlight \subseteq 1 .. load.requests /\ InFlight' = InFlight
    BY <1>1 DEF InFlight
  <1>5. RequestVarTypes'
    BY <1>1, <1>2, <1>3, <1>4, MessagesKept DEF RequestVarTypes
  <1>. QED  BY <1>1, <1>4, <1>5 DEF ReplyInv, ReplyIsNew

\* A helper waits, gives up, or returns what it has heard.
LEMMA HelperStep ==
    ASSUME RequestVarTypes, load \in Loads, ReplyInv, Helper
    PROVE  RequestVarTypes' /\ ReplyInv'
  <1>1. PICK n \in 1 .. load.requests :
           WaitResponse(n) \/ ReplyReturned(n) \/ RequestTimesOut(n)
    BY DEF Helper
  <1>2. UNCHANGED <<load, requests, event, setEvents, response, heard>> /\ n \in InFlight
    BY <1>1 DEF WaitResponse, ReplyReturned, RequestTimesOut
  <1>3. NoTask \in NoTask .. RecvTimeout /\ 0 \in 0 .. load.requests
    BY BridgeAssumption, LoadType DEF NoTask
  <1>4. CASE WaitResponse(n)
    <2>1. UNCHANGED <<waitLeft, returned>> /\ awaits' = [awaits EXCEPT ![n] = event]
      BY <1>4 DEF WaitResponse
    <2>. QED  BY <1>2, <2>1, MessagesKept DEF RequestVarTypes, ReplyInv, ReplyIsNew, InFlight
  <1>5. CASE ReplyReturned(n) \/ RequestTimesOut(n)
    <2>1. /\ waitLeft' = [waitLeft EXCEPT ![n] = NoTask] /\ awaits' = [awaits EXCEPT ![n] = 0]
          /\ \/ returned' = returned
             \/ response # NoReply /\ returned' = returned \cup {[request |-> n, heard |-> heard]}
      BY <1>5 DEF ReplyReturned, RequestTimesOut
    <2>2. /\ waitLeft' \in [1 .. load.requests -> NoTask .. RecvTimeout]
          /\ awaits' \in [1 .. load.requests -> 0 .. load.requests]
      BY <1>3, <2>1 DEF RequestVarTypes
    <2>3. [request |-> n, heard |-> heard] \in
             [request : 1 .. load.requests, heard : SUBSET (1 .. load.requests)]
      BY DEF RequestVarTypes
    <2>4. RequestVarTypes'
      <3>1. returned' \subseteq [request : 1 .. load.requests, heard : SUBSET (1 .. load.requests)]
        BY <2>1, <2>3 DEF RequestVarTypes
      <3>. QED  BY <1>2, <2>2, <3>1, MessagesKept DEF RequestVarTypes
    <2>5. InFlight' \subseteq InFlight
      BY <1>2, <2>1 DEF InFlight, RequestVarTypes
    <2>6. response # NoReply => n \in heard
      BY <1>2 DEF ReplyInv
    <2>7. ReplyIsNew'
      <3>1. ASSUME NEW e \in returned' PROVE e.request \in e.heard
        <4>1. CASE e \in returned
          BY <4>1 DEF ReplyInv, ReplyIsNew
        <4>2. CASE response # NoReply /\ e = [request |-> n, heard |-> heard]
          BY <2>6, <4>2
        <4>. QED  BY <2>1, <3>1, <4>1, <4>2
      <3>. QED  BY <3>1 DEF ReplyIsNew
    <2>. QED  BY <1>2, <2>4, <2>5, <2>7 DEF ReplyInv
  <1>. QED  BY <1>1, <1>4, <1>5

\* The end of the agent ends its requests; time ends none.
LEMMA TimeStep ==
    ASSUME RequestVarTypes, load \in Loads, ReplyInv, Tick \/ Disconnect
    PROVE  RequestVarTypes' /\ ReplyInv'
  <1>1. UNCHANGED <<load, requests, returned>>
    BY DEF Tick, Disconnect
  <1>2. \A left \in NoTask .. RecvTimeout :
           /\ Countdown(left) \in NoTask .. RecvTimeout
           /\ Countdown(left) = NoTask => left = NoTask
    BY BridgeAssumption DEF Countdown, NoTask
  <1>3. NoTask \in NoTask .. RecvTimeout /\ 0 \in 0 .. load.requests
    BY BridgeAssumption, LoadType DEF NoTask
  <1>4. CASE Tick
    <2>1. /\ UNCHANGED <<awaits, event, setEvents, response, heard>>
          /\ waitLeft' = [n \in 1 .. load.requests |-> Countdown(waitLeft[n])]
      BY <1>4 DEF Tick
    <2>2. RequestVarTypes'
      BY <1>1, <1>2, <2>1, MessagesKept DEF RequestVarTypes
    <2>3. InFlight' \subseteq InFlight
      <3>1. ASSUME NEW n \in InFlight' PROVE n \in InFlight
        <4>1. n \in 1 .. load.requests /\ Countdown(waitLeft[n]) # NoTask
          BY <1>1, <2>1 DEF InFlight
        <4>2. Countdown(NoTask) = NoTask
          BY DEF Countdown, NoTask
        <4>. QED  BY <4>1, <4>2 DEF InFlight
      <3>. QED  BY <3>1
    <2>. QED  BY <1>1, <2>1, <2>2, <2>3 DEF ReplyInv, ReplyIsNew
  <1>5. CASE Disconnect
    <2>1. /\ awaits' = [n \in 1 .. load.requests |-> 0] /\ event' = 0 /\ setEvents' = {}
          /\ waitLeft' = [n \in 1 .. load.requests |-> NoTask]
          /\ response' = NoReply /\ heard' = {}
      BY <1>5 DEF Disconnect
    <2>2. RequestVarTypes'
      BY <1>1, <1>3, <2>1, MessagesKept DEF RequestVarTypes
    <2>. QED  BY <1>1, <2>1, <2>2 DEF ReplyInv, ReplyIsNew
  <1>. QED  BY <1>4, <1>5

-----------------------------------------------------------------------------
(* The agent's side *)

\* What a step of the agent leaves alone, in every case.
LEMMA ServiceKept ==
    ASSUME ServiceTypes, UNCHANGED load, UNCHANGED serviceVars
    PROVE  ServiceTypes'
  BY MessagesKept DEF ServiceTypes, serviceVars

\* A step that only concerns requests.
LEMMA TextsKept ==
    ASSUME TextTypes, TextInv, UNCHANGED <<load, textVars, mimicVars, sent>>,
           transport' \in BOOLEAN
    PROVE  TextTypes' /\ TextInv'
  <1>1. UNCHANGED <<load, buffer, turnOf, flushLeft, mimic, choices, sent>>
    BY DEF textVars, mimicVars
  <1>2. TextTypes'
    BY <1>1, MessagesKept DEF TextTypes
  <1>. QED  BY <1>1, <1>2, TextKept

LEMMA ChannelsKept ==
    ASSUME ChannelTypes, UNCHANGED load, toRobot' \subseteq toRobot, toAgent' \subseteq toAgent
    PROVE  ChannelTypes'
  BY MessagesKept DEF ChannelTypes

LEMMA BridgeStep ==
    ASSUME IInv, BridgeNext, UNCHANGED <<echoVars, serviceVars>>
    PROVE  IInv'
  <1>. USE DEF IInv, TypeOK
  <1>1. load' = load /\ load \in Loads
    BY DEF BridgeNext, TextFrame, Flush, SetMimic, Request, DatagramReceived, Helper,
           WaitResponse, ReplyReturned, RequestTimesOut, Tick, Disconnect, TextTypes
  <1>2. EchoTypes' /\ VoiceInv' /\ ServiceTypes'
    BY <1>1, EchoKept, ServiceKept
  <1>3. performed' = performed
    BY DEF serviceVars
  <1>4. SUFFICES /\ ChannelTypes' /\ TextTypes' /\ RequestVarTypes'
                 /\ TextInv' /\ ChoiceInv' /\ ReplyInv'
    BY <1>2
  <1>5. ASSUME NEW t, TextFrame(t)
        PROVE  /\ ChannelTypes' /\ TextTypes' /\ RequestVarTypes'
               /\ TextInv' /\ ChoiceInv' /\ ReplyInv'
    <2>1. UNCHANGED <<load, choices, mimic, sent, toRobot, toAgent>> /\ UNCHANGED requestVars
      BY <1>5 DEF TextFrame, mimicVars, channels
    <2>2. RequestVarTypes' /\ ReplyInv'
      BY <2>1, RequestsKept DEF requestVars
    <2>3. TextTypes' /\ TextInv'
      BY <1>5, TextFrameStep
    <2>4. ChoiceInv'
      BY <1>3, <2>1, ChoiceKept
    <2>. QED  BY <2>1, <2>2, <2>3, <2>4, ChannelsKept
  <1>6. CASE Flush
    <2>1. Len(choices) <= load.choices
      BY DEF ChoiceInv
    <2>2. TextTypes' /\ TextInv' /\ ChoiceInv'
      BY <1>3, <1>6, <2>1, FlushStep, FlushChoice
    <2>3. RequestVarTypes' /\ ReplyInv'
      BY <1>1, <1>6, RequestsKept DEF Flush, requestVars
    <2>4. CASE buffer = <<>>
      BY <1>1, <1>6, <2>2, <2>3, <2>4, ChannelsKept DEF Flush
    <2>5. CASE buffer # <<>>
      <3>1. toAgent' = toAgent /\ toRobot' \subseteq toRobot \cup {MimicPayload}
        BY <1>6, <2>5 DEF Flush, SendToRobot
      <3>2. MimicPayload \in TextMessages
        BY <2>1, <2>5, PayloadType
      <3>3. ChannelTypes'
        BY <1>1, <3>1, <3>2, MessagesKept DEF ChannelTypes
      <3>. QED  BY <2>2, <2>3, <3>3
    <2>. QED  BY <2>4, <2>5
  <1>7. ASSUME NEW args \in Choices, SetMimic(args)
        PROVE  /\ ChannelTypes' /\ TextTypes' /\ RequestVarTypes'
               /\ TextInv' /\ ChoiceInv' /\ ReplyInv'
    <2>1. /\ UNCHANGED <<load, toRobot, toAgent, buffer, turnOf, sent>>
          /\ UNCHANGED requestVars
      BY <1>7 DEF SetMimic, textVars, channels
    <2>2. RequestVarTypes' /\ ReplyInv'
      BY <2>1, RequestsKept DEF requestVars
    <2>3. TextTypes' /\ ChoiceInv'
      BY <1>3, <1>7, SetMimicStep
    <2>4. TextInv'
      BY <2>1, TextKept
    <2>. QED  BY <2>1, <2>2, <2>3, <2>4, ChannelsKept
  <1>8. ASSUME NEW type \in load.kinds, Request(type)
        PROVE  /\ ChannelTypes' /\ TextTypes' /\ RequestVarTypes'
               /\ TextInv' /\ ChoiceInv' /\ ReplyInv'
    <2>. DEFINE new == [type |-> type]
    <2>1. /\ UNCHANGED <<load, textVars, mimicVars, sent, toAgent>>
          /\ transport' = transport /\ toRobot' \subseteq toRobot \cup {new}
      BY <1>8 DEF Request, SendToRobot
    <2>2. new \in RequestMessages /\ new.type # "LLMResponse"
      <3>1. load \in Loads
        BY <1>1 DEF TextTypes
      <3>2. type \in RequestTypes
        BY <1>8, <3>1, LoadType
      <3>. QED  BY <3>2 DEF RequestMessages, RequestTypes
    <2>. HIDE DEF new
    <2>3. ChannelTypes'
      BY <2>1, <2>2, MessagesKept DEF ChannelTypes
    <2>4. TextTypes' /\ TextInv'
      <3>1. transport' \in BOOLEAN
        BY <2>1 DEF TextTypes
      <3>. QED  BY <2>1, <3>1, TextsKept
    <2>5. RequestVarTypes' /\ ReplyInv'
      BY <1>1, <1>8, RequestStep
    <2>6. ChoiceInv'
      <3>1. UNCHANGED <<load, choices, mimic, sent>>
        BY <2>1 DEF mimicVars
      <3>2. \A m \in toRobot' \cup performed' :
               m.type = "LLMResponse" => m \in toRobot \cup performed
        BY <1>3, <2>1, <2>2
      <3>. QED  BY <3>1, <3>2, ChoiceKept
    <2>. QED  BY <2>3, <2>4, <2>5, <2>6
  <1>9. CASE (\E m \in toAgent : DatagramReceived(m)) \/ Helper
    <2>1. /\ UNCHANGED <<load, textVars, mimicVars, sent, transport, toRobot>>
          /\ toAgent' \subseteq toAgent
      BY <1>9 DEF DatagramReceived, TakenByAgent, Helper, WaitResponse, ReplyReturned,
                  RequestTimesOut, channels
    <2>2. TextTypes' /\ TextInv'
      <3>1. transport' \in BOOLEAN
        BY <2>1 DEF TextTypes
      <3>. QED  BY <2>1, <3>1, TextsKept
    <2>3. RequestVarTypes' /\ ReplyInv'
      BY <1>1, <1>9, DatagramStep, HelperStep
    <2>4. ChoiceInv'
      <3>1. UNCHANGED <<load, choices, mimic, sent>>
        BY <2>1 DEF mimicVars
      <3>. QED  BY <1>3, <2>1, <3>1, ChoiceKept
    <2>. QED  BY <2>1, <2>2, <2>3, <2>4, ChannelsKept
  <1>10. CASE Tick \/ Disconnect
    <2>1. UNCHANGED <<load, buffer, turnOf, mimic, choices, sent, toRobot, toAgent>>
      BY <1>10 DEF Tick, Disconnect, channels, mimicVars
    <2>2. transport' \in BOOLEAN
      BY <1>10 DEF Tick, Disconnect, TextTypes
    <2>3. flushLeft' \in NoTask .. Debounce
      BY <1>10, BridgeAssumption DEF Tick, Disconnect, Countdown, TextTypes, NoTask
    <2>4. TextTypes' /\ TextInv'
      <3>1. TextTypes'
        BY <2>1, <2>2, <2>3, MessagesKept DEF TextTypes
      <3>. QED  BY <2>1, <3>1, TextKept
    <2>5. RequestVarTypes' /\ ReplyInv'
      BY <1>1, <1>10, TimeStep
    <2>6. ChoiceInv'
      BY <1>3, <2>1, ChoiceKept
    <2>. QED  BY <2>1, <2>4, <2>5, <2>6, ChannelsKept
  <1>. QED  BY <1>5, <1>6, <1>7, <1>8, <1>9, <1>10 DEF BridgeNext, Choices

-----------------------------------------------------------------------------
(* The robot's side *)

LEMMA ServiceStep ==
    ASSUME IInv, ServiceNext, UNCHANGED <<echoVars, bridgeVars>>
    PROVE  IInv'
  <1>. USE DEF IInv, TypeOK
  <1>1. /\ UNCHANGED <<load, transport, buffer, turnOf, flushLeft, mimic, choices, sent>>
        /\ UNCHANGED requestVars
    BY DEF bridgeVars, textVars, mimicVars
  <1>2. EchoTypes' /\ VoiceInv'
    BY <1>1, EchoKept
  <1>3. TextTypes' /\ TextInv' /\ RequestVarTypes' /\ ReplyInv'
    <2>1. TextTypes' /\ TextInv'
      BY <1>1, MessagesKept, TextKept DEF TextTypes
    <2>. QED  BY <1>1, <2>1, RequestsKept DEF requestVars
  <1>4. SUFFICES ChannelTypes' /\ ServiceTypes' /\ ChoiceInv'
    BY <1>2, <1>3
  <1>5. ASSUME NEW m \in toRobot, ReceiveData(m)
        PROVE  ChannelTypes' /\ ServiceTypes' /\ ChoiceInv'
    <2>1. /\ toRobot' \subseteq toRobot /\ toAgent' = toAgent
          /\ haveReading' = haveReading /\ raced' = raced
          /\ performed' \subseteq performed \cup {m}
          /\ m.type # "LLMResponse" => performed' = performed
      BY <1>5 DEF ReceiveData, TakenByRobot
    <2>2. svcPc' \in {"serialise", "snapshot", "request"}
      BY <1>5 DEF ReceiveData, AfterReceive
    <2>3. performed' \subseteq TextMessages
      <3>1. m.type = "LLMResponse" => m \in TextMessages
        BY DEF ChannelTypes, RequestMessages, RequestTypes
      <3>. QED  BY <2>1, <3>1 DEF ServiceTypes
    <2>4. ServiceTypes'
      BY <1>1, <2>1, <2>2, <2>3, MessagesKept DEF ServiceTypes
    <2>5. ChoiceInv'
      BY <1>1, <2>1, ChoiceKept
    <2>. QED  BY <1>1, <2>1, <2>4, <2>5, ChannelsKept
  <1>6. CASE SendReading \/ SendSnapshot
    <2>1. /\ toRobot' = toRobot /\ performed' = performed /\ svcPc' \in {"request", "crashed"}
          /\ haveReading' = haveReading /\ raced' \in {raced, FALSE}
      BY <1>6 DEF SendReading, SendSnapshot
    <2>2. PICK type \in {"SensorData", "CameraSnapShotResponse"} :
             toAgent' \subseteq toAgent \cup {Reply(type)}
      BY <1>6 DEF SendReading, SendSnapshot, SendToAgent
    <2>3. Reply(type) \in Replies
      BY DEF Reply, Replies
    <2>4. ChannelTypes'
      BY <1>1, <2>1, <2>2, <2>3, MessagesKept DEF ChannelTypes
    <2>5. ServiceTypes'
      BY <1>1, <2>1, MessagesKept DEF ServiceTypes
    <2>6. ChoiceInv'
      BY <1>1, <2>1, ChoiceKept
    <2>. QED  BY <2>4, <2>5, <2>6
  <1>7. CASE Start \/ ReceiveTimesOut \/ RequestReading \/ StoreReading
    <2>1. UNCHANGED <<toRobot, toAgent, performed>> /\ haveReading' \in {haveReading, TRUE}
      BY <1>7 DEF Start, ReceiveTimesOut, RequestReading, StoreReading, channels
    <2>2. raced' \in BOOLEAN
      BY <1>7 DEF Start, ReceiveTimesOut, RequestReading, StoreReading, ServiceTypes
    <2>3. svcPc' \in {"receive", "failed", "request", svcPc}
      BY <1>7 DEF Start, ReceiveTimesOut, RequestReading, StoreReading
    <2>4. ServiceTypes'
      BY <1>1, <2>1, <2>2, <2>3, MessagesKept DEF ServiceTypes
    <2>5. ChoiceInv'
      BY <1>1, <2>1, ChoiceKept
    <2>. QED  BY <1>1, <2>1, <2>4, <2>5, ChannelsKept
  <1>. QED  BY <1>5, <1>6, <1>7 DEF ServiceNext

-----------------------------------------------------------------------------
(* The whole *)

\* A step of the voice, or none, leaves the bridge and the service alone.
LEMMA OthersKept ==
    ASSUME IInv, UNCHANGED <<channels, bridgeVars, serviceVars>>
    PROVE  /\ ChannelTypes' /\ TextTypes' /\ RequestVarTypes' /\ ServiceTypes'
           /\ TextInv' /\ ChoiceInv' /\ ReplyInv'
  <1>. USE DEF IInv, TypeOK
  <1>1. /\ UNCHANGED <<load, transport, textVars, mimicVars, sent, toRobot, toAgent>>
        /\ UNCHANGED requestVars
    BY DEF bridgeVars, channels
  <1>2. TextTypes' /\ TextInv'
    <2>1. transport' \in BOOLEAN
      BY <1>1 DEF TextTypes
    <2>. QED  BY <1>1, <2>1, TextsKept
  <1>3. performed' = performed /\ mimic' = mimic /\ choices' = choices
    BY <1>1 DEF serviceVars, mimicVars
  <1>4. RequestVarTypes' /\ ReplyInv'
    BY <1>1, RequestsKept DEF requestVars
  <1>5. ChoiceInv'
    BY <1>1, <1>3, ChoiceKept
  <1>. QED  BY <1>1, <1>2, <1>4, <1>5, ChannelsKept, ServiceKept

LEMMA NextIInv ==
    ASSUME IInv, [Next]_vars PROVE IInv'
  <1>1. CASE BridgeNext /\ UNCHANGED <<echoVars, serviceVars>>
    BY <1>1, BridgeStep
  <1>2. CASE ServiceNext /\ UNCHANGED <<echoVars, bridgeVars>>
    BY <1>2, ServiceStep
  <1>3. CASE Echo(EchoNext)
    <2>1. UNCHANGED <<channels, bridgeVars, serviceVars>> /\ EchoNext /\ sounds' <= load.sounds
      BY <1>3 DEF Echo
    <2>2. UNCHANGED load /\ load.sounds \in Nat
      BY <2>1, LoadType DEF bridgeVars, IInv, TypeOK, TextTypes
    <2>3. EchoTypes' /\ VoiceInv'
      BY <2>1, <2>2, EchoStep DEF IInv, TypeOK
    <2>. QED  BY <2>1, <2>3, OthersKept DEF IInv, TypeOK
  <1>4. CASE UNCHANGED vars
    <2>1. UNCHANGED <<channels, bridgeVars, serviceVars>> /\ UNCHANGED echoVars /\ UNCHANGED load
      BY <1>4 DEF vars, bridgeVars
    <2>. QED  BY <2>1, OthersKept, EchoKept DEF IInv, TypeOK
  <1>. QED  BY <1>1, <1>2, <1>3, <1>4 DEF Next

LEMMA InitIInv == Init => IInv
  <1>. SUFFICES ASSUME Init PROVE IInv
    OBVIOUS
  <1>1. /\ load \in Loads /\ load.pieces \in Nat /\ load.choices \in Nat
        /\ load.requests \in Nat /\ load.sounds \in Nat
    BY LoadType DEF Init, BridgeInit
  <1>2. ChannelTypes /\ ServiceTypes
    BY DEF Init, ServiceInit, ChannelTypes, ServiceTypes, NoReply
  <1>3. TextTypes
    BY <1>1, BridgeAssumption, EmptySeq DEF Init, BridgeInit, TextTypes, NoMimic, NoTask
  <1>4. RequestVarTypes
    <2>1. 0 \in 0 .. load.requests /\ NoTask \in NoTask .. RecvTimeout
      BY <1>1, BridgeAssumption DEF NoTask
    <2>. QED  BY <2>1 DEF Init, BridgeInit, RequestVarTypes
  <1>5. EchoTypes /\ VoiceInv
    <2>1. 0 \in 0 .. load.sounds /\ 0 \in 0 .. MaxSpeaking + 1 /\ 0 \in 0 .. IgnoreAfter
      BY <1>1, EchoAssumption
    <2>. QED  BY <2>1, EmptySeq DEF Init, EchoInit, EchoTypes, VoiceInv
  <1>7. TextInv
    BY <1>1 DEF Init, BridgeInit, TextInv, TextConserved, GoesOn, LastFrame
  <1>8. ChoiceInv
    <2>1. /\ sent = <<>> /\ choices = <<>> /\ toRobot = {} /\ performed = {}
          /\ mimic = NoMimic
      BY DEF Init, BridgeInit, ServiceInit
    <2>2. Len(sent) = 0 /\ Len(choices) = 0
      BY <2>1
    <2>3. Pending = DefaultGesture /\ SeenBefore(Len(sent) + 1) = 0
      BY <2>1, <2>2 DEF Pending, DefaultGesture, NoMimic, SeenBefore
    <2>4. IsWanted(choices, DefaultGesture, 0, 0)
      BY WantedNone
    <2>. QED  BY <1>1, <2>1, <2>2, <2>3, <2>4 DEF ChoiceInv
  <1>9. ReplyInv
    BY DEF Init, BridgeInit, ReplyInv, ReplyIsNew
  <1>. QED  BY <1>2, <1>3, <1>4, <1>5, <1>7, <1>8, <1>9 DEF IInv, TypeOK

LEMMA VoiceAgentInvariance == Spec => []IInv
  <1>1. IInv /\ [Next]_vars => IInv'
    BY NextIInv
  <1>. QED  BY InitIInv, <1>1, PTL DEF Spec

\* Every variable of the agent, of the service and of the datagrams between them
\* keeps its type, whatever is lost or late.
THEOREM VoiceAgentTypeCorrect == Spec => []TypeOK
  <1>1. IInv => TypeOK
    BY DEF IInv
  <1>. QED  BY VoiceAgentInvariance, <1>1, PTL

\* _buffer and _flush_task: however the frames of the model and the restarts of
\* the silence interleave, the responses and the buffer hold each frame once and
\* in order.
THEOREM TextIsConserved == Spec => []TextConserved
  <1>1. IInv => TextConserved
    BY DEF IInv, TextInv
  <1>. QED  BY VoiceAgentInvariance, <1>1, PTL

\* set_mimic_handler, make_llm_response_payload and makeMimic: what the robot
\* performs for a response is the last gesture that was chosen since the response
\* before it.
THEOREM ChosenIsPerformed == Spec => []ChosenMimicPerformed
  <1>1. ASSUME IInv PROVE ChosenMimicPerformed
    <2>. SUFFICES ASSUME NEW m \in performed
                  PROVE  Gesture(m) = Wanted(IF m.n = 1 THEN 0 ELSE sent[m.n - 1].seen, m.seen)
      BY DEF ChosenMimicPerformed
    <2>1. TextTypes /\ ChoiceInv /\ m.type = "LLMResponse"
      BY <1>1 DEF IInv, TypeOK, ServiceTypes, TextMessages
    <2>2. m.n \in 1 .. Len(sent) /\ m = sent[m.n]
      BY <2>1 DEF ChoiceInv
    <2>3. PICK k \in 1 .. Len(sent) : k = m.n /\ m = sent[k]
      BY <2>2
    <2>4. PICK after \in Nat : after = SeenBefore(k)
      BY <2>1, SeenType
    <2>5. PICK upTo \in Nat : upTo = m.seen
      BY <2>1, <2>3, SeenType
    <2>6. IsWanted(choices, Gesture(m), after, upTo)
      BY <2>1, <2>3, <2>4, <2>5 DEF ChoiceInv
    <2>7. Gesture(m) = Wanted(after, upTo)
      BY <2>6, WantedUnique
    <2>. QED  BY <2>3, <2>4, <2>5, <2>7 DEF SeenBefore
  <1>. QED  BY VoiceAgentInvariance, <1>1, PTL

\* _clear_response and datagram_received: whatever is late or repeated and however
\* many requests wait at once, none returns a datagram that came before it.
THEOREM RepliesAreNew == Spec => []ReplyIsNew
  <1>1. IInv => ReplyIsNew
    BY DEF IInv, ReplyInv
  <1>. QED  BY VoiceAgentInvariance, <1>1, PTL

\* EchoSuppressionProcessor: for any limit of a voice and any time to ignore, no
\* audio frame passes while the agent's own voice is known to play.
THEOREM OwnVoiceStaysOut == Spec => []OwnVoiceNotHeard
  <1>1. ASSUME IInv PROVE OwnVoiceNotHeard
    <2>1. speakingFor \in Int /\ playedFor \in Int /\ MaxSpeaking \in Int
      BY <1>1, EchoAssumption DEF IInv, TypeOK, EchoTypes
    <2>. QED  BY <1>1, <2>1 DEF IInv, VoiceInv, OwnVoiceNotHeard, Passes, Stuck
  <1>. QED  BY VoiceAgentInvariance, <1>1, PTL
=============================================================================
