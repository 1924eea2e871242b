--------------------------- MODULE EchoSuppression ---------------------------
(***************************************************************************)
(* EchoSuppressionProcessor of the voice agent (voiceAgent/voiceAgent.py), *)
(* which keeps the microphone shut while the agent's own voice is played,  *)
(* and opens it when no end of the voice was reported for too long.  The   *)
(* reports travel through the pipeline in order, but late; the last of the *)
(* two kinds may not come at all.                                          *)
(***************************************************************************)
EXTENDS Integers, Sequences

CONSTANTS
    MaxSpeaking,   \* MAX_BOT_SPEAKING_SECS
    IgnoreAfter    \* the 0.35 s for which audio is ignored after the voice

ASSUME EchoAssumption == MaxSpeaking \in Nat \ {0} /\ IgnoreAfter \in Nat

VARIABLES
    botSpeaking,   \* _bot_speaking
    speakingFor,   \* time since _bot_speaking_since, while botSpeaking
    ignoreLeft,    \* what is left until _ignore_audio_until
    playing,       \* the loudspeaker plays the agent's voice
    playedFor,     \* for how long it has
    frames,        \* reports of the output on their way to the processor
    interrupted,   \* history: the user broke in since the voice began
    sounds         \* history: voices and interruptions so far

echoVars == <<botSpeaking, speakingFor, ignoreLeft, playing, playedFor, frames,
              interrupted, sounds>>

EchoInit ==
    /\ botSpeaking = FALSE /\ speakingFor = 0 /\ ignoreLeft = 0
    /\ playing = FALSE /\ playedFor = 0 /\ frames = <<>>
    /\ interrupted = FALSE /\ sounds = 0

-----------------------------------------------------------------------------
(* The output of the pipeline (external) *)

StartPlaying ==
    /\ ~playing /\ Len(frames) < 2
    /\ playing' = TRUE /\ playedFor' = 0 /\ interrupted' = FALSE
    /\ frames' = Append(frames, "started")
    /\ sounds' = sounds + 1
    /\ UNCHANGED <<botSpeaking, speakingFor, ignoreLeft>>

StopPlaying ==
    /\ playing /\ Len(frames) < 2
    /\ playing' = FALSE /\ playedFor' = 0
    /\ frames' \in {frames, Append(frames, "stopped")}
    /\ UNCHANGED <<botSpeaking, speakingFor, ignoreLeft, interrupted, sounds>>

-----------------------------------------------------------------------------
(* process_frame *)

\* Seeded fault: a voice that follows one without an end inherits its age.
AgeAtStart_Kept == speakingFor
\* _bot_speaking_since = time.monotonic()
AgeAtStart == 0

BotStarted ==
    /\ frames # <<>> /\ Head(frames) = "started"
    /\ frames' = Tail(frames)
    /\ botSpeaking' = TRUE /\ speakingFor' = AgeAtStart
    /\ UNCHANGED <<ignoreLeft, playing, playedFor, interrupted, sounds>>

BotStopped ==
    /\ frames # <<>> /\ Head(frames) = "stopped"
    /\ frames' = Tail(frames)
    /\ botSpeaking' = FALSE /\ speakingFor' = 0 /\ ignoreLeft' = IgnoreAfter
    /\ UNCHANGED <<playing, playedFor, interrupted, sounds>>

\* InterruptionFrame starts the time to ignore, UserStartedSpeakingFrame does not.
Interruption ==
    /\ botSpeaking' = FALSE /\ speakingFor' = 0
    /\ ignoreLeft' \in {ignoreLeft, IgnoreAfter}
    /\ interrupted' = TRUE /\ sounds' = sounds + 1
    /\ UNCHANGED <<playing, playedFor, frames>>

\* Seeded fault: the time of a voice whose end was not reported has no limit.
Stuck_Never == FALSE
Stuck == speakingFor > MaxSpeaking

\* An audio frame of the microphone is passed on in this state.
Passes == ~(botSpeaking /\ ~Stuck) /\ ignoreLeft = 0

\* InputAudioRawFrame: the safety valve.
AudioFrame ==
    /\ botSpeaking /\ Stuck
    /\ botSpeaking' = FALSE /\ speakingFor' = 0
    /\ UNCHANGED <<ignoreLeft, playing, playedFor, frames, interrupted, sounds>>

\* Time passes; beyond the limit it is not counted.
EchoTick ==
    LET Older(age) == IF age <= MaxSpeaking THEN age + 1 ELSE age
    IN  /\ botSpeaking \/ playing \/ ignoreLeft > 0
        /\ speakingFor' = IF botSpeaking THEN Older(speakingFor) ELSE 0
        /\ playedFor' = IF playing THEN Older(playedFor) ELSE 0
        /\ ignoreLeft' = IF ignoreLeft > 0 THEN ignoreLeft - 1 ELSE 0
        /\ UNCHANGED <<botSpeaking, playing, frames, interrupted, sounds>>

EchoNext ==
    \/ StartPlaying \/ StopPlaying \/ BotStarted \/ BotStopped \/ Interruption
    \/ AudioFrame \/ EchoTick

-----------------------------------------------------------------------------
\* The microphone hears nothing of a voice that is played, from the time its
\* beginning was reported, whatever the voices before it left behind (an end
\* that was not reported, a time to ignore), unless the user breaks in or the
\* voice is longer than the limit.
OwnVoiceNotHeard ==
    playing /\ frames = <<>> /\ ~interrupted /\ playedFor <= MaxSpeaking => ~Passes
=============================================================================
