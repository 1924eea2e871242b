SPECIFICATION Spec
CONSTANTS
    PacketPieces = 2
    Debounce = 1
    RecvTimeout = 1
    MaxSpeaking = 2
    IgnoreAfter = 1
    Loads <- FiveLoads
INVARIANTS
    TypeOK
    TextConserved
    ChosenMimicPerformed
    ReplyIsNew
    OwnVoiceNotHeard
PROPERTIES
    TextSent
    MicrophoneOpens
    DeliveredIsPerformed
CHECK_DEADLOCK FALSE
