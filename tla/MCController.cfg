\* Two publishers, three commands, one stop and restart.
SPECIFICATION Spec
CONSTANTS
    Publishers <- TuiAndTracker
    Console = "tui"
    Fields <- SourceAndJoint
    MaxPublished = 3
    MaxStops = 1
INVARIANTS
    StopIsComplete
PROPERTIES
    ImplementsMailbox
    WaitingCommandPosted
