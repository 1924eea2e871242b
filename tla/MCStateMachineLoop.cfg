\* Three events from outside and two delayed ones.
SPECIFICATION LoopSpec
CONSTANTS
    MaxPosts = 3
    MaxTimers = 2
INVARIANTS
    NoLostWakeup
PROPERTIES
    EventHandled
    TimerFires
    StopReturnsWithTimer
\* The machine stops for good: callerPc = "stopped".
CHECK_DEADLOCK FALSE
