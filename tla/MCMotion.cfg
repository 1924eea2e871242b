SPECIFICATION Spec
CONSTANTS
    FullUp <- MCFullUp
    FullDown <- MCFullDown
    Idle <- MCIdle
    BodySticks <- MCBodySticks
    HeadSticks <- MCHeadSticks
    Percents <- MCPercents
    Poses <- MCPoses
    MaxCommands = 2
INVARIANTS
    TypeOK
    WheelsFollowStick
    PulseInInterval
PROPERTIES
    HeadFollowsStick
