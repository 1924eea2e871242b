\* Two joints near the ends of the range of uint8_t, two commands, two crashes.
SPECIFICATION Spec
CONSTANTS
    JointOrder <- TwoJoints
    Defaults <- ShortDefaults
    Commands <- AroundByteRange
    MaxMoves = 2
    MaxCrashes = 2
    Cut = Cut
INVARIANTS
    TypeOK
    SavedPoseMatches
PROPERTY NoJump
