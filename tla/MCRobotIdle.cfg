SPECIFICATION Spec
CONSTANTS
    Commands <- ServiceCommands
    PostedTypes <- NoTypes
    Continuous <- NoSources
    MaxPosts = 1
    MaxQueue = 2
    Timeout = 3
    Slack = 1
    EntryDelay = 1
INVARIANT
    MotorsStoppedWhenIdle
