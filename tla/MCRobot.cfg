SPECIFICATION Spec
CONSTANTS
    Commands <- ServiceCommands
    PostedTypes <- NoTypes
    Continuous <- NoSources
    MaxPosts = 2
    MaxQueue = 2
    Timeout = 3
    Slack = 1
    EntryDelay = 1
INVARIANTS
    WatchdogArmed
    WatchdogUnique
    EnableMatchesState
PROPERTIES
    WakeCommandExecuted
    TuiExclusive
    ActiveSessionKept
