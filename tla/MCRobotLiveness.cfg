\* Everything the handlers accept is posted, and the tracker never stops.
SPECIFICATION FairSpec
CONSTANTS
    Commands <- AnySourceCommands
    PostedTypes <- AllTypes
    Continuous <- Tracker
    MaxPosts = 1
    MaxQueue = 2
    Timeout = 3
    Slack = 1
    EntryDelay = 1
PROPERTIES
    TuiSessionEnds
    ExpressionSessionEnds
