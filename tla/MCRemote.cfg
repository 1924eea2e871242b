SPECIFICATION Spec
CONSTANTS
    MaxClients = 2
    MaxStored = 4
    MaxStops = 1
INVARIANTS
    MessageHasHandle
PROPERTIES
    ImplementsMailbox
    WaitingMessageHandled
CHECK_DEADLOCK FALSE
