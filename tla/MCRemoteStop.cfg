SPECIFICATION Spec
CONSTANTS
    MaxClients = 1
    MaxStored = 1
    MaxStops = 1
PROPERTY
    StopReturns
CHECK_DEADLOCK FALSE
