SPECIFICATION Spec
CONSTANT MaxInputs = 2
CONSTANT Ordered = {"Expression"}
INVARIANTS TypeOK NoCircularWait RemoteHasBody
CHECK_DEADLOCK FALSE
