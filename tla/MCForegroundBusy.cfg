SPECIFICATION Spec
CONSTANTS
    Commands = {"turn", "cancel"}
    InboxCapacity = 2
    OutboxCapacity = 1
    MaxGen = 2
    MaxSegments = 1
    None = None
INVARIANT BusyImpliesLiveTurn
CHECK_DEADLOCK FALSE
