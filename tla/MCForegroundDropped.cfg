SPECIFICATION Spec
CONSTANTS
    Commands = {"turn", "neutral"}
    InboxCapacity = 2
    OutboxCapacity = 1
    MaxGen = 2
    MaxSegments = 1
    None = None
PROPERTIES AcceptedTurnNotDropped
CHECK_DEADLOCK FALSE
