SPECIFICATION Spec
CONSTANTS
    Producers = {p1, p2}
    Priorities = {0, 1, 2}
    Keys = {k}
    NoKey = NoKey
    NotWaiting = NotWaiting
    Capacity = 2
    Policies = {"drop_lowest", "coalesce"}
    MaxPuts = 4
INVARIANTS TypeOK Bounded WakeupsNotLost Accounted
PROPERTIES TopPriorityKept WaitersReleased KeepsPromise
