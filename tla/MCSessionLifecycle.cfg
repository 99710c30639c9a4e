SPECIFICATION Spec
CONSTANTS
    Children = {c1, c2, c3}
    Stoppers = {s1, s2}
    MaxMessages = 2
    MaxFailures = 1
INVARIANTS TypeOK StoppedIsQuiet StopReturnsStopped EndedActorIsNotRunning
PROPERTIES OutcomeIsFinal FailureRecorded StopEndsSession
CHECK_DEADLOCK FALSE
