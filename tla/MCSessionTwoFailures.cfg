SPECIFICATION Spec
CONSTANTS
    Children = {c1, c2, c3}
    Stoppers = {s1}
    MaxMessages = 2
    MaxFailures = 2
INVARIANT EndedActorIsNotRunning
CHECK_DEADLOCK FALSE
