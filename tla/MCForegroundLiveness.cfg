SPECIFICATION FairSpec
CONSTANTS
    Commands = {"turn", "cancel", "voice_turn", "barge_in", "capture_started", "capture_stopped", "partial"}
    InboxCapacity = 1
    OutboxCapacity = 1
    MaxGen = 2
    MaxSegments = 1
    None = None
INVARIANTS MicrophoneAgrees CaptureNotLost
PROPERTIES CancelGetsThrough SupersededWorkEnds
CHECK_DEADLOCK FALSE
