SPECIFICATION Spec
CONSTANTS
    Commands = {"turn", "cancel", "barge_in", "capture_started", "voice_turn",
                "speech"}
    InboxCapacity = 2
    OutboxCapacity = 2
    MaxGen = 2
    MaxSegments = 1
    None = None
INVARIANTS TypeOK NoIllegalTransition RunningTurnOwnsState NoOlderSpeechSent AnswerIsTrue
CHECK_DEADLOCK FALSE
