SPECIFICATION FairSpec
CONSTANTS
  Configs <- MCConfigs
  FrameDuration = 2
  FrameBytes = 2
  MaxFrames = 5
  MaxStreams = 2
  MaxPending = 1
  MaxRevision = 2
INVARIANTS UtteranceWellFormed
PROPERTIES NewestSpeechWins UtteranceSettles
