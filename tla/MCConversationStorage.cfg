CONSTANTS
  MaxTurns = 2
  MaxFaults = 1
  RecorderCapacity = 2
  MaxMessages = 2
  MaxChars = 7
  MaxMessageChars = 2
  Envelope = 2
  Header = 1
  MessageChars <- MCMessageChars
SPECIFICATION FairSpec
INVARIANTS HistoryComplete StopIsQuiet
PROPERTY StorageSettles
