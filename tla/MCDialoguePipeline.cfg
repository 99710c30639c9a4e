SPECIFICATION FairSpec
CONSTANTS
  MaxSegmentChars = 4
  Deltas <- MCDeltas
  MaxDeltas = 2
  MaxChunks = 2
  MaxSegments = 3
  SegmentCapacity = 1
  MaxSynthesis = 2
  AudioCapacity = 1
INVARIANTS TypeOK TextKept SlotsAccounted
PROPERTIES StreamInOrder RunEventuallyEnds
