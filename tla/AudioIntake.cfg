SPECIFICATION Spec
CONSTANTS
  game = game
  desktop = desktop
  None = None
  History = 3
  Warmup = 2
  Percent = 25
  Trigger = 6
  Durations <- MCDurations
  Levels <- MCLevels
  Streams <- MCStreams
  MaxSequence = 3
  MaxMessages = 3
INVARIANTS GapsAccountedFor ServedInWriteOrder BufferIsRecent CandidateIsLoudRun
PROPERTIES BaselineStaysReady
CHECK_DEADLOCK FALSE
