SPECIFICATION Spec
CONSTANTS
  game = game
  desktop = desktop
  None = None
  History = 3
  Warmup = 2
  Percent = 50
  Trigger = 6
  Durations <- MCAlike
  Levels <- MCAlike
  Streams <- MCStreams
  MaxSequence = 3
  MaxMessages = 4
INVARIANTS SequenceIncreasesPerStream
CHECK_DEADLOCK FALSE
