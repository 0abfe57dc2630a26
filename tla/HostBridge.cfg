SPECIFICATION FairSpec
CONSTANTS
  SafeCapture = TRUE
  MaxFrames = 3
INVARIANTS AnnotationsArePunctual
PROPERTIES OneEndsAll
CHECK_DEADLOCK FALSE
