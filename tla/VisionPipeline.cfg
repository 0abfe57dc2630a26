CONSTANT MaxFrames = 4
SPECIFICATION FairSpec
INVARIANTS
  FramesConserved
  AnnotationFollowsItsAck
  NoLostWakeup
PROPERTIES
  RunTakesNewestFrame
  PromiseKept
  NewestFrameIsAnswered
  IntakeIsReleased
