SPECIFICATION Spec
CONSTANTS
  office = office
  bonnie = bonnie
  footstep = footstep
  c1 = c1
  c2 = c2
  None = None
  Times <- MCTimes
  Callers <- MCCallers
  Scenes <- MCScenes
  Entities <- MCEntities
  Sounds <- MCSounds
  MaxEvents = 4
INVARIANTS OldSightingsAreNotCurrent
CHECK_DEADLOCK FALSE
