SPECIFICATION Spec
CONSTANTS
  a = a
  b = b
  Threads = {a, b}
  Nowhere = Nowhere
  ReferenceWidth = 40
  ReferenceHeight = 18
  Unit = 20
  Sizes <- MCSizes
  Views <- MCViews
  WorldRois <- MCRois
  Entities <- MCEntities
  CoarseStep = 4
  RefineStep = 3
  MaxPanJump = 12
  MaxAnchorError = 3
  Blur = 5
  Patience = 2
SYMMETRY Symmetry
INVARIANTS PanFitsItsFrame SearchNeverRaises StillViewIsFound WorldRoiIsAligned
  HintHoldsEvidence
