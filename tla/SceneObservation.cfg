SPECIFICATION SceneSpec
CONSTANTS
  Nothing = Nothing
  RoiPixels <- MCPixels
  Grays <- MCGrays
  Pipelines <- MCPipelines
  Rois <- MCRois
  Pictures <- MCPictures
  Cameras = {"CAM1A", "CAM1C"}
  TitleScores <- MCTitleScores
  MinimumScore = 6000
  MinimumMargin = 1200
  Threshold = 6200
  MinScoreMargin = 500
  PixelThreshold = 18
  BackgroundThreshold = 12
INVARIANTS ReferencesAreRecognized PresentBeatsEveryNegative OrderDoesNotDecide ReportsWhatWasLocated
