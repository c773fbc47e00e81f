SPECIFICATION CanvasSpec
CONSTANTS
  GroupMax = 2
  LayerMax = 4
  SavedMax = 4
  Backends = {"gtk", "android", "win32"}
  Figures <- MCFigures
  Scenes <- MCScenes
  MaxWeight = 5
  MaxGen = 2
  Sizes = {1, 2}
  ResizeUnderClip = FALSE
  OneClipPerPaint = TRUE
INVARIANTS InkAgrees ReadsWhatIsListed
CHECK_DEADLOCK FALSE
