SPECIFICATION Spec
CONSTANTS
  Platforms <- MCPlatforms
  Faults <- MCNone
  Layers <- MCLayers
  Textures <- MCTextures
  Images <- MCImages
  Sizes <- MCSizes
  Needs <- MCNeeds
  Intervals <- MCIntervals
INVARIANTS TypeOK DriverSilent FrameWhole NothingLeft PresentsPaced
CHECK_DEADLOCK FALSE
