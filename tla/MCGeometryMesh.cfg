SPECIFICATION MCSpec
CONSTANTS
  Regions <- MCFaces
  Files <- MCFiles
  Class <- MCClass
  Soups <- MCSoups
  Options <- MCOptions
  Position <- MCPosition
  Tolerance = 8
  Feature = 12
  MaxInner = 2
  Machines = {"mesh"}
INVARIANT
  MergedStaysSimple
