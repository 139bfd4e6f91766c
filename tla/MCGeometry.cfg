SPECIFICATION MCSpec
CONSTANTS
  Regions <- MCFaces
  Files <- MCFiles
  Class <- MCClass
  Soups <- MCSoups
  Options <- MCOptions
  Position <- MCPosition
  Tolerance = 8
  Feature = 12
  MaxInner = 2
  Machines = {"trim", "heal", "step", "planar", "mesh", "spline"}
INVARIANTS
  WalkIsExact
  WalkComesHome
  NestingIsExact
  HealedIsOriented
  HealedStaysNear
  TightSoupsHeal
  PlacedAlongRoutes
  AcceptsForests
  TreesKnowTheirSolids
  TreesLeaveTheBoundary
  AcceptedIsExact
  ProperPairsAreAnswered
  TilesTheRegion
  LinksAgree
  KeepsItsShape
  AddedIsUndone
  SectionsMatch
PROPERTY LoopEdgesStay
