SPECIFICATION FairSpec
CONSTANTS
  Recipe <- ShortRecipe
  Context = 1
  HistoryLength = 1
  Throttle = 2
  MaxTests = 2
  MaxTime = 2
  Traces <- StopAndGo
INVARIANTS TypeOK PointsInOrder BandsMatchPoints DrawsOwnTest
PROPERTIES EndNoticed
