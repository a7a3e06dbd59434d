SPECIFICATION FairSpec
CONSTANTS
  Pollers = {p1}
  Syncers = {s1}
  Capacity = 2
  BatchSize = 1
  Recipe <- ShortRecipe
  LossLimit = 1
  MaxTests = 1
  MaxTime = 0
  MaxSeq = 1
  MaxRestarts = 1
  MaxCuts = 1
  MaxCrashes = 1
PROPERTIES ConnectionRecovers LossNoticed StoreKeepsUp
