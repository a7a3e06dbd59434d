SPECIFICATION Spec
CONSTANTS
  Pollers = {p1}
  Syncers = {s1}
  Capacity = 1
  BatchSize = 2
  Recipe <- ShortRecipe
  LossLimit = 1
  MaxTests = 2
  MaxTime = 1
  MaxSeq = 2
  MaxRestarts = 0
  MaxCuts = 0
  MaxCrashes = 0
INVARIANTS SamplesGenuine
