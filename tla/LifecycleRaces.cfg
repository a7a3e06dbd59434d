CONSTANTS
  Supervisors = {w1, w2}
  Starters = {o1, o2}
  Aborters = {o1}
  Viewers = {o1}
  Deleters = {o2}
  Recipes <- ShortRecipe
  LossLimit = 1
  PollResults = {"ok"}
  TicksPerSecond = 2
  MaxTests = 2
  MaxTime = 2
  MaxCrashes = 0
SPECIFICATION Spec
INVARIANTS TestNoUnique
PROPERTIES KeepsPromise AbortSettles
SYMMETRY WorkerSymmetry
