CONSTANTS
  Supervisors = {w1, w2}
  Starters = {o1}
  Aborters = {}
  Viewers = {}
  Deleters = {}
  Recipes <- OneRecipe
  LossLimit = 1
  PollResults = {"ok", "lost"}
  TicksPerSecond = 1
  MaxTests = 1
  MaxTime = 2
  MaxCrashes = 1
SPECIFICATION SlidingSpec
PROPERTIES ActiveTestEnds StartPulseEnds
