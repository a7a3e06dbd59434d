SPECIFICATION Spec
CONSTANTS
  Capacity = 100
  Sources = {TRUE}
  ClientWrites <- JustStart
  MaxSeq = 0
  MaxUnix = 0
  MaxEnergy = 0
  MaxWrites = 1
  MaxRestarts = 0
INVARIANT LevelsHold
