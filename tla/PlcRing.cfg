SPECIFICATION Spec
CONSTANTS
  Capacity = 3
  Sources = {TRUE, FALSE}
  ClientWrites <- AllWrites
  MaxSeq = 5
  MaxUnix = 1
  MaxEnergy = 1
  MaxWrites = 1
  MaxRestarts = 1
INVARIANT SlotOfSequence
INVARIANT WireConsistent
PROPERTY KeepsWindow
