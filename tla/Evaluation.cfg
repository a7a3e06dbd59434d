SPECIFICATION Spec
CONSTANTS
  Evaluators = {e1, e2}
  Parameters = {1, 2}
  Scope <- TwoScopes
  Circuits = {2, 3}
  Snapshots <- SomeSnapshots
  FirstSamples <- SomeSamples
  LateSamples <- OneLate
  MaxEdits = 1
  MaxCrashes = 1
SYMMETRY EvaluatorSymmetry
INVARIANTS OneRowEach NoRowMissing VerdictOfSamples ShownDecides
