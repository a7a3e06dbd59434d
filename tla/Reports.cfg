SPECIFICATION ReportSpec
CONSTANTS
  Evaluators = {r, e}
  Reporters = {r}
  Kinds = {"page", "file"}
  Languages = {"tr"}
  Parameters = {1}
  Scope <- Shared
  Circuits = {1}
  Snapshots <- InTwoPhases
  FirstSamples <- SomeSamples
  LateSamples <- OneLate
  Context = 1
  Horizon = 4
  MaxMonths = 1
  MaxEdits = 0
  MaxCrashes = 1
INVARIANT HeadMatchesTables
INVARIANT FailedIsListed
INVARIANT ListedIsMarked
INVARIANT AverageInRange
INVARIANT SheetsAgree
INVARIANT PathHasFile
