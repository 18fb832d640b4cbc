SPECIFICATION MCSpec
CONSTANTS
  Sizes <- MCSizes
  Kept = {2}
  MaxDeferred = 2
INVARIANTS
  ServicesInOrder
  ResultIsTrue
  ArtifactsKept
  CapturedApart
  ResultIsTheWorkers
  NothingKillableLeft
PROPERTY LaunchReturns
