CONSTANTS
  p1 = p1
  p2 = p2
  miss = miss
  Instances = {p1, p2}
  Signals = {1, 2}
  KeyOf <- OneQuestion
  Ops = {1, 2}
  Verdicts = {1}
  Finished = {1}
  DailyCap = 1
  MaxAttempts = 2
  MaxApply = 2
  MaxTasks = 2
  MaxDay = 2
SPECIFICATION Spec
SYMMETRY Symm
INVARIANTS
  OperationExactlyOnce RunsCounted BoundFitsPayload
PROPERTIES
  DoneMeansApplied NoStrayOperation
