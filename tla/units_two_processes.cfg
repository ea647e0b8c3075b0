CONSTANTS
  Instances = {p1, p2}
  Captures = {c1, c2}
  Dissatisfied = {c1}
  Limit = 2
  Capacity = 2
  MaxOther = 1
SPECIFICATION FairSpec
INVARIANTS
  AbsorbedInLogOrder CoherentMemory HandedOffOnce
PROPERTIES
  KeepsPromise EveryUnitConfirmed
