CONSTANTS
  i1 = i1
  i2 = i2
  c1 = c1
  c2 = c2
  f1 = f1
  f2 = f2
  Inputs = {i1, i2}
  Fibers = {f1, f2}
  Callers = {c1, c2}
  Calls = {}
  MaxSteps = 1
SPECIFICATION FairSpec
INVARIANTS
  OneDrain NoLostWakeup
PROPERTIES
  OwedIsServed KeepsPromise
