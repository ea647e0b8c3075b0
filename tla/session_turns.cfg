CONSTANTS
  i1 = i1
  i2 = i2
  c1 = c1
  c2 = c2
  f1 = f1
  f2 = f2
  Inputs = {i1, i2}
  Fibers = {f1, f2}
  Callers = {c1}
  Calls = {1, 2}
  MaxSteps = 2
SPECIFICATION Spec
INVARIANTS
  ToolLoopBounded
PROPERTIES
  KeepsPromise
