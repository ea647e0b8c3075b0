CONSTANTS
  s1 = s1
  s2 = s2
  t1 = t1
  t2 = t2
  t3 = t3
  Signals = {s1, s2}
  Threads = {t1, t2, t3}
  ToolCalls = 3
  WindowChars = 3
  MaxOpened = 2
  MaxCalls = 4
SPECIFICATION Spec
SYMMETRY Symm
INVARIANTS
  TypeOK WithinWindow NothingLeaks
PROPERTIES
  ChargedToItsOwn
