CONSTANTS
  MaxTurns = 2
  Retrieved = {1}
  Empty = {}
  Rejected = {}
  TooLarge = {}
  Attempts = 2
  MaxLost = 1
SPECIFICATION Spec
PROPERTIES AcceptedIsSaid
