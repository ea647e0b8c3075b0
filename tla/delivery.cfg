CONSTANTS
  MaxTurns = 5
  Retrieved = {1, 3}
  Empty = {3}
  Rejected = {2}
  TooLarge <- Oversized
  Attempts = 2
  MaxLost = 1
SPECIFICATION FairSpec
INVARIANTS
  TypeOK LogInTurnOrder CreditOnceAndAfter
PROPERTIES
  NothingForgotten EveryTurnDelivered
