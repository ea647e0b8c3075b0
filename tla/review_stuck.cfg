CONSTANTS
  a = a
  a2 = a2
  b = b
  note = note
  one = one
  two = two
  Texts = {a, a2, b, note}
  ValueOf <- Values
  NoClaim = NoClaim
  Retraction = Retraction
  MaxMems = 3
  MaxReviews = 2
SPECIFICATION Spec
INVARIANTS
  ChangedMeansStale
