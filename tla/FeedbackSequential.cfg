\* One request at a time, every store call of which may fail.
SPECIFICATION Spec
CONSTANTS
  i1 = i1
  i2 = i2
  contracts = contracts
  Workers = {w1}
  Interactions = {i1, i2}
  Topics = {contracts}
  TopicOf <- MCTopicOf
  ThresholdTenths = 5
  MinimumSample = 2
  WindowDays = 2
  RatingTicks = 1
  MaxTime = 5
  MaxRatings = 4
  MaxFlags = 3
  None = None
SYMMETRY Symmetry
INVARIANTS
  TypeOK
  NoDuplicateOpenFlag
  NothingDropped
  CurrentRatingIsLatest
\* The bounds on time, ratings and flags stop it.
CHECK_DEADLOCK FALSE
