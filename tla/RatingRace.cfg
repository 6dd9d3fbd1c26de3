\* Two captures at once.
SPECIFICATION Spec
CONSTANTS
  i1 = i1
  i2 = i2
  contracts = contracts
  Workers = {w1, w2}
  Interactions = {i1, i2}
  Topics = {contracts}
  TopicOf <- MCTopicOf
  ThresholdTenths = 5
  MinimumSample = 2
  WindowDays = 2
  RatingTicks = 1
  MaxTime = 2
  MaxRatings = 2
  MaxFlags = 3
  None = None
SYMMETRY Symmetry
INVARIANT
  RatedHasCurrent
CHECK_DEADLOCK FALSE
