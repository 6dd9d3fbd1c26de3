SPECIFICATION Spec
CONSTANTS
  None = None
  ExchangeCap = 2
  LoopTenths = 8
  LearnerQuestions <- MCLearner
  Questions <- MCQuestions
  Users = {ann}
  DialogueIds = {d1}
  Workers = {w1, w2}
  Intents <- MCFewIntents
  MaxTurns = 2
  StoreYields = TRUE
  StoreMayFail = TRUE
SYMMETRY MCSymmetry
INVARIANTS CapRespected NoRepeatedQuestion ChainQuotesTheMove LogIsSound
CHECK_DEADLOCK FALSE
