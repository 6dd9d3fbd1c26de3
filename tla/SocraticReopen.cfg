SPECIFICATION Spec
CONSTANTS
  None = None
  ExchangeCap = 2
  LoopTenths = 8
  LearnerQuestions <- MCLearner
  Questions <- MCFewQuestions
  Users = {ann}
  DialogueIds = {d1}
  Workers = {w1, w2}
  Intents <- MCEveryEvent
  MaxTurns = 3
  StoreYields = FALSE
  StoreMayFail = FALSE
PROPERTY NoReopen
CHECK_DEADLOCK FALSE
