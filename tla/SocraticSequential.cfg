SPECIFICATION Spec
CONSTANTS
  None = None
  ExchangeCap = 2
  LoopTenths = 8
  LearnerQuestions <- MCLearnerQuestions
  Questions <- MCQuestions
  Users = {ann}
  DialogueIds = {d1}
  Workers = {w1}
  Intents <- IntentKind
  MaxTurns = 5
  StoreYields = TRUE
  StoreMayFail = FALSE
INVARIANTS TypeOK LogTellsTheDialogue ExitWasOffered
PROPERTIES NoReopen ImplementsTurns
CHECK_DEADLOCK FALSE
