SPECIFICATION SessionsSpec
CONSTANTS
  Actives = {"opening", "alone", "together", "platform", "mode", "stores"}
  Attempts = {a1}
  Commands <- MCCommands
  Absent = Absent
  Learners = {u1, u2}
  Sessions = {s1}
  Requests = {r1, r2, r3}
  NaricLevels = {7}
  ALLOW_FORCE_REFRESH = TRUE
  MaxExpiries = 1
  SourceName = {"naric", "courses", "legal_profile", "question_history"}
  Few = {}
  Environments <- MCFewEnvironments
  Callers = {c1, c2}
  Never = Never
  Dialogues = {d1}
  Savers = {w1, w2}
  Rows = {k1, k2}
  MaxSaves = 3
  Half = Half
  NoRow = NoRow
  Replies = {w1, w2}
INVARIANTS
  SessionTypesOK AnswerIsOnRecord BuiltOncePerSession GivenUpOnlyIfLate
  ComesUpAsNamed OnlyTheOwnerActs
PROPERTY EveryRequestEnds
\* What has been answered stops.
CHECK_DEADLOCK FALSE
