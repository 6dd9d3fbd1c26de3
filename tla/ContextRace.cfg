SPECIFICATION SessionsSpec
CONSTANTS
  Actives = {"together"}
  Attempts = {a1}
  Commands <- MCCommands
  Absent = Absent
  Learners = {u1, u2}
  Sessions = {s1}
  Requests = {r1, r2}
  NaricLevels = {7}
  ALLOW_FORCE_REFRESH = TRUE
  MaxExpiries = 0
  SourceName = {"naric", "courses", "legal_profile", "question_history"}
  Few = {"naric"}
  Environments = {}
  Callers = {c1}
  Never = Never
  Dialogues = {d1}
  Savers = {w1, w2}
  Rows = {k1, k2}
  MaxSaves = 3
  Half = Half
  NoRow = NoRow
  Replies = {w1}
INVARIANT ReturnedUnchanged
CHECK_DEADLOCK FALSE
