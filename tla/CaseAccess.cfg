SPECIFICATION CoachingSpec
CONSTANTS
  Actives = {"case"}
  c1 = c1
  c2 = c2
  a1 = a1
  a2 = a2
  framing1 = framing1
  framing2 = framing2
  text1 = text1
  text2 = text2
  CaseLearners = {u1}
  CaseSessions = {s1}
  CaseFacts = {f1}
  OtherFacts = {f2}
  MaxRequests = 2
  None = None
  Threads = {w1, w2}
  CourseLearners = {u1}
  CourseSessions = {s1}
  Sections = {a1}
  Concepts = {c1}
  section_of <- MCSectionOf
  KeyPoints = 1
  FRAMING_ORDER <- MCOrder
  Texts <- MCTexts
  MAX_QUOTED_SPANS_PER_CONCEPT = 2
  MAX_QUOTED_SPANS_PER_RESPONSE = 1
  MaxTurns = 3
  UNCLASSIFIED = UNCLASSIFIED
  MaxReads = 2
  MaxCalls = 1
  Tokens = {t1, t2, t3, t4, t5, t6, t7, t8}
  t1 = t1
  t2 = t2
  t8 = t8
  QuizItems = {1, 2}
  quiz_match_threshold = 85
  MaxRewordings = 3
  MaxTries = 5
SYMMETRY MCSymmetry
INVARIANT NeverLeftWithNothing
CHECK_DEADLOCK FALSE
