SPECIFICATION ReportsSpec
CONSTANTS
  w1 = w1
  learner = learner
  other = other
  t1 = t1
  t2 = t2
  c1 = c1
  c2 = c2
  authority = authority
  suggestion = suggestion
  course = course
  unlisted = unlisted
  None = None
  Workers = {w1}
  Owner = learner
  Learners = {learner, other}
  Topics = {t1, t2}
  Concepts = {c1, c2}
  Authorities = {authority}
  Suggestions = {suggestion}
  Tags <- MCTags
  MAX_KEY_CONCEPTS = 1
  MIN_KEY_CONCEPTS = 1
  MAX_NEXT_STEPS = 1
  MIN_NEXT_STEPS = 1
  MaxTime = 1
  MaxInteractions = 2
  MaxSummaries = 1
  MaxDownloads = 1
  Courses = {course}
  Unlisted = unlisted
  Lessons <- MCLessons
  Kinds <- MCKinds
  gap_report_threshold = 2
  explain_differently_struggle_threshold = 2
  low_rating_struggle_threshold = 1
  follow_up_struggle_threshold = 2
  MaxRecords = 2
  MaxRatings = 1
  MaxReports = 2
  DaysPerWeek = 2
  SummaryDay = 0
  MaxListed = 2
  FirstDay = 2
  MaxDay = 7
  MaxAsked = 1
  MaxSends = 2
  TicksPerDay = 2
  DaysPerMonth = 4
  WindowTicks = 2
  ExpiryTicks = 2
  FreezeMinDays = 1
  Milestones = {2}
  SameDayCalls = TRUE
  MaxTicks = 8
  MaxActivities = 3
INVARIANTS
  TypesOK DocumentIsTrue NothingLeftOut  GapsAreTheLearners
  SummaryIsOfItsWeek 
PROPERTIES OnlyInactivityResets
CHECK_DEADLOCK FALSE
