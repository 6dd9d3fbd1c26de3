------------------------------- MODULE MCReports -------------------------------
(***************************************************************************)
(* What a learner is told of what was done: the session summary (UC-09),   *)
(* the gap report (UC-07), the weekly summary and the day streak (UC-08)   *)
(* on small instances.  The deployment mounts them side by side and no     *)
(* call crosses from one to another, so one behaviour is of one of them,   *)
(* the active one.  A day of the streak is two ticks and its window two    *)
(* ticks, so that the calendar's day and the rolling window disagree.      *)
(***************************************************************************)
EXTENDS SessionSummary

CONSTANTS w1, learner, other, t1, t2, c1, c2, authority, suggestion, course, unlisted

CONSTANTS Courses, Unlisted, Lessons, Kinds,
          gap_report_threshold, explain_differently_struggle_threshold,
          low_rating_struggle_threshold, follow_up_struggle_threshold,
          MaxRecords, MaxRatings, MaxReports,
          DaysPerWeek, SummaryDay, MaxListed, FirstDay, MaxDay, MaxAsked, MaxSends,
          TicksPerDay, DaysPerMonth, WindowTicks, ExpiryTicks, FreezeMinDays, Milestones,
          SameDayCalls, MaxTicks, MaxActivities

VARIABLES active,
          history, ratings, current, saves,   \* of the gap report
          day, happened, weekly, sent,        \* of the weekly summary
          clock, ledger, streak, processed, offers, badges   \* of the streak

G == INSTANCE GapReport WITH log <- history
W == INSTANCE WeeklySummaries WITH summaries <- weekly, MaxInteractions <- MaxAsked
S == INSTANCE Streaks WITH now <- clock, happened <- ledger,
                           MaxTime <- MaxTicks, MaxInteractions <- MaxActivities

ASSUME GapReportAssumption == G!GapReportConstants
ASSUME WeeklyAssumption == W!WeeklyConstants
ASSUME StreakAssumption == S!StreakConstants

Tag(topics, concepts, cited) == [topics |-> topics, concepts |-> concepts, cited |-> cited]
MCTags == {Tag({t1}, {c1}, {}), Tag({t1, t2}, {}, {authority}),
           Tag({t2}, {c1, c2}, {authority}), Tag({}, {c1}, {})}

Kind(mine, topic, explained, follow_up) ==
  [mine |-> mine, topic |-> topic, explained |-> explained, follow_up |-> follow_up]
MCKinds == {Kind(TRUE, t1, 2, FALSE), Kind(TRUE, t1, 1, TRUE),
            Kind(TRUE, t2, 0, TRUE), Kind(FALSE, t1, 2, TRUE)}

MCLessons == {[course |-> course, lesson |-> 1, topic |-> t1]}

summary_vars == <<now, log, ended_at, summaries, downloads>>
gap_vars == <<history, ratings, current, saves>>
weekly_vars == <<day, happened, weekly, sent>>
streak_vars == <<clock, ledger, streak, processed, offers, badges>>

SummaryIdle == now = 0 /\ log = <<>> /\ ended_at = None /\ summaries = <<>> /\ downloads = <<>>
GapIdle == history = <<>> /\ ratings = <<>> /\ current = None /\ saves = 0
WeeklyIdle == day = FirstDay /\ happened = <<>> /\ weekly = <<>> /\ sent = <<>>
StreakIdle ==
  clock = 0 /\ ledger = <<>> /\ streak = None /\ processed = {} /\ offers = <<>> /\ badges = {}

ReportsInit ==
  \/ active = "summary" /\ Init /\ GapIdle /\ WeeklyIdle /\ StreakIdle
  \/ active = "gap" /\ G!Init /\ SummaryIdle /\ WeeklyIdle /\ StreakIdle
  \/ active = "weekly" /\ W!Init /\ SummaryIdle /\ GapIdle /\ StreakIdle
  \/ active = "streak" /\ S!Init /\ SummaryIdle /\ GapIdle /\ WeeklyIdle

ReportsNext ==
  \/ active = "summary" /\ Next /\ UNCHANGED <<active, gap_vars, weekly_vars, streak_vars>>
  \/ active = "gap" /\ G!Next /\ UNCHANGED <<active, summary_vars, weekly_vars, streak_vars>>
  \/ active = "weekly" /\ W!Next /\ UNCHANGED <<active, summary_vars, gap_vars, streak_vars>>
  \/ active = "streak" /\ S!Next /\ UNCHANGED <<active, summary_vars, gap_vars, weekly_vars>>

ReportsSpec == ReportsInit /\ [][ReportsNext]_<<active, vars, gap_vars, weekly_vars, streak_vars>>

\* Each document's own types.
TypesOK ==
  /\ active = "summary" => TypeOK
  /\ active = "gap" => G!TypeOK
  /\ active = "weekly" => W!TypeOK
  /\ active = "streak" => S!TypeOK

\* GapReport's: no gap of the learner's report is made up, and none is passed
\* over in silence.
GapsAreTheLearners == active = "gap" => G!EveryGapIsEvidenced /\ G!NoGapIsPassedOver

\* WeeklySummaries': a summary counts its week and no other, and a week whose
\* summary was missed is never sent for later.
SummaryIsOfItsWeek == W!CountsItsWeek /\ W!MissedWeeksStayMissed

\* Streaks': no streak counts a day nobody earned, nor two freezes of one month.
StreakIsEarned == S!DaysEarned /\ S!OneFreezePerMonth

\* Streaks': inactivity alone resets a streak.
OnlyInactivityResets == S!OnlyInactivityResets

=============================================================================
