---------------------------- MODULE WeeklySummaries ----------------------------
(***************************************************************************)
(* UC-08's weekly summary (weekly_summary_service.py): generated by a call *)
(* on the summary day for the week that just ended, saved, sent, and the   *)
(* sending retried by a call on a later day.  Nothing schedules the calls. *)
(* A step is one call on a store, a source or the notification sink, any   *)
(* of which may fail.                                                      *)
(*                                                                         *)
(* Time is a day; week k is the days that div gives it.  A summary keeps   *)
(* the questions asked, whose status tells their omission; topics are read *)
(* and narrowed the same way.  The suggested topic, which is a topic or an *)
(* omission, and the streak length copied from Streaks are left out.       *)
(***************************************************************************)
EXTENDS Integers, Sequences, FiniteSets

CONSTANTS Workers,
          DaysPerWeek,
          SummaryDay,        \* weekly_summary_day, the first day of the week is 0
          MaxListed,         \* MAX_LISTED_SKIPPED_WEEKS
          FirstDay, MaxDay, MaxInteractions, MaxSends,   \* bounds
          None

\* What the constants are; a module that instantiates this one assumes it.
WeeklyConstants ==
  /\ DaysPerWeek \in Nat \ {0} /\ SummaryDay \in 0..(DaysPerWeek - 1)
  /\ MaxListed \in Nat \ {0}
  /\ {FirstDay, MaxDay, MaxInteractions, MaxSends} \subseteq Nat /\ FirstDay >= DaysPerWeek
  /\ None \notin Int

VARIABLES day,        \* Clock
          happened,   \* the day of each interaction: the activity read model
          summaries,  \* WeeklySummaryRepository: week -> summary
          sent,       \* the events the notification sink took: [week, day]
          pc, job

vars == <<day, happened, summaries, sent, pc, job>>

DeliveryStatus == {"pending", "sent", "failed"}

\* An invalid answer is treated as one that is unavailable.
SourceStatus == {"available", "empty", "partial", "unavailable"}

WeeklySummary == [week : Nat, questions : Nat, questions_status : SourceStatus,
                  skipped : SUBSET Nat, delivery : DeliveryStatus,
                  next_retry : Nat \cup {None}]

PC == {"idle", "build", "history", "save", "send", "record", "latest"}

Job == [day : Nat, summary : WeeklySummary \cup {None}]
NoJob == [day |-> 0, summary |-> None]

TypeOK ==
  /\ day \in Nat /\ happened \in Seq(Nat)
  /\ DOMAIN summaries \subseteq Nat
  /\ \A k \in DOMAIN summaries : summaries[k] \in WeeklySummary /\ summaries[k].week = k
  /\ sent \in Seq([week : Nat, day : Nat])
  /\ pc \in [Workers -> PC] /\ job \in [Workers -> Job]

Init ==
  /\ day = FirstDay /\ happened = <<>> /\ summaries = <<>> /\ sent = <<>>
  /\ pc = [w \in Workers |-> "idle"] /\ job = [w \in Workers |-> NoJob]

At(w, label) == pc[w] = label

Step(w, label, locals) == /\ pc' = [pc EXCEPT ![w] = label]
                          /\ job' = [job EXCEPT ![w] = locals]

End(w) == Step(w, "idle", NoJob)

-----------------------------------------------------------------------------

iso_week(d) == d \div DaysPerWeek

\* previous_iso_week_bounds: the week of the summary, and its days.
PreviousWeek(d) == iso_week(d) - 1
InWeek(d, week) == iso_week(d) = week

\* Mutant: the read opens at the week's start and is not closed at its end.
QuestionsSince(week) ==
  LET read == {k \in DOMAIN happened : iso_week(happened[k]) >= week}
  IN IF read = {} THEN [n |-> 0, status |-> "empty"]
     ELSE [n |-> Cardinality(read), status |-> "available"]

\* _questions: the port has no end to its window, so what came after is cut.
_questions(week) ==
  LET read == {k \in DOMAIN happened : iso_week(happened[k]) >= week}
      in_week == {k \in read : InWeek(happened[k], week)}
  IN IF in_week = {} THEN [n |-> 0, status |-> "empty"]
     ELSE [n |-> Cardinality(in_week),
           status |-> IF in_week = read THEN "available" ELSE "partial"]

\* The most recent summary of a history that is not empty.
Latest == CHOOSE k \in DOMAIN summaries : \A l \in DOMAIN summaries : l <= k

\* _skipped_weeks: the weeks since the last summary, the last MaxListed of them.
_skipped_weeks(week) ==
  IF DOMAIN summaries = {} THEN {}
  ELSE LET gaps == (Latest + 1)..(week - 1)
       IN {k \in gaps : k >= week - MaxListed}

Blank(week) == [week |-> week, questions |-> 0, questions_status |-> "empty",
                skipped |-> {}, delivery |-> "pending", next_retry |-> None]

\* Whether _retry_if_due sends again.
IsDue(summary, d) ==
  summary.delivery # "sent" /\ (summary.next_retry # None => d >= summary.next_retry)

-----------------------------------------------------------------------------

NextDay == /\ day < MaxDay /\ day' = day + 1
           /\ UNCHANGED <<happened, summaries, sent, pc, job>>

Interact == /\ Len(happened) < MaxInteractions
            /\ happened' = Append(happened, day)
            /\ UNCHANGED <<day, summaries, sent, pc, job>>

\* _retry_if_due, of the summary just read.
_retry_if_due(w, summary, d) ==
  \/ IsDue(summary, d) /\ Step(w, "send", [day |-> d, summary |-> summary])
  \/ ~ IsDue(summary, d) /\ End(w)

\* generate looks for the summary of the week that ended, and goes on to retry
\* it, to retry the latest, or to build it.
BeginGenerate(w) ==
  /\ At(w, "idle")
  /\ LET week == PreviousWeek(day)
         summary_day == day % DaysPerWeek = SummaryDay
     IN \/ week \in DOMAIN summaries /\ _retry_if_due(w, summaries[week], day)
        \/ /\ week \notin DOMAIN summaries /\ ~ summary_day
           /\ Step(w, "latest", [NoJob EXCEPT !.day = day])
        \/ /\ week \notin DOMAIN summaries /\ summary_day
           /\ Step(w, "build", [day |-> day, summary |-> Blank(week)])
  /\ UNCHANGED <<day, happened, summaries, sent>>



\* _retry_latest_if_due: the older ones are left alone for good.
RetryLatest(w) ==
  /\ At(w, "latest")
  /\ \/ End(w)
     \/ DOMAIN summaries # {} /\ _retry_if_due(w, summaries[Latest], job[w].day)
  /\ UNCHANGED <<day, happened, summaries, sent>>

\* _build: the questions, or their omission.
ReadQuestions(w) ==
  /\ At(w, "build")
  /\ LET s == job[w].summary
         read == _questions(s.week)
     IN \/ Step(w, "history", [job[w] EXCEPT
             !.summary = [s EXCEPT !.questions = read.n, !.questions_status = read.status]])
        \/ Step(w, "history", [job[w] EXCEPT !.summary.questions_status = "unavailable"])
  /\ UNCHANGED <<day, happened, summaries, sent>>

\* A history that cannot be read has no gaps.
ReadHistory(w) ==
  /\ At(w, "history")
  /\ \E skipped \in {_skipped_weeks(job[w].summary.week), {}} :
       Step(w, "save", [job[w] EXCEPT !.summary.skipped = skipped])
  /\ UNCHANGED <<day, happened, summaries, sent>>

Stored(summary) == [k \in DOMAIN summaries \cup {summary.week} |->
                      IF k = summary.week THEN summary ELSE summaries[k]]

\* The record is the deliverable: it is saved before it is sent.
SaveSummary(w) ==
  /\ At(w, "save")
  /\ \/ summaries' = Stored(job[w].summary) /\ Step(w, "send", job[w])
     \/ UNCHANGED summaries /\ End(w)
  /\ UNCHANGED <<day, happened, sent>>

\* _attempt_send: a refusal is retried from the next day on.
Send(w) ==
  /\ At(w, "send")
  /\ LET s == job[w].summary
     IN \/ /\ Len(sent) < MaxSends
           /\ sent' = Append(sent, [week |-> s.week, day |-> job[w].day])
           /\ Step(w, "record", [job[w] EXCEPT !.summary =
                [s EXCEPT !.delivery = "sent", !.next_retry = None]])
        \/ /\ UNCHANGED sent
           /\ Step(w, "record", [job[w] EXCEPT !.summary =
                [s EXCEPT !.delivery = "failed", !.next_retry = job[w].day + 1]])
  /\ UNCHANGED <<day, happened, summaries>>

RecordDelivery(w) ==
  /\ At(w, "record")
  /\ \/ summaries' = Stored(job[w].summary)
     \/ UNCHANGED summaries
  /\ End(w)
  /\ UNCHANGED <<day, happened, sent>>

Next ==
  \/ NextDay \/ Interact
  \/ \E w \in Workers :
       \/ BeginGenerate(w) \/ RetryLatest(w) \/ ReadQuestions(w)
       \/ ReadHistory(w) \/ SaveSummary(w) \/ Send(w) \/ RecordDelivery(w)

Spec == Init /\ [][Next]_vars

-----------------------------------------------------------------------------

\* Missed weeks are never batch-sent: a week listed as skipped has no summary,
\* and what is sent never goes back to an older week (_skipped_weeks,
\* _retry_latest_if_due).
MissedWeeksStayMissed ==
  /\ \A k \in DOMAIN summaries : summaries[k].skipped \cap DOMAIN summaries = {}
  /\ \A k, l \in DOMAIN sent : k < l => sent[k].week <= sent[l].week

\* A summary counts its week and no other, however late or often it is asked
\* for, and an outage is never taken for a week without questions (_questions).
CountsItsWeek ==
  \A k \in DOMAIN summaries :
    IF summaries[k].questions_status = "unavailable"
    THEN summaries[k].questions = 0
    ELSE summaries[k].questions = Cardinality({i \in DOMAIN happened : InWeek(happened[i], k)})

=============================================================================
