-------------------------------- MODULE GapReport --------------------------------
(***************************************************************************)
(* UC-07: a learner's knowledge-gap report, rebuilt from four upstream     *)
(* sources at each request (service.py) and saved when its content differs *)
(* from the stored one.  A step is one read of a source or of the report   *)
(* store; requests run in threads.                                         *)
(*                                                                         *)
(* The interaction log and the ratings grow while a report is built.  The  *)
(* log may hold records of others and a record twice.  A report's notices  *)
(* are computed from its statuses, when they are wanted.  Descriptions,    *)
(* counters and the notice on few topics follow from the fields kept.      *)
(***************************************************************************)
EXTENDS Naturals, Sequences, FiniteSets, FiniteSetsExt

CONSTANTS Workers, Topics, Courses, Unlisted,
          Lessons,      \* the catalogue: lessons with their course and topic
          Kinds,        \* what an interaction may be: its content
          gap_report_threshold, explain_differently_struggle_threshold,
          low_rating_struggle_threshold, follow_up_struggle_threshold,
          MaxRecords, MaxRatings, MaxReports,   \* bounds
          None

InteractionKind == [mine : BOOLEAN, topic : Topics, explained : Nat, follow_up : BOOLEAN]

\* What the constants are; a module that instantiates this one assumes it.
GapReportConstants ==
  /\ Lessons \subseteq [course : Courses, lesson : Nat, topic : Topics] /\ Unlisted \notin Courses
  /\ Kinds \subseteq InteractionKind
  /\ {gap_report_threshold, explain_differently_struggle_threshold,
      low_rating_struggle_threshold, follow_up_struggle_threshold} \subseteq Nat \ {0}
  /\ {MaxRecords, MaxRatings, MaxReports} \subseteq Nat
  /\ None \notin Nat

VARIABLES log,      \* InteractionLogProvider: the records, in the order it has them
          ratings,  \* FeedbackProvider: the thumbs down of the learner
          current,  \* GapReportRepository: the learner's report, or None
          saves,    \* how often it was saved
          pc, job

vars == <<log, ratings, current, saves, pc, job>>

\* An invalid profile or course source is one that is unavailable, but for the
\* wording of its notice, and a partial one is one that is available, but for a
\* notice of its own.
SourceStatus == {"available", "empty", "partial", "unavailable", "invalid"}
SignalKind == {"explain_differently", "follow_up", "low_rating"}
GapType == {"struggle", "unexplored"}

InteractionRecord == [id : Nat \ {0}, is : InteractionKind]
SignalEvidence == [signal : SignalKind, ids : SUBSET (Nat \ {0})]
Recommendation == [topic : Topics, course : Courses \cup {Unlisted}, lesson : Nat \cup {None}]
Gap == [topic : Topics, type : GapType, evidence : SUBSET SignalEvidence,
        recommendations : SUBSET Recommendation]
SourceStatuses == [{"interactions", "feedback", "profile", "courses"} -> SourceStatus]

\* read and rated, the lengths of the log and of the ratings when they were
\* read, are for the properties alone.
GapReports == [gaps : SUBSET Gap, count : Nat, statuses : SourceStatuses, read : Nat, rated : Nat]

PC == {"idle", "feedback", "profile", "courses", "save"}

NoStatuses == [interactions |-> "empty", feedback |-> "empty", profile |-> "empty", courses |-> "empty"]
NoJob == [records |-> {}, struggles |-> {}, unexplored |-> {}, recommended |-> {},
          statuses |-> NoStatuses, read |-> 0, rated |-> 0]

TypeOK ==
  /\ log \in Seq(InteractionRecord)
  /\ ratings \in Seq(Nat \ {0})
  /\ current # None => current \in GapReports
  /\ saves \in Nat
  /\ pc \in [Workers -> PC]
  /\ \A w \in Workers : job[w].struggles \subseteq Gap /\ job[w].statuses \in SourceStatuses

Init ==
  /\ log = <<>> /\ ratings = <<>> /\ current = None /\ saves = 0
  /\ pc = [w \in Workers |-> "idle"] /\ job = [w \in Workers |-> NoJob]

At(w, label) == pc[w] = label
Step(w, label, locals) == /\ pc' = [pc EXCEPT ![w] = label]
                          /\ job' = [job EXCEPT ![w] = locals]
End(w) == Step(w, "idle", NoJob)

-----------------------------------------------------------------------------
(* The analysis. *)

\* Mutant: a record delivered twice counts twice.
QualifyingTwice(positions) == {k \in positions : log[k].is.mine}

\* The learner's own records among those read, each id once.
qualifying_interactions(positions) ==
  {k \in positions : /\ log[k].is.mine
                     /\ \A j \in positions : (j < k /\ log[j].is.mine) => log[j].id # log[k].id}

IdsOf(records) == {log[k].id : k \in records}
OfTopic(records, topic) == {k \in records : log[k].is.topic = topic}
topic_tags(records) == {log[k].is.topic : k \in records}

Fired(signal, observed, threshold, ids) ==
  IF observed >= threshold THEN {[signal |-> signal, ids |-> ids]} ELSE {}

_explain_differently_signal(records) ==
  Fired("explain_differently", MapThenSumSet(LAMBDA k : log[k].is.explained, records),
        explain_differently_struggle_threshold, IdsOf({k \in records : log[k].is.explained > 0}))

_follow_up_signal(records) ==
  LET asked == {k \in records : log[k].is.follow_up}
  IN Fired("follow_up", Cardinality(asked), follow_up_struggle_threshold, IdsOf(asked))

\* build_low_rating_index: each thumbs down of an interaction of the topic.
_low_rating_signal(records, rated) ==
  LET low == {k \in DOMAIN rated : rated[k] \in IdsOf(records)}
  IN Fired("low_rating", Cardinality(low), low_rating_struggle_threshold, {rated[k] : k \in low})

\* detect_struggles: a gap for each topic with a signal that fired; ratings
\* that could not be read raise none.
detect_struggles(records, rated) ==
  LET signals(topic) == LET own == OfTopic(records, topic)
                        IN _explain_differently_signal(own) \cup _follow_up_signal(own)
                             \cup _low_rating_signal(own, rated)
  IN {[topic |-> t, type |-> "struggle", evidence |-> signals(t), recommendations |-> {}] :
        t \in {u \in topic_tags(records) : signals(u) # {}}}

\* analyse_unexplored: the areas of a speciality that was read, less the topics
\* of the history.
analyse_unexplored(areas, status, records) ==
  IF status = "available" THEN areas \ topic_tags(records) ELSE {}

_unexplored_gaps(areas) ==
  {[topic |-> t, type |-> "unexplored", evidence |-> {}, recommendations |-> {}] : t \in areas}

\* _violations and enforce_evidence_integrity: a gap whose evidence does not
\* resolve is dropped.
enforce_evidence_integrity(gaps, resolvable) ==
  {g \in gaps : \A e \in g.evidence :
                  g.type = "struggle" /\ e.ids \subseteq resolvable /\ e.ids # {}}

_lessons_for_topic(course, topic) ==
  {[topic |-> topic, course |-> course, lesson |-> l.lesson] :
     l \in {m \in Lessons : m.course = course /\ m.topic = topic}}

\* What one candidate becomes: nothing when it does not resolve, the lessons
\* of its topic when the learner has the course.
Resolved(candidate, enrolled) ==
  CASE candidate.course \notin Courses -> {}
    [] candidate.course \in Courses /\ candidate.lesson # None ->
         IF \E l \in Lessons : l.course = candidate.course /\ l.lesson = candidate.lesson
         THEN {candidate} ELSE {}
    [] OTHER -> IF candidate.course \in enrolled
                THEN _lessons_for_topic(candidate.course, candidate.topic) ELSE {candidate}

validate_recommendations(candidates, enrolled, wanted) ==
  UNION {Resolved(c, enrolled) : c \in {d \in candidates : d.topic \in wanted}}

\* assemble_report.
assemble_report(j) ==
  LET gaps == enforce_evidence_integrity(j.struggles \cup _unexplored_gaps(j.unexplored), IdsOf(j.records))
  IN [gaps |-> {[g EXCEPT !.recommendations = {r \in j.recommended : r.topic = g.topic}] : g \in gaps},
      count |-> Cardinality(j.records), statuses |-> j.statuses, read |-> j.read, rated |-> j.rated]

\* What the learner is told of the sources: failed, partial and empty in
\* words of their own.
NoticeFor ==
  [interactions |-> [partial |-> "interaction_source_partial"],
   feedback |-> [unavailable |-> "rating_signal_unavailable", invalid |-> "rating_signal_invalid",
                 partial |-> "rating_signal_partial", empty |-> "rating_signal_no_ratings"],
   profile |-> [unavailable |-> "speciality_analysis_unavailable",
                empty |-> "speciality_analysis_not_possible_no_speciality"],
   courses |-> [unavailable |-> "recommendations_temporarily_unavailable"]]

_notices(statuses) ==
  {NoticeFor[source][statuses[source]] :
     source \in {s \in DOMAIN statuses : statuses[s] \in DOMAIN NoticeFor[s]}}

\* What content_fingerprint is taken of.
Content(report) == <<report.gaps, report.count, report.statuses>>

-----------------------------------------------------------------------------
(* The upstreams. *)

Interact == /\ Len(log) < MaxRecords
            /\ \E kind \in Kinds : log' = Append(log, [id |-> Len(log) + 1, is |-> kind])
            /\ UNCHANGED <<ratings, current, saves, pc, job>>

\* The log has a record again.
Redeliver == /\ Len(log) < MaxRecords
             /\ \E k \in DOMAIN log : log' = Append(log, log[k])
             /\ UNCHANGED <<ratings, current, saves, pc, job>>

\* The learner rates an answer down; two ratings of one may both be there.
Rate == /\ Len(ratings) < MaxRatings
        /\ \E k \in DOMAIN log : log[k].is.mine /\ ratings' = Append(ratings, log[k].id)
        /\ UNCHANGED <<log, current, saves, pc, job>>

-----------------------------------------------------------------------------
(* current_report. *)

\* _load_interactions: a source that fails fails the request, a partial answer
\* is told.  Below the threshold there is progress and no report.
BeginReport(w) ==
  /\ At(w, "idle") /\ saves < MaxReports
  /\ \E positions \in SUBSET DOMAIN log, partial \in BOOLEAN :
       LET records == qualifying_interactions(positions)
       IN /\ positions # DOMAIN log => partial
          /\ Cardinality(records) >= gap_report_threshold
          /\ Step(w, "feedback", [NoJob EXCEPT !.records = records, !.read = Len(log),
               !.statuses["interactions"] = IF partial THEN "partial" ELSE "available"])
  /\ UNCHANGED <<log, ratings, current, saves>>

\* _load_feedback: the ratings of the interactions, or how the source failed.
LoadFeedback(w) ==
  /\ At(w, "feedback")
  /\ LET j == job[w]
         mine == SelectSeq(ratings, LAMBDA id : id \in IdsOf(j.records))
         Loaded(rated, status) ==
           Step(w, "profile", [j EXCEPT !.struggles = detect_struggles(j.records, rated),
                                        !.statuses["feedback"] = status, !.rated = Len(ratings)])
     IN \/ Loaded(mine, IF mine = <<>> THEN "empty" ELSE "available")
        \/ \E n \in 0..Len(mine) : Loaded(SubSeq(mine, 1, n), "partial")
        \/ \E failure \in {"unavailable", "invalid"} : Loaded(<<>>, failure)
  /\ UNCHANGED <<log, ratings, current, saves>>

\* _load_profile: the speciality areas under their own status.
LoadProfile(w) ==
  /\ At(w, "profile")
  /\ \E areas \in SUBSET Topics, status \in {"available", "empty", "unavailable"} :
       /\ status = "available" <=> areas # {}
       /\ Step(w, "courses", [job[w] EXCEPT !.statuses["profile"] = status,
                 !.unexplored = analyse_unexplored(areas, status, job[w].records)])
  /\ UNCHANGED <<log, ratings, current, saves>>

Candidates(topics) == {[topic |-> t, course |-> c, lesson |-> l] :
                         t \in topics, c \in Courses \cup {Unlisted}, l \in {1, None}}

\* _load_courses and _plan_recommendations.  The source offers one candidate,
\* or none, or fails.
LoadCourses(w) ==
  /\ At(w, "courses")
  /\ LET j == job[w]
         wanted == {g.topic : g \in j.struggles} \cup j.unexplored
     IN \/ Step(w, "save", [j EXCEPT !.statuses["courses"] = "unavailable"])
        \/ \E offered \in {{}} \cup {{c} : c \in Candidates(wanted)}, enrolled \in SUBSET Courses :
             Step(w, "save", [j EXCEPT !.statuses["courses"] = "available",
               !.recommended = validate_recommendations(offered, enrolled, wanted)])
  /\ UNCHANGED <<log, ratings, current, saves>>

\* The stored report is read and, when the content differs, replaced.
SaveReport(w) ==
  /\ At(w, "save")
  /\ LET fresh == assemble_report(job[w])
         unchanged == current # None => Content(current) = Content(fresh)
     IN IF current # None /\ unchanged
        THEN UNCHANGED <<current, saves>>
        ELSE current' = fresh /\ saves' = saves + 1
  /\ End(w)
  /\ UNCHANGED <<log, ratings>>

current_report(w) ==
  BeginReport(w) \/ LoadFeedback(w) \/ LoadProfile(w) \/ LoadCourses(w) \/ SaveReport(w)

Next == Interact \/ Redeliver \/ Rate \/ \E w \in Workers : current_report(w)

Spec == Init /\ [][Next]_vars

-----------------------------------------------------------------------------

\* The learner's own interactions of the log as it was read.
OwnIds(read) == {log[k].id : k \in {j \in 1..read : log[j].is.mine}}
Own(read, topic) == {log[k].id : k \in {j \in 1..read : log[j].is.mine /\ log[j].is.topic = topic}}

\* No gap is made up: a stored report rests on as many of the learner's own
\* interactions as the threshold asks for, however often the log has them; a
\* struggle names interactions of its topic that alone reach a threshold; and
\* an area that is told unexplored has no interaction in a history that was
\* read whole (qualifying_interactions, detect_struggles, analyse_unexplored,
\* enforce_evidence_integrity).
EveryGapIsEvidenced ==
  current # None =>
    /\ gap_report_threshold <= current.count /\ current.count <= Cardinality(OwnIds(current.read))
    /\ \A g \in current.gaps :
         IF g.type = "unexplored"
         THEN current.statuses["interactions"] = "available" => Own(current.read, g.topic) = {}
         ELSE /\ g.evidence # {}
              /\ \A e \in g.evidence :
                   /\ e.ids # {} /\ e.ids \subseteq Own(current.read, g.topic)
                   /\ e.signal = "follow_up" => Cardinality(e.ids) >= follow_up_struggle_threshold
                   /\ e.signal = "low_rating" =>
                        Cardinality({k \in DOMAIN ratings : ratings[k] \in e.ids}) >= low_rating_struggle_threshold

\* What the report must find in what was there to read: an interaction's
\* re-explanations once, each follow-up, each thumbs down.
Observed(signal, topic) ==
  LET first(id) == log[CHOOSE k \in 1..current.read : log[k].id = id].is
      own == Own(current.read, topic)
  IN CASE signal = "explain_differently" -> MapThenSumSet(LAMBDA id : first(id).explained, own)
       [] signal = "follow_up" -> Cardinality({id \in own : first(id).follow_up})
       [] signal = "low_rating" -> Cardinality({k \in 1..current.rated : ratings[k] \in own})

Threshold(signal) ==
  CASE signal = "explain_differently" -> explain_differently_struggle_threshold
    [] signal = "follow_up" -> follow_up_struggle_threshold
    [] signal = "low_rating" -> low_rating_struggle_threshold

\* No gap is passed over in silence: a signal that what was there to read would
\* have raised is in the stored report, unless a notice says which source was
\* failed or partial; and a learner who had rated is not told of no ratings
\* (_load_interactions, _load_feedback, detect_struggles, _notices).
NoGapIsPassedOver ==
  current # None =>
    LET notices == _notices(current.statuses) IN
    \A topic \in Topics, signal \in SignalKind :
      Observed(signal, topic) >= Threshold(signal) =>
        \/ \E g \in current.gaps : g.topic = topic /\ \E e \in g.evidence : e.signal = signal
        \/ "interaction_source_partial" \in notices
        \/ /\ signal = "low_rating" /\ "rating_signal_no_ratings" \notin notices
           /\ notices \cap {"rating_signal_unavailable", "rating_signal_invalid", "rating_signal_partial"} # {}

=============================================================================
