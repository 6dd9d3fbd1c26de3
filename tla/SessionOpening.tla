---------------------------- MODULE SessionOpening ----------------------------
(***************************************************************************)
(* UC-01: opening a coaching session.  open_session writes a record before *)
(* it asks anything, notes every dependency that lets it down, opens the   *)
(* mode, falls back to free-form or refuses, and writes the record again;  *)
(* an event goes to the log at each turn.  Record and log are two writes   *)
(* of a store that may refuse either, and the process may die between any  *)
(* two.  An attempt has a record of its own, so attempts do not meet: each *)
(* runs the handler a store call or a dependency at a time.                *)
(***************************************************************************)
EXTENDS Sequences, FiniteSets

CONSTANTS Attempts,    \* the session ids handed out
          Commands,    \* the requests a client sends, a subset of Command
          Absent

SessionMode == {"free-form", "course-linked", "case-linked"}
Policy == {"fail", "fallback_free_form"}
Command == [mode : SessionMode, gives : SUBSET {"course_id", "lesson_id", "case_id"},
            policy : Policy, continue_without_calibration : BOOLEAN]

OpeningConstants ==
  Commands \subseteq Command /\ Absent \notin SessionMode \cup {"courses", "cases"}

VARIABLES records,   \* attempt -> the persisted record, or Absent
          events,    \* attempt -> its events, in order
          told,      \* attempt -> the answer, or Absent
          refused,   \* attempt -> the writes the store refused
          job,       \* attempt -> the request, the record in memory and what was observed
          step       \* attempt -> where the handler is

opening_vars == <<records, events, told, refused, job, step>>

DependencyName == {"profile", "naric", "courses", "cases"}
DependencyState == {"available", "empty", "incomplete", "unavailable"}
is_degraded(state) == state \in {"incomplete", "unavailable"}

(***************************************************************************)
(* What the dependencies answer, after the adapters' contract errors have  *)
(* been turned into "unavailable".                                         *)
(***************************************************************************)
ProfileStates == {"available", "incomplete", "unavailable"}
CatalogueStates == {"available", "empty", "unavailable"}

\* An assessment: complete at a sane level, at a level out of range, without
\* one; or not complete; or no answer.
Assessments == {"complete", "insane", "unset", "calibrating", "incomplete", "none"}

naric_state(assessment) ==
  CASE assessment \in {"complete", "insane"}                 -> "available"   \* a level is there
    [] assessment \in {"unset", "calibrating", "incomplete"} -> "incomplete"
    [] assessment = "none"                                    -> "unavailable"

\* Mutant: the assessment's state passes for the source.
RawLevelSource(assessment, acknowledged) == IF assessment = "complete" THEN "naric" ELSE assessment

resolve_naric_level(assessment, acknowledged) ==
  CASE assessment = "complete"                    -> "naric"
    [] assessment # "complete" /\ acknowledged    -> "default_user_acknowledged"
    [] assessment # "complete" /\ ~acknowledged   -> "default"

\* A dependency not looked at counts as down; the free form needs none.
evaluate_mode_availability(dependencies) ==
  {"free-form"} \cup {m \in SessionMode \ {"free-form"} :
                        LET d == IF m = "course-linked" THEN "courses" ELSE "cases"
                        IN  d \in DOMAIN dependencies /\ dependencies[d] \notin {"unavailable", "empty"}}

\* The client's selection must belong to the mode.
shape_is_valid(command) ==
  CASE command.mode = "free-form"     -> command.gives = {}
    [] command.mode = "course-linked" -> "case_id" \notin command.gives
    [] command.mode = "case-linked"   -> command.gives \subseteq {"case_id"}

selection_given(command) ==
  IF command.mode = "course-linked" THEN {"course_id", "lesson_id"} \subseteq command.gives
  ELSE "case_id" \in command.gives

(***************************************************************************)
(* Records, events and answers.                                            *)
(***************************************************************************)
NewRecord(command) ==
  [session_type |-> command.mode, status |-> "initializing", requested_mode |-> command.mode,
   downgraded_from |-> Absent, linked_resource |-> Absent, naric_level_source |-> "default",
   degraded_dependencies |-> {}, failure_code |-> Absent]

NoJob == [command |-> Absent, record |-> Absent, dependencies |-> <<>>, assessment |-> "none", error |-> Absent]

OpeningInit ==
  /\ records = [a \in Attempts |-> Absent]
  /\ events = [a \in Attempts |-> <<>>]
  /\ told = [a \in Attempts |-> Absent]
  /\ refused = [a \in Attempts |-> {}]
  /\ job = [a \in Attempts |-> NoJob]
  /\ step = [a \in Attempts |-> "idle"]

At(a, s) == step[a] = s
Goto(a, s) == step' = [step EXCEPT ![a] = s]
Command_(a) == job[a].command
Known(a, d, state) == [x \in DOMAIN job[a].dependencies \cup {d} |->
                         IF x = d THEN state ELSE job[a].dependencies[x]]

\* An event is appended, or the store refuses it and the handler's error is
\* the one of an unexpected failure.
Event(type, about) == [event_type |-> type, about |-> about]
Appended(a, event) == events' = [events EXCEPT ![a] = Append(@, event)] /\ UNCHANGED refused
Refuses(a, write) ==
  refused' = [refused EXCEPT ![a] = @ \cup {write}] /\ UNCHANGED <<records, events>>
Unexpected == [failure_code |-> "session_initialization_failed", available_modes |-> Absent]
Fails(a, j, error) ==
  job' = [job EXCEPT ![a] = [j EXCEPT !.error = error]] /\ Goto(a, "failing") /\ UNCHANGED told

\* The client is told of an error; the attempt is over.
AnswersError(a, error) ==
  /\ told' = [told EXCEPT ![a] = [ok |-> FALSE, record |-> Absent, notices |-> {}, error |-> error]]
  /\ Goto(a, "answered")

(***************************************************************************)
(* _create_initial_record: two writes.  A refusal of either is answered at *)
(* once, outside the handler that marks records as failed.                 *)
(***************************************************************************)
CreateRecord(a) ==
  /\ At(a, "idle")
  /\ \E command \in Commands :
       LET record == NewRecord(command) IN
       /\ job' = [job EXCEPT ![a] = [NoJob EXCEPT !.command = command, !.record = record]]
       /\ \/ /\ records' = [records EXCEPT ![a] = record]
             /\ Goto(a, "initializing") /\ UNCHANGED <<events, refused, told>>
          \/ Refuses(a, "create") /\ AnswersError(a, Unexpected)

AppendInitializing(a) ==
  /\ At(a, "initializing")
  /\ \/ /\ Appended(a, Event("session.initializing", Command_(a).mode))
        /\ Goto(a, "profile") /\ UNCHANGED <<records, told>>
     \/ Refuses(a, "initializing") /\ AnswersError(a, Unexpected)
  /\ UNCHANGED job

(***************************************************************************)
(* _note_dependency: a degraded dependency is noted once on the record in  *)
(* memory and in the log.  next is where the handler goes from j.          *)
(***************************************************************************)
note_dependency(a, j, d, state, next) ==
  LET noted == [j EXCEPT !.record.degraded_dependencies = @ \cup {d}] IN
  IF is_degraded(state) /\ d \notin j.record.degraded_dependencies
  THEN \/ /\ Appended(a, Event("session.dependency_degraded", d))
          /\ job' = [job EXCEPT ![a] = noted] /\ Goto(a, next) /\ UNCHANGED <<records, told>>
       \/ Refuses(a, d) /\ Fails(a, noted, Unexpected)
  ELSE job' = [job EXCEPT ![a] = j] /\ Goto(a, next) /\ UNCHANGED <<records, events, refused, told>>

LoadProfile(a) ==
  /\ At(a, "profile")
  /\ \E state \in ProfileStates :
       note_dependency(a, [job[a] EXCEPT !.dependencies = Known(a, "profile", state)],
                       "profile", state, "naric")

LoadNaric(a) ==
  /\ At(a, "naric")
  /\ \E assessment \in Assessments :
       LET state == naric_state(assessment)
       IN  note_dependency(a, [job[a] EXCEPT !.dependencies = Known(a, "naric", state),
                                        !.assessment = assessment],
                           "naric", state, "resolved")

\* The level goes on the record only once its dependency is noted; then the
\* selection's shape is checked.
ResolveLevel(a) ==
  LET command == Command_(a)
      j == [job[a] EXCEPT !.record.naric_level_source =
              resolve_naric_level(job[a].assessment, command.continue_without_calibration)]
  IN  /\ At(a, "resolved")
      /\ IF ~shape_is_valid(command)
         THEN Fails(a, j, [failure_code |-> "selection_not_allowed", available_modes |-> Absent])
         ELSE /\ job' = [job EXCEPT ![a] = j]
              /\ Goto(a, IF command.mode = "free-form" THEN "finish" ELSE "catalogue")
              /\ UNCHANGED told
      /\ UNCHANGED <<records, events, refused>>

(***************************************************************************)
(* The mode's catalogue, and what follows from its availability.           *)
(***************************************************************************)
catalogue_of(mode) == IF mode = "course-linked" THEN "courses" ELSE "cases"

LoadCatalogue(a) ==
  LET d == catalogue_of(Command_(a).mode) IN
  /\ At(a, "catalogue")
  /\ \E state \in CatalogueStates :
       note_dependency(a, [job[a] EXCEPT !.dependencies = Known(a, d, state)], d, state, "selection")

Available(a) == Command_(a).mode \in evaluate_mode_availability(job[a].dependencies)

\* The course and its lesson, or the case: not chosen, no longer accessible,
\* unreachable, or there.
ResolveSelection(a) ==
  /\ At(a, "selection") /\ Available(a)
  /\ LET error(code) == Fails(a, job[a], [failure_code |-> code, available_modes |-> Absent])
     IN  IF ~selection_given(Command_(a)) THEN error("selection_required")
         ELSE \/ error("selection_not_accessible")
              \/ error("dependency_unavailable")
              \/ /\ job' = [job EXCEPT ![a].record.linked_resource = catalogue_of(Command_(a).mode)]
                 /\ Goto(a, "finish") /\ UNCHANGED told
  /\ UNCHANGED <<records, events, refused>>

\* _handle_unavailable_mode: downgrade if the client asked for it.
Downgrade(a) ==
  /\ At(a, "selection") /\ ~Available(a) /\ Command_(a).policy = "fallback_free_form"
  /\ LET j == [job[a] EXCEPT !.record.downgraded_from = Command_(a).mode] IN
     \/ /\ Appended(a, Event("session.mode_downgraded", Command_(a).mode))
        /\ job' = [job EXCEPT ![a] = j] /\ Goto(a, "finish") /\ UNCHANGED <<records, told>>
     \/ Refuses(a, "downgraded") /\ Fails(a, job[a], Unexpected)

\* ... or look at the other catalogue too, so that the refusal can say what is
\* still open.
EnsureCatalogues(a) ==
  LET d == IF Command_(a).mode = "course-linked" THEN "cases" ELSE "courses" IN
  /\ At(a, "selection") /\ ~Available(a) /\ Command_(a).policy = "fail"
  /\ \E state \in CatalogueStates :
       note_dependency(a, [job[a] EXCEPT !.dependencies = Known(a, d, state)], d, state, "refusal")

RefuseMode(a) ==
  /\ At(a, "refusal")
  /\ Fails(a, job[a], [failure_code |-> "session_mode_unavailable",
                       available_modes |-> evaluate_mode_availability(job[a].dependencies)])
  /\ UNCHANGED <<records, events, refused>>

\* An adapter raises outside its contract, which no loader catches.
AdapterBreaks(a) ==
  /\ \/ step[a] \in {"profile", "naric", "catalogue"}
     \/ At(a, "selection") /\ Available(a) /\ selection_given(Command_(a))
     \/ At(a, "selection") /\ ~Available(a) /\ Command_(a).policy = "fail"
  /\ Fails(a, job[a], Unexpected)
  /\ UNCHANGED <<records, events, refused>>

(***************************************************************************)
(* The record is finished: an update, and then the event.                  *)
(***************************************************************************)
Finished(a) ==
  LET record == job[a].record IN
  [record EXCEPT !.session_type = IF record.downgraded_from = Absent THEN @ ELSE "free-form",
                 !.status = IF record.degraded_dependencies # {} \/ record.downgraded_from # Absent
                            THEN "degraded" ELSE "active"]

UpdateRecord(a) ==
  /\ At(a, "finish")
  /\ LET j == [job[a] EXCEPT !.record = Finished(a)] IN
     \/ /\ records' = [records EXCEPT ![a] = j.record]
        /\ job' = [job EXCEPT ![a] = j] /\ Goto(a, "opened") /\ UNCHANGED <<events, refused, told>>
     \/ Refuses(a, "update") /\ Fails(a, j, Unexpected)

build_notices(j) ==
  LET state(d) == IF d \in DOMAIN j.dependencies THEN j.dependencies[d] ELSE "not asked"
      source == j.record.naric_level_source
  IN  {n \in {"session_mode_downgraded", "naric_calibration_unavailable", "naric_default_level_applied",
              "personalisation_unavailable", "personalisation_incomplete", "courses_unavailable",
              "courses_empty", "cases_unavailable", "cases_empty"} :
         \/ n = "session_mode_downgraded" /\ j.record.downgraded_from # Absent
         \/ n = "naric_calibration_unavailable" /\ source = "default"
         \/ n = "naric_default_level_applied" /\ source = "default_user_acknowledged"
         \/ n = "personalisation_unavailable" /\ state("profile") = "unavailable"
         \/ n = "personalisation_incomplete" /\ state("profile") = "incomplete"
         \/ n = "courses_unavailable" /\ state("courses") = "unavailable"
         \/ n = "courses_empty" /\ state("courses") = "empty"
         \/ n = "cases_unavailable" /\ state("cases") = "unavailable"
         \/ n = "cases_empty" /\ state("cases") = "empty"}

AppendOpened(a) ==
  /\ At(a, "opened")
  /\ \/ /\ Appended(a, Event("session.opened", job[a].record.session_type))
        /\ told' = [told EXCEPT ![a] = [ok |-> TRUE, record |-> job[a].record,
                                        notices |-> build_notices(job[a]), error |-> Absent]]
        /\ Goto(a, "answered") /\ UNCHANGED <<records, job>>
     \/ Refuses(a, "opened") /\ Fails(a, job[a], Unexpected)

(***************************************************************************)
(* _mark_failed: an update and an event, whose own refusal never masks the *)
(* error the client is told.                                               *)
(***************************************************************************)
\* Mutant: the record is marked in memory only.
MarkFailedUnsaved(a) ==
  /\ At(a, "failing")
  /\ job' = [job EXCEPT ![a].record.status = "failed"]
  /\ Goto(a, "failed") /\ UNCHANGED <<records, events, refused, told>>

MarkFailed(a) ==
  LET record == [job[a].record EXCEPT !.status = "failed",
                                      !.failure_code = job[a].error.failure_code] IN
  /\ At(a, "failing")
  /\ job' = [job EXCEPT ![a].record = record]
  /\ \/ /\ records' = [records EXCEPT ![a] = record]
        /\ Goto(a, "failed") /\ UNCHANGED <<events, refused, told>>
     \/ Refuses(a, "mark_failed") /\ AnswersError(a, job[a].error)

AppendFailed(a) ==
  /\ At(a, "failed")
  /\ \/ Appended(a, Event("session.failed", job[a].error.failure_code)) /\ UNCHANGED records
     \/ Refuses(a, "failed")
  /\ AnswersError(a, job[a].error)
  /\ UNCHANGED job

\* The process dies: records and events are on disk, the handler is gone and
\* nobody is answered.
Crash(a) ==
  /\ step[a] \notin {"idle", "answered", "dead"}
  /\ Goto(a, "dead") /\ job' = [job EXCEPT ![a] = NoJob]
  /\ UNCHANGED <<records, events, told, refused>>

OpenSession(a) ==
  \/ CreateRecord(a) \/ AppendInitializing(a) \/ LoadProfile(a) \/ LoadNaric(a) \/ ResolveLevel(a)
  \/ LoadCatalogue(a) \/ ResolveSelection(a) \/ Downgrade(a) \/ EnsureCatalogues(a)
  \/ RefuseMode(a) \/ AdapterBreaks(a)
  \/ UpdateRecord(a) \/ AppendOpened(a) \/ MarkFailed(a) \/ AppendFailed(a) \/ Crash(a)

OpeningNext == \E a \in Attempts : OpenSession(a)

(***************************************************************************)
(* Properties.                                                             *)
(***************************************************************************)
Record == [session_type : SessionMode, status : {"initializing", "active", "degraded", "failed"},
           requested_mode : SessionMode, downgraded_from : SessionMode \cup {Absent},
           linked_resource : {"courses", "cases", Absent},
           naric_level_source : {"naric", "default", "default_user_acknowledged"},
           degraded_dependencies : SUBSET DependencyName,
           failure_code : {Absent, "session_initialization_failed", "selection_not_allowed",
                            "selection_required","selection_not_accessible", "dependency_unavailable", "session_mode_unavailable"}]

\* The persisted records, and those in memory, are records.
OpeningTypeOK ==
  \A a \in Attempts : records[a] \in Record \cup {Absent} /\ job[a].record \in Record \cup {Absent}

Types(a) == {events[a][i].event_type : i \in DOMAIN events[a]}
Degraded(a) == {events[a][i].about : i \in {k \in DOMAIN events[a] :
                                              events[a][k].event_type = "session.dependency_degraded"}}

\* A client told that its session is open finds exactly that session stored,
\* logged as opened and nothing else, the dependencies and the downgrade the
\* record names being those the log names and those a notice tells the learner
\* of (open_session, get_session, _note_dependency, _build_notices).
OpenedIsRecorded ==
  \A a \in Attempts : told[a] # Absent =>
    (told[a].ok =>
      /\ records[a] = told[a].record /\ records[a].failure_code = Absent
      /\ "session.failed" \notin Types(a) /\ events[a][Len(events[a])].event_type = "session.opened"
      /\ records[a].degraded_dependencies = Degraded(a)
      /\ records[a].downgraded_from # Absent <=> "session.mode_downgraded" \in Types(a)
      /\ records[a].linked_resource # Absent <=> records[a].session_type # "free-form"
      /\ records[a].status = "degraded" => told[a].notices # {})

\* A client told of an error after its attempt was begun finds that error on
\* the record, whatever the store refused on the way, if only it took the
\* mark; and no mode that just failed is offered to it (_mark_failed,
\* _handle_unavailable_mode).
FailureIsRecorded ==
  \A a \in Attempts : told[a] # Absent =>
    (~told[a].ok /\ "session.initializing" \in Types(a) /\ "mark_failed" \notin refused[a] =>
      /\ records[a].status = "failed" /\ records[a].failure_code = told[a].error.failure_code
      /\ "session.opened" \notin Types(a)
      /\ "session.failed" \in Types(a) \/ "failed" \in refused[a]
      /\ told[a].error.available_modes # Absent =>
           records[a].requested_mode \notin told[a].error.available_modes
           /\ \A m \in told[a].error.available_modes \ {"free-form"} : catalogue_of(m) \notin Degraded(a))

=============================================================================
