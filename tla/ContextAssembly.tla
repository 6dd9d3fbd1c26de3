--------------------------- MODULE ContextAssembly ---------------------------
(***************************************************************************)
(* UC-02: the learning context of a session.  initialize reads the store,  *)
(* asks the four sources at once, each under its own timeout and all under *)
(* one budget, makes of whatever came back a context that is always valid, *)
(* saves it and answers.  The handlers are coroutines of one event loop    *)
(* and the store's lock is never contended, so a step runs from one        *)
(* suspension to the next: the reading, each source's outcome, the end of  *)
(* the budget, the building with the save.  A stored context disappears    *)
(* when its time to live is over.                                          *)
(***************************************************************************)
EXTENDS Naturals, Sequences

CONSTANTS Learners, Sessions, Requests,
          SourceName,            \* of "naric", "courses", "legal_profile", "question_history"
          NaricLevels,           \* the levels a qualification is held at
          ALLOW_FORCE_REFRESH,   \* BOOLEAN: the setting that opens the internal refresh
          MaxExpiries,           \* bound: contexts that live out their time
          Absent

\* What initialize answers with and the repository keeps.
Status == {"available", "partial", "empty", "unavailable", "invalid"}
Context == [session : Sessions, user : Learners, request : Requests,
            source_status : [SourceName -> Status],
            explanation_profile : {"basic", "intermediate", "advanced"},
            personalization : {"available", "empty_notice", "unavailable_notice"}]

\* A module that instantiates this one assumes it.
ContextConstants == /\ SourceName \subseteq {"naric", "courses", "legal_profile", "question_history"}
                    /\ NaricLevels \subseteq Nat
                    /\ ALLOW_FORCE_REFRESH \in BOOLEAN
                    /\ MaxExpiries \in Nat
                    /\ Absent \notin Context \cup Requests \cup Sessions

VARIABLES stored,    \* session -> the context the repository holds, or Absent
          calls,     \* request -> its identity and what its sources did
          answers,   \* the answers given and the expiries, in order
          phase      \* request -> "idle", "gathering" or "done"

context_vars == <<stored, calls, answers, phase>>

DEFAULT_NARIC_LEVEL == 5

(***************************************************************************)
(* What a source may come back with: a record, or one of the errors.       *)
(***************************************************************************)
Records(n) ==
  CASE n = "naric"            -> {[holds |-> "full", level |-> l] : l \in NaricLevels}
                                 \cup {[holds |-> "nothing", level |-> 0]}
    [] n = "question_history" -> [holds : {"full", "some", "nothing", "malformed"}, level : {0}]
    [] OTHER                  -> [holds : {"full", "some", "nothing"}, level : {0}]

ProviderErrors == {"unavailable", "invalid_response", "unexpected"}
Errors == ProviderErrors \cup {"timeout", "budget_exceeded"}
Failed(e) == [holds |-> e, level |-> 0]
Pending == Failed("pending")

Results(n) == Records(n) \cup {Failed(e) : e \in Errors} \cup {Pending}

\* Contract-shaped failures are invalid, transport-shaped ones unavailable.
status_for_error(e) == IF e \in {"invalid_response", "unexpected"} THEN "invalid" ELSE "unavailable"

normalise_naric(result) ==
  CASE result.holds \in Errors  -> [status |-> status_for_error(result.holds), level |-> DEFAULT_NARIC_LEVEL]
    [] result.holds = "nothing" -> [status |-> "empty", level |-> DEFAULT_NARIC_LEVEL]
    [] OTHER                    -> [status |-> "available", level |-> result.level]

normalise_courses(result) ==
  CASE result.holds \in Errors  -> status_for_error(result.holds)
    [] result.holds = "nothing" -> "empty"
    [] result.holds = "some"    -> "partial"       \* an enrolment whose last lesson is unknown
    [] OTHER                    -> "available"

normalise_legal(result) ==
  CASE result.holds \in Errors  -> status_for_error(result.holds)
    [] result.holds = "nothing" -> "empty"
    [] result.holds = "some"    -> "partial"       \* no speciality, or no practice area
    [] OTHER                    -> "available"

normalise_history(result) ==
  CASE result.holds \in Errors    -> status_for_error(result.holds)
    [] result.holds = "nothing"   -> "empty"
    [] result.holds = "malformed" -> "invalid"     \* rows came, and none could be read
    [] result.holds = "some"      -> "partial"
    [] OTHER                      -> "available"

normalised(n, result) ==
  CASE n = "naric"            -> normalise_naric(result).status
    [] n = "courses"          -> normalise_courses(result)
    [] n = "legal_profile"    -> normalise_legal(result)
    [] n = "question_history" -> normalise_history(result)

\* The three templates, clamped at both ends of the table of levels 3 to 9.
template_for_level(l) == CASE l <= 4       -> "basic"
                           [] l \in {5, 6} -> "intermediate"
                           [] l >= 7       -> "advanced"

\* Nothing recorded is said in other words than an outage.
personalization(status) ==
  LET saying(S) == \E n \in SourceName : status[n] \in S
  IN  CASE saying({"available", "partial"}) -> "available"
        [] ~saying({"available", "partial"}) /\ saying({"empty"}) -> "empty_notice"
        [] OTHER -> "unavailable_notice"

(***************************************************************************)
(* State.                                                                  *)
(***************************************************************************)
NoCall == [session |-> Absent, user |-> Absent, force |-> FALSE, had |-> FALSE, began |-> 0,
           results |-> [n \in SourceName |-> Pending], came |-> {}, ended |-> FALSE]

ContextInit ==
  /\ stored = [s \in Sessions |-> Absent]
  /\ calls = [r \in Requests |-> NoCall]
  /\ answers = <<>>
  /\ phase = [r \in Requests |-> "idle"]

answered(what, r, s, u, context) ==
  Append(answers, [what |-> what, request |-> r, session |-> s, user |-> u, context |-> context])

(***************************************************************************)
(* initialize up to its first suspension.                                  *)
(***************************************************************************)
\* Another learner's context: denied, as if there were none.
Deny(r, s, u) ==
  /\ stored[s] # Absent /\ stored[s].user # u
  /\ answers' = answered("denied", r, s, u, Absent)
  /\ phase' = [phase EXCEPT ![r] = "done"]
  /\ UNCHANGED <<stored, calls>>

\* The stored context, unchanged; no source is called.
Reuse(r, s, u, force) ==
  /\ stored[s] # Absent /\ stored[s].user = u /\ ~force
  /\ answers' = answered("existing", r, s, u, stored[s])
  /\ phase' = [phase EXCEPT ![r] = "done"]
  /\ UNCHANGED <<stored, calls>>

\* Mutant: the stored context is not looked at.
GatherAlways(r, s, u, force) ==
  /\ calls' = [calls EXCEPT ![r] = [NoCall EXCEPT !.session = s, !.user = u, !.force = force,
                                                  !.had = stored[s] # Absent, !.began = Len(answers)]]
  /\ phase' = [phase EXCEPT ![r] = "gathering"]
  /\ UNCHANGED <<stored, answers>>

\* The sources are called together.
Gather(r, s, u, force) ==
  /\ stored[s] # Absent => stored[s].user = u /\ force
  /\ calls' = [calls EXCEPT ![r] = [NoCall EXCEPT !.session = s, !.user = u, !.force = force,
                                                  !.had = stored[s] # Absent, !.began = Len(answers)]]
  /\ phase' = [phase EXCEPT ![r] = "gathering"]
  /\ UNCHANGED <<stored, answers>>

initialize(r, s, u, force) == Deny(r, s, u) \/ Reuse(r, s, u, force) \/ Gather(r, s, u, force)

\* The public path: force_refresh is rejected before the service is called.
initialize_context(r) ==
  phase[r] = "idle" /\ \E s \in Sessions, u \in Learners : initialize(r, s, u, FALSE)

\* The internal path, behind its setting and the administrator's header.
force_refresh_context(r) ==
  /\ phase[r] = "idle" /\ ALLOW_FORCE_REFRESH
  /\ \E s \in Sessions, u \in Learners : initialize(r, s, u, TRUE)

(***************************************************************************)
(* _gather_sources.                                                        *)
(***************************************************************************)
Waiting(r, n) == phase[r] = "gathering" /\ ~calls[r].ended /\ calls[r].results[n] = Pending

\* A source answers, or fails, within its own timeout; whatever else it raises
\* is kept as an error.
SourceAnswers(r, n) ==
  /\ Waiting(r, n)
  /\ \/ \E record \in Records(n) :
          calls' = [calls EXCEPT ![r].results[n] = record, ![r].came = @ \cup {n}]
     \/ \E e \in ProviderErrors : calls' = [calls EXCEPT ![r].results[n] = Failed(e)]
  /\ UNCHANGED <<stored, answers, phase>>

SourceTimesOut(r, n) ==
  /\ Waiting(r, n)
  /\ calls' = [calls EXCEPT ![r].results[n] = Failed("timeout")]
  /\ UNCHANGED <<stored, answers, phase>>

\* Mutants: the budget gives every source up; it marks none.
AllGivenUp(results) == [n \in SourceName |-> Failed("budget_exceeded")]
NoneGivenUp(results) == results

\* setdefault: what has come in is kept and only the stragglers are marked.
stragglers(results) ==
  [n \in SourceName |-> IF results[n] = Pending THEN Failed("budget_exceeded") ELSE results[n]]

BudgetElapses(r) ==
  /\ \E n \in SourceName : Waiting(r, n)
  /\ calls' = [calls EXCEPT ![r].ended = TRUE, ![r].results = stragglers(@)]
  /\ UNCHANGED <<stored, answers, phase>>

(***************************************************************************)
(* _build, the save and the answer.                                        *)
(***************************************************************************)
Built(r) ==
  LET results == calls[r].results
      status == [n \in SourceName |-> normalised(n, results[n])]
      naric == IF "naric" \in SourceName THEN normalise_naric(results["naric"])
               ELSE [status |-> "empty", level |-> DEFAULT_NARIC_LEVEL]
  IN  [session |-> calls[r].session, user |-> calls[r].user, request |-> r,
       source_status |-> status,
       explanation_profile |-> template_for_level(naric.level),
       personalization |-> personalization(status)]

BuildAndSave(r) ==
  /\ phase[r] = "gathering"
  /\ \A n \in SourceName : calls[r].results[n] # Pending
  /\ stored' = [stored EXCEPT ![calls[r].session] = Built(r)]
  /\ answers' = answered(IF calls[r].had THEN "refreshed" ELSE "created",
                         r, calls[r].session, calls[r].user, Built(r))
  /\ phase' = [phase EXCEPT ![r] = "done"]
  /\ UNCHANGED calls

\* The time to live is over: to every caller the context is absent.
ContextExpires(s) ==
  /\ Len(SelectSeq(answers, LAMBDA a : a.what = "expired")) < MaxExpiries
  /\ stored[s] # Absent
  /\ stored' = [stored EXCEPT ![s] = Absent]
  /\ answers' = answered("expired", Absent, s, stored[s].user, stored[s])
  /\ UNCHANGED <<calls, phase>>

ContextNext ==
  \/ \E r \in Requests : \/ initialize_context(r) \/ force_refresh_context(r)
                         \/ BudgetElapses(r) \/ BuildAndSave(r)
  \/ \E r \in Requests, n \in SourceName : SourceAnswers(r, n) \/ SourceTimesOut(r, n)
  \/ \E s \in Sessions : ContextExpires(s)

ContextSpec == ContextInit /\ [][ContextNext]_context_vars

(***************************************************************************)
(* Properties.                                                             *)
(***************************************************************************)
\* Stored contexts, calls and phases have their types, and a context is stored
\* under its own session.
ContextTypeOK ==
  /\ \A s \in Sessions : stored[s] = Absent \/ (stored[s] \in Context /\ stored[s].session = s)
  /\ phase \in [Requests -> {"idle", "gathering", "done"}]
  /\ \A r \in Requests, n \in SourceName : calls[r].results[n] \in Results(n)

\* Between the answers i and j of a session its context neither expired nor
\* was refreshed.
Undisturbed(i, j) ==
  \A k \in i..j :
    answers[k].session = answers[i].session => answers[k].what \notin {"expired", "refreshed"}

\* A session's context is built once: an answer carries a context of the
\* learner who asked, one that calls itself a refresh was asked to refresh,
\* and a second one that calls itself the first can only be of a request that
\* was already under way when the first was answered (initialize: build once,
\* never query again).
BuiltOncePerSession ==
  \A j \in DOMAIN answers : answers[j].what \in {"created", "existing", "refreshed"} =>
    /\ answers[j].context.user = answers[j].user
    /\ answers[j].what = "refreshed" => calls[answers[j].request].force
    /\ \A i \in 1..(j - 1) :
         (answers[i].what = "created" /\ answers[j].what = "created"
            /\ answers[i].session = answers[j].session /\ Undisturbed(i, j))
           => calls[answers[j].request].began < i

\* A learner who has nothing recorded is not told of an outage, nor the
\* reverse; and what a source brought before the budget ran out is in the
\* context, the stragglers alone being given up (_gather_sources, normalisers,
\* _personalization).
GivenUpOnlyIfLate ==
  \A r \in Requests : phase[r] = "done" /\ calls[r].session # Absent =>
    LET results == calls[r].results
        Came == calls[r].came
    IN  \A i \in DOMAIN answers : answers[i].request = r =>
          LET context == answers[i].context IN
          /\ \A n \in DOMAIN context.source_status :
               /\ context.source_status[n] = "empty" <=> results[n].holds = "nothing"
               /\ context.source_status[n] = "unavailable" =>
                    results[n].holds \in {"timeout", "unavailable", "budget_exceeded"}
          /\ \A n \in Came : context.source_status[n] # "unavailable"
          /\ context.personalization = "unavailable_notice" =>
               \A n \in Came : results[n].holds = "malformed"
          /\ context.personalization = "empty_notice" =>
               \A n \in Came : results[n].holds \in {"nothing", "malformed"}

Content(context) == [context EXCEPT !.request = Absent]

\* A-29 of docs/assumptions.md: a stored context is returned unchanged for the
\* life of the session.
ReturnedUnchanged ==
  \A i, j \in DOMAIN answers :
    (/\ i < j /\ answers[i].session = answers[j].session /\ answers[i].user = answers[j].user
     /\ answers[i].what \in {"created", "existing"} /\ answers[j].what \in {"created", "existing"}
     /\ Undisturbed(i, j))
       => Content(answers[j].context) = Content(answers[i].context)

\* A request is answered whatever the sources do: the budget needs none of them.
EveryCallIsAnswered == \A r \in Requests : phase[r] = "gathering" ~> phase[r] = "done"

=============================================================================
