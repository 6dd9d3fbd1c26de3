-------------------------- MODULE UpstreamDocuments --------------------------
(***************************************************************************)
(* The documents the adapters fetch from their upstreams: what each makes  *)
(* of one that has gaps, words it does not know or another shape than it   *)
(* expects, and of an upstream that fails.  What an upstream can hold is   *)
(* abstracted to the one list an operation walks, of which a single object *)
(* is the case of a list that is read no further than its first entry.     *)
(* An adapter is a row of a table, one field for each thing that can be    *)
(* wrong with a document, filled in from its code.                         *)
(***************************************************************************)
EXTENDS LearnerLevels, Sequences, SequencesExt

CONSTANTS MaxCalls   \* a bound on the documents that are asked for in one behaviour

VARIABLES
  document,   \* what the upstream of the operations called holds
  taken       \* what each operation called returned or raised

document_vars == <<document, taken>>

\* "gap": a field that is asked for is missing; "word": one holds a word, or a
\* reference, that means nothing; "odd": the entry is not an object.
Entry == {"whole", "gap", "word", "odd"}

\* The object the list is in may be no object, the list missing or no list.
\* "annexed": a case file has notes on legislation too.
Fine == [shape |-> "object", list |-> "list", entries |-> <<>>, annexed |-> TRUE]
ListDocuments ==
  {[Fine EXCEPT !.shape = "odd"], [Fine EXCEPT !.list = "absent"], [Fine EXCEPT !.list = "odd"]} \cup
  [shape : {"object"}, list : {"list"}, entries : SeqOf(Entry, 2), annexed : BOOLEAN]

\* The state of a grant or of an enrolment, as the upstream words it.
VerdictDocuments == [verdict : {"yes", "no", "other", "unsaid", "none"}]

-----------------------------------------------------------------------------
(* What an operation does with each fault of a document: an error, or      *)
(* "kept" for a word that is replaced by its documented unknown, or "none" *)
(* for a list that counts as one without entries.                          *)

Walk(shape, absent, list, gap, word, odd) ==
  [shape |-> shape, absent |-> absent, list |-> list, gap |-> gap, word |-> word, odd |-> odd,
   empty |-> "none", reads |-> 2]

acme_generate_question ==
  [Walk("invalid", "invalid", "untyped", "invalid", "invalid", "untyped")
     EXCEPT !.empty = "invalid", !.reads = 1]
acme_generate_answer ==
  [Walk("invalid", "invalid", "invalid", "invalid", "invalid", "invalid") EXCEPT !.empty = "invalid"]
acme_classify ==
  [Walk("invalid", "invalid", "untyped", "invalid", "invalid", "untyped")
     EXCEPT !.empty = "invalid", !.reads = 1]

foreign_get_case_file == Walk("invalid", "none", "invalid", "invalid", "kept", "invalid")
newco_get_case_file == Walk("invalid", "invalid", "invalid", "invalid", "kept", "invalid")
foreign_generate == Walk("invalid", "none", "invalid", "invalid", "kept", "invalid")

\* A word here is a concept that refers to no section of the lesson.
demo_get_lesson == Walk("invalid", "invalid", "invalid", "untyped", "kept", "untyped")
company_get_lesson == Walk("untyped", "invalid", "invalid", "invalid", "invalid", "invalid")
company_get_course_structure == Walk("untyped", "none", "invalid", "invalid", "kept", "invalid")

nexus_interactions == Walk("invalid", "none", "untyped", "invalid", "invalid", "invalid")
nexus_feedback == Walk("invalid", "none", "untyped", "invalid", "invalid", "untyped")
nexus_recommendations == Walk("untyped", "none", "invalid", "invalid", "invalid", "untyped")
nexus_enrolments == Walk("untyped", "none", "invalid", "invalid", "invalid", "untyped")
nexus_catalogue == Walk("invalid", "none", "invalid", "invalid", "kept", "invalid")

\* Mutant: an entry that cannot be mapped is passed over.
lexicon_entries_leniently == Walk("invalid", "invalid", "invalid", "kept", "kept", "kept")
lexicon_entries == Walk("invalid", "invalid", "invalid", "invalid", "invalid", "invalid")
lexicon_suggested_topic ==
  [Walk("invalid", "none", "invalid", "invalid", "kept", "invalid") EXCEPT !.reads = 1]

lexportal_session ==
  [Walk("invalid", "invalid", "invalid", "invalid", "kept", "invalid")
     EXCEPT !.empty = "invalid", !.reads = 1]
lexportal_transcript == Walk("invalid", "invalid", "invalid", "invalid", "kept", "invalid")
lexportal_authorities == Walk("invalid", "invalid", "invalid", "invalid", "kept", "invalid")
lexportal_recommendations == Walk("invalid", "invalid", "invalid", "invalid", "kept", "invalid")
larrycore_session ==
  [Walk("invalid", "invalid", "invalid", "invalid", "kept", "invalid")
     EXCEPT !.empty = "invalid", !.reads = 1]
http_generate ==
  [Walk("invalid", "invalid", "invalid", "invalid", "invalid", "invalid")
     EXCEPT !.empty = "invalid", !.reads = 1]

interaction_get ==
  [Walk("untyped", "invalid", "untyped", "untyped", "kept", "untyped")
     EXCEPT !.empty = "invalid", !.reads = 1]

Reads ==
  [uc05_acme_question |-> acme_generate_question, uc05_acme_answer |-> acme_generate_answer,
   uc05_acme_intent |-> acme_classify,
   uc06_foreign_case |-> foreign_get_case_file, uc06_newco_case |-> newco_get_case_file,
   uc06_foreign_answer |-> foreign_generate,
   uc04_demo_lesson |-> demo_get_lesson, uc04_company_lesson |-> company_get_lesson,
   uc04_company_structure |-> company_get_course_structure,
   uc07_interactions |-> nexus_interactions, uc07_feedback |-> nexus_feedback,
   uc07_recommendations |-> nexus_recommendations, uc07_enrolments |-> nexus_enrolments,
   uc07_catalogue |-> nexus_catalogue,
   uc08_entries |-> lexicon_entries, uc08_suggested_topic |-> lexicon_suggested_topic,
   uc09_session |-> lexportal_session, uc09_transcript |-> lexportal_transcript,
   uc09_authorities |-> lexportal_authorities, uc09_recommendations |-> lexportal_recommendations,
   uc09_larrycore_session |-> larrycore_session, uc09_http_summary |-> http_generate,
   uc10_interaction |-> interaction_get]

\* What is wrong with the part of the document an operation reads, first to last.
Flaws(t) ==
  LET said == SubSeq(document.entries, 1, IF Len(document.entries) < t.reads
                                         THEN Len(document.entries) ELSE t.reads)
  IN IF document.shape = "odd" THEN <<"shape">>
     ELSE IF document.list = "absent" THEN <<"absent">>
     ELSE IF document.list = "odd" THEN <<"list">>
     ELSE IF said = <<>> THEN <<"empty">>
     ELSE SelectSeq(said, LAMBDA e : e # "whole")

Given(entries, status) == [gives |-> entries, status |-> status]

\* A case file without notes on legislation is partial.
SourceStatus(op, entries) ==
  IF entries = <<>> THEN "empty"
  ELSE IF op \in {"uc06_foreign_case", "uc06_newco_case"} /\ ~document.annexed THEN "partial"
  ELSE "available"

map_payload(op) ==
  LET t == Reads[op]
      errors == SelectSeq(Flaws(t), LAMBDA f : t[f] \notin {"none", "kept"})
      entries == SubSeq(document.entries, 1, IF Len(document.entries) < t.reads
                                            THEN Len(document.entries) ELSE t.reads)
  IN IF errors # <<>> THEN Raised(t[Head(errors)])
     ELSE Given(entries, SourceStatus(op, entries))

-----------------------------------------------------------------------------
(* The verdicts on which protected content is opened *)

Verdict(granted) == [granted |-> granted]

foreign_verify_read_access ==
  IF document.verdict \notin {"yes", "no"} THEN Raised("invalid") ELSE Verdict(document.verdict = "yes")
newco_verify_read_access ==
  IF document.verdict \notin {"yes", "no"} THEN Raised("invalid") ELSE Verdict(document.verdict = "yes")

\* No enrolment on record, or one in any other state, is none.
demo_verify_enrolment ==
  IF document.verdict = "unsaid" THEN Raised("untyped") ELSE Verdict(document.verdict = "yes")
\* Mutant: an enrolment that is not refused is one.
company_verify_enrolment_or_open == Verdict(document.verdict # "no")
company_verify_enrolment == Verdict(document.verdict = "yes")

Verifies == {"uc06_foreign_access", "uc06_newco_access", "uc04_demo_enrolment", "uc04_company_enrolment"}

verify(op) ==
  CASE op = "uc06_foreign_access" -> foreign_verify_read_access
    [] op = "uc06_newco_access" -> newco_verify_read_access
    [] op = "uc04_demo_enrolment" -> demo_verify_enrolment
    [] op = "uc04_company_enrolment" -> company_verify_enrolment

-----------------------------------------------------------------------------
(* What becomes of an upstream that fails, or has nothing under the name asked for *)

EnvelopeErrors ==
  [refuses |-> "unavailable", late |-> "timeout", gone |-> "not_found", unnamed_error |-> "invalid"]
TransportErrors == [refuses |-> "unavailable", late |-> "timeout", gone |-> "not_found"]
NewCoErrors == [refuses |-> "unavailable", late |-> "timeout", gone |-> "invalid"]
SessionErrors == ("gone" :> "not_found") @@ LexPortalFailures
LarryCoreErrors == ("gone" :> "not_found") @@ LarryCoreFailures
GeneratorErrors == [refuses |-> "unavailable", late |-> "timeout", unnamed_error |-> "invalid"]
InteractionErrors == ("gone" :> "not_found") @@ InteractionFailures

Errors(op) ==
  CASE op \in {"uc05_acme_question", "uc05_acme_answer", "uc05_acme_intent"} -> AcmeFailures
    [] op \in {"uc06_foreign_case", "uc06_foreign_answer", "uc06_foreign_access"} -> MattersphereFailures
    [] op \in {"uc06_newco_case", "uc06_newco_access"} -> NewCoErrors
    [] op = "uc04_demo_lesson" -> EnvelopeErrors
    [] op \in {"uc04_company_lesson", "uc04_company_structure", "uc04_company_enrolment"} -> TransportErrors
    [] op = "uc04_demo_enrolment" -> [f \in {} |-> "unavailable"]
    [] op \in {"uc07_interactions", "uc07_feedback", "uc07_recommendations", "uc07_enrolments",
               "uc07_catalogue"} -> NexusFailures
    [] op \in {"uc08_entries", "uc08_suggested_topic"} -> LexiconFailures
    [] op = "uc09_session" -> SessionErrors
    [] op \in {"uc09_transcript", "uc09_authorities", "uc09_recommendations"} -> LexPortalFailures
    [] op = "uc09_larrycore_session" -> LarryCoreErrors
    [] op = "uc09_http_summary" -> GeneratorErrors
    [] op = "uc10_interaction" -> InteractionErrors

\* Where what is not there is an answer: nothing under that name.
AbsenceIsAnAnswer ==
  {"uc07_interactions", "uc07_feedback", "uc08_entries", "uc08_suggested_topic",
   "uc09_transcript", "uc09_authorities", "uc09_recommendations"}

\* An error in words that are not looked for is a document without the list.
Unnamed(op) ==
  IF op \in Verifies THEN Verdict(FALSE)
  ELSE IF Reads[op].absent = "none" THEN Given(<<>>, "empty") ELSE Raised(Reads[op].absent)

call(op) ==
  CASE service = "answers" -> IF op \in Verifies THEN verify(op) ELSE map_payload(op)
    [] service # "answers" /\ service \in DOMAIN Errors(op) ->
         IF op = "uc04_company_enrolment" /\ Errors(op)[service] = "not_found"
         THEN Verdict(FALSE) ELSE Raised(Errors(op)[service])
    [] service = "gone" /\ op \in AbsenceIsAnAnswer -> Given(<<>>, "empty")
    [] OTHER -> Unnamed(op)

Asks == IF "verdict" \in DOMAIN document THEN Verifies ELSE DOMAIN Reads

SpeaksItself == {"uc05_acme_question", "uc05_acme_answer", "uc05_acme_intent",
                 "uc04_company_lesson", "uc04_company_structure", "uc04_company_enrolment"}

CanMeet(op) ==
  \/ service = "answers"
  \/ service \in DOMAIN Errors(op) \ {"garbled", "odd"}
  \/ service = "gone" /\ op \in AbsenceIsAnAnswer
  \/ service = "unnamed_error" /\ op \in SpeaksItself

Take(op) ==
  /\ op \notin DOMAIN taken
  /\ Cardinality(DOMAIN taken) < MaxCalls
  /\ CanMeet(op)
  /\ taken' = (op :> [made |-> call(op), met |-> service]) @@ taken
  /\ UNCHANGED <<document, level_vars>>

NoLevels == record = [holds |-> "nothing", origin |-> "unsaid", spelled |-> "own"] /\ readings = <<>>

UpstreamsInit ==
  \/ LevelsInit /\ document = Fine /\ taken = <<>>
  \/ NoLevels /\ service = "answers" /\ document \in ListDocuments \cup VerdictDocuments /\ taken = <<>>

UpstreamsNext ==
  \/ document = Fine /\ taken = <<>> /\ LevelsNext /\ UNCHANGED document_vars
  \/ NoLevels /\ \E op \in Asks : Take(op)
  \/ NoLevels /\ Cardinality(DOMAIN taken) < MaxCalls /\ (Fails \/ Recovers) /\ UNCHANGED document_vars

PortErrors == {"unavailable", "timeout", "invalid", "not_found"}

UpstreamsTypeOK ==
  /\ LevelsTypeOK
  /\ document \in ListDocuments \cup VerdictDocuments
  /\ \A op \in DOMAIN taken :
       /\ taken[op].met \in ServiceState
       /\ LET made == taken[op].made IN
            \/ "raises" \in DOMAIN made /\ made.raises \in PortErrors \cup {"untyped"}
            \/ "granted" \in DOMAIN made /\ made.granted \in BOOLEAN
            \/ "gives" \in DOMAIN made /\ made.status \in {"available", "partial", "empty"}

-----------------------------------------------------------------------------
(* Properties *)

Made(op) == taken[op].made
Gave == {op \in DOMAIN taken : "gives" \in DOMAIN Made(op)}
Opened == {op \in DOMAIN taken : "granted" \in DOMAIN Made(op) /\ Made(op).granted}

\* The adapters that translate every failure of a payload into the errors of
\* their port: a case file's, an answer's of either company, a streak's and
\* the session summary's.  The others let errors of the language through.
Translates ==
  {"uc05_acme_answer", "uc06_foreign_case", "uc06_newco_case", "uc06_foreign_answer",
   "uc08_entries", "uc08_suggested_topic", "uc09_session", "uc09_transcript", "uc09_authorities",
   "uc09_recommendations", "uc09_larrycore_session", "uc09_http_summary"}

\* A document is taken whole or refused: what an adapter gives is all it reads
\* of the document, with no gap and nothing that is no entry.
NothingHalfRead ==
  /\ \A op \in Gave : Made(op).gives # <<>> =>
       /\ IsPrefix(Made(op).gives, document.entries)
       /\ Len(Made(op).gives) = Len(document.entries) \/ Reads[op].reads = 1
       /\ \A i \in DOMAIN Made(op).gives : Made(op).gives[i] \in {"whole", "word"}
  /\ \A op \in Translates \cap DOMAIN taken : "raises" \in DOMAIN Made(op) => Made(op).raises \in PortErrors

\* An upstream that fails is not taken for one with nothing to give, and none
\* lets a learner in but on its word.  An error status that the company's
\* course adapter does not know is read as a course without lessons.
FailureIsNoAnswer ==
  /\ \A op \in Gave : Made(op).gives = <<>> =>
       \/ taken[op].met = "answers" /\ document.shape = "object" /\ document.entries = <<>>
       \/ taken[op].met = "gone" /\ op \in AbsenceIsAnAnswer
       \/ taken[op].met = "unnamed_error" /\ op = "uc04_company_structure"
  /\ \A op \in Opened : taken[op].met = "answers" /\ document.verdict = "yes"

=============================================================================
