----------------------------- MODULE CourseCoaching -----------------------------
(***************************************************************************)
(* UC-04: coaching on the lesson of a course (coaching_service.py).        *)
(* Routes are plain functions, so requests run in threads: every call that *)
(* reaches the framing registry, the interaction log or the enrolment      *)
(* service is a step of its own, and any of them may fail.                 *)
(*                                                                         *)
(* A lesson is its sections, each with KeyPoints key points, and concepts, *)
(* each at home in a section.  A quotable span is <<section, n>>, the nth  *)
(* key point, or <<concept, 0>>, its definition.  Texts the fingerprints   *)
(* take for a repeat of one another are one text.  Left out: cross-lesson  *)
(* references, the count of re-explanations, prompts, notices, actions and *)
(* topics.  Levels are in LearnerLevels, quiz protection in QuizProtection.*)
(***************************************************************************)
EXTENDS Naturals, Sequences, FiniteSets, FiniteSetsExt, SequencesExt

CONSTANTS Threads, CourseLearners, CourseSessions, Sections, Concepts, section_of,
          KeyPoints, FRAMING_ORDER, Texts,
          MAX_QUOTED_SPANS_PER_CONCEPT, MAX_QUOTED_SPANS_PER_RESPONSE,
          MaxTurns,   \* bound
          UNCLASSIFIED, None

\* What the constants are; a module that instantiates this one assumes it.
CourseConstants ==
  /\ Threads # {} /\ UNCLASSIFIED \notin Concepts /\ section_of \in [Concepts -> Sections]
  /\ FRAMING_ORDER \in Seq(ToSet(FRAMING_ORDER)) /\ Len(FRAMING_ORDER) > 0
  /\ IsInjective(FRAMING_ORDER) /\ None \notin ToSet(FRAMING_ORDER)
  /\ {KeyPoints, MAX_QUOTED_SPANS_PER_CONCEPT, MAX_QUOTED_SPANS_PER_RESPONSE, MaxTurns} \subseteq Nat

VARIABLES enrolled,      \* the learners enrolled on the course
          attempts,      \* InMemoryFramingRegistry._attempts
          interactions,  \* InMemoryInteractionLog._records
          answers,       \* the responses, in the order they were given
          asked, at, turn

course_vars == <<enrolled, attempts, interactions, answers, asked, at, turn>>

FramingStrategy == ToSet(FRAMING_ORDER)
Grounding == {"lesson", "general_knowledge"}
ResponseStatus == {"answered", "framings_exhausted"}
Kind == {"ask", "explain_differently", "go_deeper"}
ConceptTag == Concepts \cup {UNCLASSIFIED}
Spans == (Sections \X (1..KeyPoints)) \cup (Concepts \X {0})

FramingAttempt == [framing : FramingStrategy, text : Texts]

\* InteractionRecord, what a follow-up reads of it.
Prior == [session : CourseSessions, user : CourseLearners, concept : ConceptTag,
          grounding : Grounding, section : Sections \cup {None}]

\* A response, and what the properties ask of its request: how many answers
\* had been given when it came, whether its learner was enrolled at a moment
\* of it, whether its history could not be read, its framing not recorded.
Answers == [status : ResponseStatus, kind : Kind, session : CourseSessions, concept : ConceptTag,
            grounding : Grounding, framing : FramingStrategy \cup {None}, text : Texts \cup {None},
            spans : SUBSET Spans, came : Nat, entitled : BOOLEAN,
            unread : BOOLEAN, unrecorded : BOOLEAN]

At == {"idle", "enrolment", "lesson", "history", "generate", "record", "log"}

NoMatch == [section |-> None, concept |-> None]

\* What a turn knows, before it knows anything.
NoTurn == [kind |-> "ask", session |-> None, user |-> None, concept |-> UNCLASSIFIED,
           match |-> NoMatch, grounding |-> "general_knowledge",
           history |-> <<>>, framing |-> None, text |-> None, spans |-> {},
           came |-> 0, entitled |-> FALSE, unread |-> FALSE, unrecorded |-> FALSE]

TypeOK ==
  /\ enrolled \subseteq CourseLearners
  /\ attempts \in [CourseSessions \X ConceptTag -> Seq(FramingAttempt)]
  /\ interactions \in Seq(Prior)
  /\ answers \in Seq(Answers)
  /\ asked \in 0..MaxTurns /\ at \in [Threads -> At]
  /\ \A w \in Threads : turn[w].spans \subseteq Spans /\ turn[w].grounding \in Grounding

CourseInit ==
  /\ enrolled \in SUBSET CourseLearners
  /\ attempts = [key \in CourseSessions \X ConceptTag |-> <<>>]
  /\ interactions = <<>> /\ answers = <<>>
  /\ asked = 0 /\ at = [w \in Threads |-> "idle"] /\ turn = [w \in Threads |-> NoTurn]

-----------------------------------------------------------------------------
(* The lesson's material, and how much of it may be quoted. *)

ConceptsOf(s) == {c \in Concepts : section_of[c] = s}

\* match: a section, with its best concept when it has any.
Matches == {NoMatch} \cup UNION {{[section |-> s, concept |-> c] :
                                    c \in IF ConceptsOf(s) = {} THEN {None} ELSE ConceptsOf(s)} :
                                 s \in Sections}

\* quotable_material: the concept's definition, then the key points.
quotable_material(match) ==
  LET summary == IF match.concept = None THEN <<>> ELSE <<<<match.concept, 0>>>>
      points == IF match.section = None THEN <<>>
                ELSE [n \in 1..KeyPoints |-> <<match.section, n>>]
      material == summary \o points
  IN SubSeq(material, 1, Min({MAX_QUOTED_SPANS_PER_CONCEPT, Len(material)}))

\* spans_for_response: a slice of them, rotated.
spans_for_response(material, index) ==
  LET n == Len(material)
  IN {material[((index + k) % n) + 1] : k \in 0..Min({MAX_QUOTED_SPANS_PER_RESPONSE, n}) - 1}

\* A claim to the lesson needs a match with something to quote.
Grounded(match, claimed) ==
  IF quotable_material(match) = <<>> THEN "general_knowledge" ELSE claimed

\* find_concept.
find_concept(c) == [section |-> section_of[c], concept |-> c]

\* _rematch: by the concept of the record, else by its section.
_rematch(prior, lesson) ==
  IF ~ lesson THEN {NoMatch}
  ELSE IF prior.concept \in Concepts THEN {find_concept(prior.concept)}
  ELSE IF prior.section = None THEN {NoMatch}
  ELSE {[section |-> prior.section, concept |-> c] :
          c \in IF ConceptsOf(prior.section) = {} THEN {None} ELSE ConceptsOf(prior.section)}

\* _resolve_concept_tag: the known item's concept, the tagger's, the match's.
_resolve_concept_tag(item, tag, match) ==
  IF item # None THEN item
  ELSE IF tag # UNCLASSIFIED THEN tag
  ELSE IF match.concept # None THEN match.concept
  ELSE UNCLASSIFIED

-----------------------------------------------------------------------------

Key(w) == <<turn[w].session, turn[w].concept>>

Goto(w, label, locals) ==
  /\ at' = [at EXCEPT ![w] = label]
  /\ turn' = [turn EXCEPT ![w] = locals]

\* An exception reaches its handler: the learner gets an error.
Fail(w) == Goto(w, "idle", NoTurn)

SetEnrolment ==
  /\ \E u \in CourseLearners : enrolled' = SymDiff(enrolled, {u})
  /\ turn' = [w \in Threads |->
                [turn[w] EXCEPT !.entitled = turn[w].entitled \/ turn[w].user \in enrolled']]
  /\ UNCHANGED <<attempts, interactions, answers, asked, at>>

Begin(s, u, kind) == [NoTurn EXCEPT !.session = s, !.user = u, !.kind = kind,
                                    !.came = Len(answers), !.entitled = u \in enrolled]

\* ask, of a session that has an id.
AskQuestion(w) ==
  /\ at[w] = "idle" /\ asked < MaxTurns
  /\ asked' = asked + 1
  /\ \E s \in CourseSessions, u \in CourseLearners : Goto(w, "enrolment", Begin(s, u, "ask"))
  /\ UNCHANGED <<enrolled, attempts, interactions, answers>>

\* explain_differently and go_deeper, of a record the log still has and the
\* learner owns.
FollowUp(w) ==
  /\ at[w] = "idle" /\ asked < MaxTurns
  /\ asked' = asked + 1
  /\ \/ \E u \in CourseLearners, kind \in Kind \ {"ask"}, i \in DOMAIN interactions :
          LET prior == interactions[i]
          IN IF prior.user # u THEN Fail(w)
             ELSE Goto(w, "enrolment",
                       [Begin(prior.session, u, kind) EXCEPT
                          !.concept = prior.concept, !.grounding = prior.grounding,
                          !.match = [NoMatch EXCEPT !.section = prior.section]])
     \/ Fail(w)
  /\ UNCHANGED <<enrolled, attempts, interactions, answers>>

-----------------------------------------------------------------------------
(* _load, and what the question is about. *)

\* What a turn without its lesson explains: general knowledge.
WithoutLesson(w, concept) ==
  Goto(w, "history", [turn[w] EXCEPT !.concept = concept, !.match = NoMatch,
                                     !.grounding = "general_knowledge"])

\* verify_enrolment comes before anything that touches content: refused, or,
\* when it cannot be verified, no lesson.
VerifyEnrolment(w) ==
  /\ at[w] = "enrolment"
  /\ \/ IF turn[w].user \in enrolled THEN Goto(w, "lesson", turn[w]) ELSE Fail(w)
     \/ turn[w].kind # "ask" /\ WithoutLesson(w, turn[w].concept)
     \/ turn[w].kind = "ask" /\ \E tag \in ConceptTag : WithoutLesson(w, tag)
  /\ UNCHANGED <<enrolled, attempts, interactions, answers, asked>>

\* get_lesson, then the tagger, the matcher and the lesson's own quiz items; a
\* tagger that fails tags nothing.
LoadLesson(w) ==
  /\ at[w] = "lesson"
  /\ \E lesson \in BOOLEAN :
       \/ /\ turn[w].kind = "ask"
          /\ \E tag \in ConceptTag, match \in IF lesson THEN Matches ELSE {NoMatch},
                item \in IF lesson THEN Concepts \cup {None} ELSE {None} :
               Goto(w, "history",
                    [turn[w] EXCEPT !.concept = _resolve_concept_tag(item, tag, match),
                                    !.match = match, !.grounding = Grounded(match, "lesson")])
       \/ /\ turn[w].kind # "ask"
          /\ \E match \in _rematch([concept |-> turn[w].concept, section |-> turn[w].match.section], lesson) :
               Goto(w, "history",
                    [turn[w] EXCEPT !.match = match, !.grounding = Grounded(match, @)])
  /\ UNCHANGED <<enrolled, attempts, interactions, answers, asked>>

-----------------------------------------------------------------------------
(* _explain. *)

\* plan: the framings not used yet, by their places in the order.
plan(history) ==
  LET used == {history[i].framing : i \in DOMAIN history}
  IN {k \in DOMAIN FRAMING_ORDER : FRAMING_ORDER[k] \notin used}

\* What a turn goes through: the first of all when none is unused.
candidates(history) == IF plan(history) = {} THEN {1} ELSE plan(history)

\* is_repeat.
is_repeat(text, history) == \E i \in DOMAIN history : history[i].text = text

\* _exhausted_response.
Exhausted(w) == Goto(w, "log", [turn[w] EXCEPT !.framing = None, !.text = None, !.spans = {}])

\* _framing_history: a registry that cannot be read has no history.  With
\* every framing spent, only a re-explanation ends here.
ReadHistory(w) ==
  /\ at[w] = "history"
  /\ \/ LET history == attempts[Key(w)]
        IN IF turn[w].kind = "explain_differently" /\ plan(history) = {}
           THEN Exhausted(w)
           ELSE Goto(w, "generate", [turn[w] EXCEPT !.history = history])
     \/ Goto(w, "generate", [turn[w] EXCEPT !.unread = TRUE])
  /\ UNCHANGED <<enrolled, attempts, interactions, answers, asked>>

\* Mutant: what the generator returns first is returned.
GenerateOnce(w) ==
  /\ at[w] = "generate"
  /\ \E k \in candidates(turn[w].history), text \in Texts :
       /\ \A m \in candidates(turn[w].history) : k <= m
       /\ Goto(w, "record", [turn[w] EXCEPT !.framing = FRAMING_ORDER[k], !.text = text])
  /\ UNCHANGED <<enrolled, attempts, interactions, answers, asked>>

\* _generate_non_repeat: the first candidate whose text is no repeat.  The spans
\* are what it may quote, rotated by the attempts there were and those just made.
Generate(w) ==
  /\ at[w] = "generate"
  /\ LET history == turn[w].history
         material == quotable_material(turn[w].match)
         before(k) == Cardinality({m \in candidates(history) : m < k})
     IN \/ Fail(w)
        \/ \E texts \in [candidates(history) -> Texts] :
             LET fresh == {k \in candidates(history) : ~ is_repeat(texts[k], history)}
             IN \/ fresh = {} /\ Exhausted(w)
                \/ \E k \in fresh :
                     /\ \A m \in fresh : k <= m
                     /\ Goto(w, "record",
                             [turn[w] EXCEPT
                                !.framing = FRAMING_ORDER[k], !.text = texts[k],
                                !.spans = spans_for_response(material, Len(history) + before(k))])
  /\ UNCHANGED <<enrolled, attempts, interactions, answers, asked>>

\* The registry's record: one more attempt under the session and the concept.
record(key, framing, text) ==
  attempts' = [attempts EXCEPT ![key] = Append(@, [framing |-> framing, text |-> text])]

\* _record_framing, of every answer, asked, re-explained or deepened.
RecordFraming(w) ==
  /\ at[w] = "record"
  /\ \/ /\ record(Key(w), turn[w].framing, turn[w].text)
        /\ Goto(w, "log", turn[w])
     \/ /\ Goto(w, "log", [turn[w] EXCEPT !.unrecorded = TRUE])
        /\ UNCHANGED attempts
  /\ UNCHANGED <<enrolled, interactions, answers, asked>>

\* _write_record, which a log that fails does not turn into a failure, and the
\* answer.
WriteRecord(w) ==
  LET t == turn[w]
  IN
  /\ at[w] = "log"
  /\ \/ interactions' = Append(interactions,
          [session |-> t.session, user |-> t.user, concept |-> t.concept,
           grounding |-> t.grounding, section |-> t.match.section])
     \/ UNCHANGED interactions
  /\ answers' = Append(answers,
       [status |-> IF t.framing = None THEN "framings_exhausted" ELSE "answered",
        kind |-> t.kind, session |-> t.session, concept |-> t.concept, grounding |-> t.grounding,
        framing |-> t.framing, text |-> t.text, spans |-> t.spans, came |-> t.came,
        entitled |-> t.entitled, unread |-> t.unread, unrecorded |-> t.unrecorded])
  /\ Goto(w, "idle", NoTurn)
  /\ UNCHANGED <<enrolled, attempts, asked>>

Turn(w) ==
  \/ AskQuestion(w) \/ FollowUp(w) \/ VerifyEnrolment(w) \/ LoadLesson(w)
  \/ ReadHistory(w) \/ Generate(w) \/ RecordFraming(w) \/ WriteRecord(w)

CourseNext == SetEnrolment \/ \E w \in Threads : Turn(w)

CourseSpec == CourseInit /\ [][CourseNext]_course_vars

-----------------------------------------------------------------------------

\* Nothing is said twice: of two answers on one concept in one session, the
\* second asked for once the first was given, the texts differ unless the
\* registry failed one of them, and a re-explanation takes another framing
\* than every answer before it (plan, _generate_non_repeat).
NothingSaidTwice ==
  \A j \in DOMAIN answers : \A i \in 1..answers[j].came :
    LET earlier == answers[i]
        later == answers[j]
    IN (/\ earlier.session = later.session /\ earlier.concept = later.concept
        /\ earlier.status = "answered" /\ ~ earlier.unrecorded
        /\ later.status = "answered" /\ ~ later.unread)
       => /\ earlier.text # later.text
          /\ later.kind = "explain_differently" => earlier.framing # later.framing

\* Lesson material reaches only a learner who was enrolled at some moment of
\* the request that quoted it: neither an outage of the enrolment service nor
\* an interaction of better days opens the lesson (_load).
MaterialNeedsEnrolment ==
  \A j \in DOMAIN answers :
    answers[j].grounding = "lesson" \/ answers[j].spans # {} => answers[j].entitled

=============================================================================
