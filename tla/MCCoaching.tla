------------------------------- MODULE MCCoaching -------------------------------
(***************************************************************************)
(* The two coaches that open content a learner must be let in to: the case *)
(* file (UC-06) and the lesson of a course (UC-04), on small instances.    *)
(* They are mounted side by side and neither calls the other, so one       *)
(* behaviour is of one of them, the active one.  The lesson is checked     *)
(* with one thread and MaxTurns turns, and with every thread and one turn  *)
(* fewer.  The other behaviours are of one part each that stands beside    *)
(* the coaches or under all ten components: the protection of a quiz, the  *)
(* levels and documents that adapters read from upstreams, and what HTTP   *)
(* tells a client that is not served.                                      *)
(***************************************************************************)
EXTENDS CaseCoaching, TLC

CONSTANTS Actives, c1, c2, a1, a2, framing1, framing2, text1, text2

CONSTANTS Threads, CourseLearners, CourseSessions, Sections, Concepts, section_of,
          KeyPoints, FRAMING_ORDER, Texts,
          MAX_QUOTED_SPANS_PER_CONCEPT, MAX_QUOTED_SPANS_PER_RESPONSE, MaxTurns, UNCLASSIFIED,
          MaxReads, MaxCalls,
          Tokens, t1, t2, t8, QuizItems, quiz_match_threshold, MaxRewordings, MaxTries

VARIABLES active, enrolled, attempts, interactions, answers, asked, at, turn,   \* the lesson's
          record, service, readings, document, taken,                    \* the upstreams'
          question, lesson, classifier, assessment, rewordings,          \* the quiz's
          app, route, flaws, cause, answer, client, tries                \* a request's

L == INSTANCE CourseCoaching
U == INSTANCE UpstreamDocuments

\* Two items that share all but a word each.
MCItemTokens == [i \in QuizItems |-> Tokens \ (IF i = 1 THEN {t1, t8} ELSE {t2, t8})]

Q == INSTANCE QuizProtection WITH item_tokens <- MCItemTokens, NoItem <- None

H == INSTANCE HttpAnswers

ASSUME CourseAssumption == L!CourseConstants
ASSUME QuizAssumption == Q!QuizConstants
ASSUME HttpAssumption == H!HttpConstants

MCOrder == <<framing1, framing2>>
MCSectionOf == [c \in Concepts |-> IF c = c1 THEN a1 ELSE a2]
MCTexts == {text1, text2}
MCSymmetry == Permutations(MCTexts)

lesson_vars == <<enrolled, attempts, interactions, answers, asked, at, turn>>

upstream_vars == <<record, service, readings, document, taken>>

quiz_vars == <<question, lesson, classifier, assessment, rewordings>>

http_vars == <<app, route, flaws, cause, answer, client, tries>>

CaseIdle == granted = {} /\ halts = {} /\ records = <<>> /\ audit = <<>> /\ incidents = <<>>
            /\ alerts = <<>> /\ trail = <<>> /\ served = 0 /\ pc = "idle" /\ job = NoJob

LessonIdle == enrolled = {} /\ attempts = <<>> /\ interactions = <<>> /\ answers = <<>>
              /\ asked = 0 /\ at = <<>> /\ turn = <<>>

QuizIdle == question = [tokens |-> {}, signals |-> {}] /\ lesson = "none" /\ classifier = "fails"
            /\ assessment = Q!NotAsked /\ rewordings = 0

HttpIdle == app = "uc01" /\ route = "get_session" /\ flaws = {} /\ cause = "none"
            /\ answer = H!NoAnswer /\ client = "waits" /\ tries = 0

UpstreamsIdle == U!NoLevels /\ service = "answers" /\ document = U!Fine /\ taken = <<>>

CoachingInit ==
  /\ active \in Actives
  /\ IF active = "case" THEN Init ELSE CaseIdle
  /\ IF active \in {"alone", "together"} THEN L!CourseInit ELSE LessonIdle
  /\ IF active = "upstreams" THEN U!UpstreamsInit ELSE UpstreamsIdle
  /\ IF active = "quiz" THEN Q!QuizInit ELSE QuizIdle
  /\ IF active = "http" THEN H!HttpInit ELSE HttpIdle

First == CHOOSE w \in Threads : TRUE

CoachingNext ==
  \/ /\ active = "case" /\ Next
     /\ UNCHANGED <<active, lesson_vars, upstream_vars, quiz_vars, http_vars>>
  \/ /\ \/ active = "alone" /\ (L!SetEnrolment \/ L!Turn(First))
        \/ active = "together" /\ L!CourseNext /\ asked' < MaxTurns
     /\ UNCHANGED <<active, vars, upstream_vars, quiz_vars, http_vars>>
  \/ /\ active = "upstreams" /\ U!UpstreamsNext
     /\ UNCHANGED <<active, vars, lesson_vars, quiz_vars, http_vars>>
  \/ /\ active = "quiz" /\ Q!QuizNext
     /\ UNCHANGED <<active, vars, lesson_vars, upstream_vars, http_vars>>
  \/ /\ active = "http" /\ H!HttpNext
     /\ UNCHANGED <<active, vars, lesson_vars, upstream_vars, quiz_vars>>

CoachingSpec ==
  CoachingInit /\ [][CoachingNext]_<<active, vars, lesson_vars, upstream_vars, quiz_vars, http_vars>>

\* Each one's own types.
CoachTypesOK ==
  /\ active = "case" => TypeOK
  /\ active \in {"alone", "together"} => L!TypeOK
  /\ U!UpstreamsTypeOK /\ Q!QuizTypeOK
  /\ active = "http" => H!HttpTypeOK

\* CaseCoaching's and CourseCoaching's: protected content is for those whom it is
\* open to, case material after a check and a lesson's under an enrolment.
NothingGivenAway == ContentHasItsReader /\ L!MaterialNeedsEnrolment

\* CourseCoaching's: nothing is said twice.
NothingSaidTwice == L!NothingSaidTwice

\* QuizProtection's: who is after the answers of a quiz is seen to be, and who
\* only learns is not.
QuizIsProtected == Q!NoTalkingRound /\ Q!LearningIsNoOffence

\* LearnerLevels': no level passes for the learner's own that is not, all
\* components explain the same level at the same depth, an upstream that fails
\* is not one that has nothing, and leaves no coach without a level.
LevelsAreHonest ==
  U!LevelsAreHonest /\ U!OneDepthEverywhere /\ U!OutageIsNotAbsence /\ U!NeverWithoutALevel

\* UpstreamDocuments' and HttpAnswers': a document is taken whole or refused, a
\* failing upstream is not one that has nothing, and opens nothing; a client is
\* told which failure is its own, not what there is, and misled by none.
NothingIsMistaken ==
  /\ U!NothingHalfRead /\ U!FailureIsNoAnswer
  /\ active = "http" => H!NothingIsBetrayed /\ H!TheFaultIsNamed /\ H!NobodyIsMisled

=============================================================================
