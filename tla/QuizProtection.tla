----------------------------- MODULE QuizProtection -----------------------------
(***************************************************************************)
(* UC-04: is the learner after the answer of a quiz item?  Two signals     *)
(* (core/quiz_protection.py, adapters/mock/quiz_intent.py): the question   *)
(* is all but the text of one of the lesson's items, or its wording asks   *)
(* for an answer rather than an explanation.  Answers are not refused: a   *)
(* protected question has the concept explained, and not echoed.           *)
(*                                                                         *)
(* A question is its content tokens and what its wording does; a learner   *)
(* asks, and rewords what did not get through, a word or a phrase at a     *)
(* time.  Weights are in hundredths, exact at every boundary; confidences  *)
(* and the log of suspected false positives are left out.                  *)
(***************************************************************************)
EXTENDS Naturals, FiniteSets, FiniteSetsExt

CONSTANTS Tokens, QuizItems, item_tokens, quiz_match_threshold,
          MaxRewordings,   \* bound
          NoItem

QuizConstants ==
  /\ QuizItems \subseteq Nat /\ NoItem \notin QuizItems
  /\ item_tokens \in [QuizItems -> SUBSET Tokens]
  /\ quiz_match_threshold \in 1..100 /\ MaxRewordings \in Nat

VARIABLES question,    \* what the learner asks now
          lesson,      \* the lesson that could be loaded
          classifier,  \* whether the classifier answers
          assessment,  \* the QuizAssessment of the question
          rewordings

quiz_vars == <<question, lesson, classifier, assessment, rewordings>>

\* ANSWER_SIGNALS and INJECTION_PATTERNS, each with its weight, in two kinds.
HardSignals == [direct_answer_solicitation |-> 60, option_selection |-> 55,
                option_confirmation |-> 55, hint_to_answer |-> 55,
                elimination_request |-> 55, instruction_override_attempt |-> 60]
SoftSignals == [answer_confirmation_seeking |-> 35, explanation_suppression |-> 35,
                weak_option_reference |-> 30]
AnswerSignals == DOMAIN HardSignals \cup DOMAIN SoftSignals
Signal == AnswerSignals \cup {"assessment_context", "learning_intent"}

ASSESSMENT_CONTEXT_WEIGHT == 15
LEARNING_DISCOUNT == 30
HARD_SIGNAL_DISCOUNT_CAP == 10
QUIZ_INTENT_BLOCK_THRESHOLD == 55
QUIZ_INTENT_AMBIGUOUS_THRESHOLD == 30

QuizIntentLabel == {"quiz_answer_request", "ambiguous", "concept_learning_request"}

Question == [tokens : SUBSET Tokens, signals : SUBSET Signal]

\* No lesson, a lesson without items, a lesson with its items.
Lessons == {"none", "plain", "quiz"}

NotAsked == [asked |-> FALSE, detected |-> FALSE, confirmed |-> "none", item |-> NoItem,
             suspected_false_positive |-> FALSE]

QuizTypeOK ==
  /\ question \in Question /\ lesson \in Lessons /\ classifier \in {"answers", "fails"}
  /\ rewordings \in 0..MaxRewordings
  /\ assessment \in [asked : BOOLEAN, detected : BOOLEAN, confirmed : {"yes", "no", "none"},
                     item : QuizItems \cup {NoItem}, suspected_false_positive : BOOLEAN]

-----------------------------------------------------------------------------

\* jaccard, as a fraction.
jaccard(left, right) == [common |-> Cardinality(left \cap right), union |-> Cardinality(left \cup right)]

\* match: the closest of the items that are close enough, the first of equals.
match(tokens, items) ==
  LET score_of(i) == jaccard(tokens, item_tokens[i])
      close == {i \in items : 100 * score_of(i).common >= quiz_match_threshold * score_of(i).union}
      closest == {i \in close : \A j \in close :
                    score_of(i).common * score_of(j).union >= score_of(j).common * score_of(i).union}
  IN IF tokens = {} \/ close = {} THEN NoItem ELSE Min(closest)

\* What the signals come to, before learning is considered.
raised(signals, context) ==
  Min({100, MapThenSumSet(LAMBDA s : HardSignals[s], signals \cap DOMAIN HardSignals)
            + MapThenSumSet(LAMBDA s : SoftSignals[s], signals \cap DOMAIN SoftSignals)
            + IF context THEN ASSESSMENT_CONTEXT_WEIGHT ELSE 0})

\* Mutant: the whole discount, whatever fired.
score_uncapped(signals, has_quiz_items) ==
  LET total == raised(signals, has_quiz_items \/ "assessment_context" \in signals)
      discount == IF "learning_intent" \in signals THEN LEARNING_DISCOUNT ELSE 0
  IN IF total < discount THEN 0 ELSE total - discount

\* The score: what sounds like learning is taken off it, little when a hard
\* signal fired.
score(signals, has_quiz_items) ==
  LET context == has_quiz_items \/ "assessment_context" \in signals
      total == raised(signals, context)
      discount == CASE "learning_intent" \notin signals -> 0
                    [] signals \cap DOMAIN HardSignals # {} -> Min({LEARNING_DISCOUNT, HARD_SIGNAL_DISCOUNT_CAP})
                    [] OTHER -> LEARNING_DISCOUNT
  IN IF total < discount THEN 0 ELSE total - discount

classify(signals, has_quiz_items) ==
  LET final == score(signals, has_quiz_items)
  IN CASE final >= QUIZ_INTENT_BLOCK_THRESHOLD -> "quiz_answer_request"
       [] final >= QUIZ_INTENT_AMBIGUOUS_THRESHOLD -> "ambiguous"
       [] OTHER -> "concept_learning_request"

\* assess.
assess(label, told, item, has_quiz_items) ==
  LET detected == label # "concept_learning_request" \/ item # NoItem
  IN [asked |-> TRUE, detected |-> detected, item |-> item,
      confirmed |-> CASE item # NoItem -> "yes"
                      [] detected /\ has_quiz_items -> "no"
                      [] OTHER -> "none",
      suspected_false_positive |->
        detected /\ item = NoItem /\ (has_quiz_items \/ "learning_intent" \in told)]

\* _assess_quiz: a classifier that fails finds the question ambiguous.
assess_quiz(q, in, works) ==
  LET has_quiz_items == in = "quiz"
      item == match(q.tokens, IF in = "quiz" THEN QuizItems ELSE {})
  IN IF works = "answers"
     THEN assess(classify(q.signals, has_quiz_items), q.signals, item, has_quiz_items)
     ELSE assess("ambiguous", {"classifier_error"}, item, has_quiz_items)

-----------------------------------------------------------------------------

\* The learner begins from an item, as printed or less a word, or from nothing.
QuizInit ==
  /\ lesson \in Lessons /\ classifier \in {"answers", "fails"}
  /\ question \in [tokens : {{}} \cup {item_tokens[i] \ {t} : i \in QuizItems, t \in Tokens},
                   signals : {{}} \cup {{s} : s \in Signal}]
  /\ assessment = NotAsked /\ rewordings = 0

Ask ==
  /\ ~ assessment.asked
  /\ assessment' = assess_quiz(question, lesson, classifier)
  /\ UNCHANGED <<question, lesson, classifier, rewordings>>

\* More words: of the item, of none, or such as the classifier looks for.
Reword ==
  /\ assessment.asked /\ rewordings < MaxRewordings
  /\ rewordings' = rewordings + 1 /\ assessment' = NotAsked
  /\ \/ \E t \in Tokens \ question.tokens :
          question' = [question EXCEPT !.tokens = @ \cup {t}]
     \/ \E s \in Signal \ question.signals :
          question' = [question EXCEPT !.signals = @ \cup {s}]
  /\ UNCHANGED <<lesson, classifier>>

QuizNext == Ask \/ Reword

QuizSpec == QuizInit /\ [][QuizNext]_quiz_vars

-----------------------------------------------------------------------------

\* No words talk the protection away: a question that asks for an answer
\* outright, or for the protection to be off, is protected whatever else is
\* said in it, as is any question while the classifier cannot be asked, and a
\* question asked as an item is printed (_assess_quiz, classify, assess).
NoTalkingRound ==
  assessment.asked =>
    /\ question.signals \cap DOMAIN HardSignals # {} => assessment.detected
    /\ classifier = "fails" => assessment.detected
    /\ lesson = "quiz" /\ (\E i \in QuizItems : question.tokens = item_tokens[i] /\ question.tokens # {})
         => assessment.detected /\ assessment.confirmed = "yes"

\* A learner who only wants to learn is not taken for one who does not, however
\* full of quiz items the lesson is; and nothing is held against a question, or
\* for it, by a lesson that has no item to compare it with (assess).
LearningIsNoOffence ==
  assessment.asked =>
    /\ (classifier = "answers" /\ question.signals \cap AnswerSignals = {} /\ assessment.item = NoItem)
         => ~ assessment.detected
    /\ lesson # "quiz" => assessment.confirmed = "none" /\ assessment.item = NoItem
    /\ assessment.confirmed = "no" => assessment.suspected_false_positive

=============================================================================
