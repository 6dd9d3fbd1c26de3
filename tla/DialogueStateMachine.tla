------------------------ MODULE DialogueStateMachine ------------------------
(***************************************************************************)
(* The transition table of UC-05 (domain/state_machine.py), the Dialogue   *)
(* aggregate it moves (domain/models.py), the loop test on guiding         *)
(* questions (domain/normalisation.py) and the pure part of a turn: what   *)
(* SocraticService.reply does to its copy of the dialogue between its last *)
(* provider call and its first save.                                       *)
(***************************************************************************)
EXTENDS Naturals, Sequences, FiniteSets

CONSTANTS ExchangeCap,       \* settings.socratic_exchange_cap
          LoopTenths,        \* settings.loop_similarity_threshold, in tenths
          Questions,         \* guiding questions, each as its set of content tokens
          LearnerQuestions,  \* what learners ask, likewise
          None               \* Python's None

(***************************************************************************)
(* What config.py validates of the two settings (ge=1; 0.0 .. 1.0), and    *)
(* that a question is the finite set of tokens content_tokens returns.     *)
(***************************************************************************)
ASSUME CapAssumption  == ExchangeCap \in Nat \ {0}
ASSUME LoopAssumption == LoopTenths \in 0..10
ASSUME QuestionsAssumption == \A q \in Questions \cup LearnerQuestions : IsFiniteSet(q)

-----------------------------------------------------------------------------
(* Vocabularies (domain/enums.py). *)

AWAITING   == "awaiting_learner_response"
CONFIRMING == "awaiting_exit_confirmation"

OPEN_STATES     == {AWAITING, CONFIRMING}
TERMINAL_STATES == {"resolved", "capped", "exited_for_question", "abandoned"}
DialogueState   == OPEN_STATES \cup TERMINAL_STATES

IntentKind == {"substantive_response", "casual_difficulty", "exit_confirmation",
               "exit_declined", "learner_reasoned_conclusion",
               "direct_answer_request", "explicit_frustration", "off_topic"}

ANSWERING_INTENTS == {"substantive_response", "casual_difficulty",
                      "learner_reasoned_conclusion", "explicit_frustration"}

Resolution == {"learner_reasoned", "capped", "exited_on_request",
               "exited_on_frustration", "loop_detected", "abandoned"}

ResponseKind == {"guiding_question", "acknowledgement_and_guiding_question",
                 "exit_offer", "direct_answer", "capped_answer",
                 "closing_acknowledgement"}

DIRECT_ANSWER_RESOLUTIONS == {"exited_on_request", "exited_on_frustration",
                              "capped", "loop_detected"}
ANSWER_BEARING_KINDS == {"direct_answer", "capped_answer"}
QUESTION_KINDS == {"guiding_question", "acknowledgement_and_guiding_question"}

-----------------------------------------------------------------------------
(* The table.  A row keeps the dialogue open, closes it, or opens a new    *)
(* exchange in it; only rows that keep it open may re-pose the question.   *)

Row(source, event, target, kind, resolution, opens) ==
  [source |-> source, event |-> event, target |-> target,
   response_kind |-> kind, resolution |-> resolution, opens_exchange |-> opens]

Asks(source, event, kind) == Row(source, event, AWAITING, kind, None, TRUE)
Stays(source, event, target, kind) == Row(source, event, target, kind, None, FALSE)
Closes(source, event, target, kind, resolution) ==
  Row(source, event, target, kind, resolution, FALSE)

\* Rows both open states have alike: T04/T11, T12/T13, T14/T15, T16/T17,
\* T18/T19.
ClosingRows(s) ==
  { Closes(s, "learner_reasoned_conclusion", "resolved",
           "closing_acknowledgement", "learner_reasoned"),
    Closes(s, "explicit_frustration", "exited_for_question",
           "direct_answer", "exited_on_frustration"),
    Closes(s, "cap_reached", "capped", "capped_answer", "capped"),
    Closes(s, "loop_detected", "capped", "capped_answer", "loop_detected"),
    Closes(s, "mode_toggled_off", "abandoned", None, "abandoned") }

\* T06 and T08: the second step of an exit on request.
ExitRows == { Closes(CONFIRMING, e, "exited_for_question", "direct_answer",
                     "exited_on_request") :
              e \in {"exit_confirmed", "direct_answer_requested"} }

\* Mutant: the first request for the answer is granted at once.
TransitionsWithoutOffer ==
  { Asks(None, "dialogue_started", "guiding_question"),
    Asks(AWAITING, "substantive_response", "acknowledgement_and_guiding_question"),
    Stays(AWAITING, "off_topic", AWAITING, "acknowledgement_and_guiding_question"),
    Closes(AWAITING, "direct_answer_requested", "exited_for_question",
           "direct_answer", "exited_on_request") }
  \cup ClosingRows(AWAITING)

TRANSITIONS ==
  { Asks(None, "dialogue_started", "guiding_question"),
    Asks(AWAITING, "substantive_response", "acknowledgement_and_guiding_question"),
    Asks(CONFIRMING, "substantive_response", "acknowledgement_and_guiding_question"),
    Stays(AWAITING, "off_topic", AWAITING, "acknowledgement_and_guiding_question"),
    Stays(AWAITING, "direct_answer_requested", CONFIRMING, "exit_offer"),
    Stays(CONFIRMING, "off_topic", CONFIRMING, "exit_offer"),
    Stays(CONFIRMING, "exit_declined", AWAITING, "acknowledgement_and_guiding_question") }
  \cup ExitRows \cup ClosingRows(AWAITING) \cup ClosingRows(CONFIRMING)

is_legal(state, event) ==
  \E t \in TRANSITIONS : t.source = state /\ t.event = event

lookup(state, event) ==
  CHOOSE t \in TRANSITIONS : t.source = state /\ t.event = event

\* Before an exit was offered, a "yes" or a "no" is just a learner talking.
event_for_intent(state, intent) ==
  CASE intent = "casual_difficulty" -> "substantive_response"
    [] intent = "direct_answer_request" -> "direct_answer_requested"
    [] intent = "exit_confirmation" ->
         IF state = CONFIRMING THEN "exit_confirmed" ELSE "substantive_response"
    [] intent = "exit_declined" ->
         IF state = CONFIRMING THEN "exit_declined" ELSE "substantive_response"
    [] OTHER -> intent

-----------------------------------------------------------------------------
(* The Dialogue aggregate.  The exchanges' guiding questions are the       *)
(* sequence "questions"; the learner's messages are one sequence, each     *)
(* carrying the number of the exchange it was appended to.                 *)

Message  == [exchange : Nat, intent : IntentKind]

DialogueType(Users) ==
  [user : Users, question_text : LearnerQuestions,
   state : DialogueState, resolution : Resolution \cup {None},
   questions : Seq(Questions), messages : Seq(Message),
   loop_matched_exchange : Nat \cup {None},
   last_interaction : Nat \cup {None}]

is_open(d) == d.state \in OPEN_STATES
exchanges_used(d) == Len(d.questions)

\* ExchangeRecord.learner_response: the last answering message, failing that
\* the last message, failing that None.
learner_response(d, n) ==
  LET said == {i \in DOMAIN d.messages : d.messages[i].exchange = n}
      answering == {i \in said : d.messages[i].intent \in ANSWERING_INTENTS}
      Last(S) == CHOOSE i \in S : \A j \in S : j <= i
  IN CASE answering # {} -> Last(answering)
       [] said # {} /\ answering = {} -> Last(said)
       [] OTHER -> None

\* build_reasoning_chain: one step per exchange, in order, nothing generated.
build_reasoning_chain(d) ==
  [n \in 1..Len(d.questions) |->
     [guiding_question |-> d.questions[n], learner_response |-> learner_response(d, n)]]

-----------------------------------------------------------------------------
(* Loop detection.  jaccard(a, b) is the fraction Shared(a, b) / Union(a, b) *)
(* with the two empty-set cases of the code; fractions are compared by     *)
(* cross-multiplication.                                                   *)

Shared(a, b) == IF a = {} /\ b = {} THEN 1 ELSE Cardinality(a \cap b)
Either(a, b) == IF a = {} /\ b = {} THEN 1 ELSE Cardinality(a \cup b)

Scores(a, b, tenths) == 10 * Shared(a, b) >= tenths * Either(a, b)
Closer(q, a, b) == Shared(q, a) * Either(q, b) > Shared(q, b) * Either(q, a)

\* The first of the best-scoring earlier questions; a score of 0 never counts.
best_index(q, previous) ==
  LET hits == {i \in DOMAIN previous : Shared(q, previous[i]) > 0}
      best == {i \in hits :
                 \A j \in hits : /\ ~ Closer(q, previous[j], previous[i])
                                 /\ j < i => Closer(q, previous[i], previous[j])}
  IN IF best = {} THEN None ELSE CHOOSE i \in best : TRUE

is_repeat(q, previous) ==
  \E i \in DOMAIN previous : /\ Shared(q, previous[i]) > 0
                             /\ Scores(q, previous[i], LoopTenths)

\* GuidingQuestionGuard: similarity 0.85 to the learner's own question is a
\* restatement.  The other guard checks only reject, like any provider failure.
Restates(q, question_text) == 20 * Shared(q, question_text) >= 17 * Either(q, question_text)

-----------------------------------------------------------------------------
(* One turn on a copy of the dialogue. *)

NewDialogue(user, text, q) ==
  [user |-> user, question_text |-> text, state |-> AWAITING, resolution |-> None,
   questions |-> <<q>>, messages |-> <<>>, loop_matched_exchange |-> None,
   last_interaction |-> None]

\* Mutant: the cap is tested with > where the code has >=.
EventPastCap(d, intent) ==
  LET event == event_for_intent(d.state, intent)
  IN IF event = "substantive_response" /\ exchanges_used(d) > ExchangeCap
     THEN "cap_reached" ELSE event

\* The event of an intent once the cap has been consulted (reply, steps 2-3).
EventAtCap(d, intent) ==
  LET event == event_for_intent(d.state, intent)
  IN IF event = "substantive_response" /\ exchanges_used(d) >= ExchangeCap
     THEN "cap_reached" ELSE event

\* Mutant: the next exchange is opened before the message is filed.
ApplyTurnExchangeFirst(d, intent, event, q) ==
  LET row == lookup(d.state, event)
      asked == IF row.opens_exchange THEN Append(d.questions, q) ELSE d.questions
  IN [d EXCEPT
        !.questions = asked,
        !.messages = Append(@, [exchange |-> Len(asked), intent |-> intent]),
        !.state = row.target,
        !.resolution = row.resolution]

\* The mutations of reply step 5: the message joins the exchange that is open,
\* a new exchange may open behind it, and the row's target is entered.
ApplyTurn(d, intent, event, q) ==
  LET row == lookup(d.state, event)
  IN [d EXCEPT
        !.messages = Append(@, [exchange |-> Len(d.questions), intent |-> intent]),
        !.questions = IF row.opens_exchange THEN Append(@, q) ELSE @,
        !.loop_matched_exchange =
            IF event = "loop_detected" THEN best_index(q, d.questions) ELSE @,
        !.state = row.target,
        !.resolution = row.resolution]

\* The mutations of _close_in_flight.
Abandoned(d) ==
  LET row == lookup(d.state, "mode_toggled_off")
  IN [d EXCEPT !.state = row.target, !.resolution = row.resolution]

=============================================================================
