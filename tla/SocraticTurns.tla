---------------------------- MODULE SocraticTurns ----------------------------
(***************************************************************************)
(* What UC-05 promises of a session, turn by turn: a question opens a      *)
(* dialogue while the mode is on, a reply is one row of the transition     *)
(* table applied to the dialogue as it is stored, turning the mode off     *)
(* abandons what is open, and nothing else changes a dialogue.             *)
(* SocraticService implements these turns with several awaits each.        *)
(***************************************************************************)
EXTENDS DialogueStateMachine

CONSTANTS Users, DialogueIds, Intents

VARIABLES dialogues, mode

turnVars == <<dialogues, mode>>

TurnsInit ==
  /\ dialogues = [d \in DialogueIds |-> None]
  /\ mode = None

SetMode ==
  /\ \E user \in Users, enabled \in BOOLEAN :
       /\ mode # None => mode.owner_user_id = user
       /\ mode' = [enabled |-> enabled, owner_user_id |-> user]
  /\ UNCHANGED dialogues

Ask(d) ==
  /\ dialogues[d] = None
  /\ mode # None /\ mode.enabled
  /\ \E text \in LearnerQuestions, q \in Questions :
       /\ ~ Restates(q, text)
       /\ dialogues' = [dialogues EXCEPT ![d] = NewDialogue(mode.owner_user_id, text, q)]
  /\ UNCHANGED mode

\* A reply: a further question if one is due and is not a repeat, otherwise
\* whatever the row of the message's event says.
Reply(d) ==
  /\ dialogues[d] # None
  /\ is_open(dialogues[d])
  /\ \E intent \in Intents :
       LET event == EventAtCap(dialogues[d], intent)
           Take(e, q) == dialogues' = [dialogues EXCEPT ![d] = ApplyTurn(@, intent, e, q)]
       IN IF event # "substantive_response"
          THEN Take(event, None)
          ELSE \E q \in Questions :
                 /\ ~ Restates(q, dialogues[d].question_text)
                 /\ Take(IF is_repeat(q, dialogues[d].questions)
                         THEN "loop_detected" ELSE event, q)
  /\ UNCHANGED mode

Abandon(d) ==
  /\ mode # None /\ ~ mode.enabled
  /\ dialogues[d] # None
  /\ is_open(dialogues[d])
  /\ dialogues' = [dialogues EXCEPT ![d] = Abandoned(@)]
  /\ UNCHANGED mode

TurnsNext == SetMode \/ \E d \in DialogueIds : Ask(d) \/ Reply(d) \/ Abandon(d)

TurnsSpec == TurnsInit /\ [][TurnsNext]_turnVars

=============================================================================
