-------------------------- MODULE MCSocraticService --------------------------
(***************************************************************************)
(* Values for TLC.  Guiding questions are sets of content tokens: Opening, *)
(* Probe and Aside are different questions, one more than the cap of the   *)
(* runs, and Reworded is Opening with one word more (Jaccard 4/5, the loop *)
(* threshold).  A learner asks Asked, or Probe itself, of which the        *)
(* guiding question Probe would be a restatement.                          *)
(***************************************************************************)
EXTENDS SocraticService, TLC

Opening  == {1, 2, 3, 4}
Reworded == {1, 2, 3, 4, 5}
Probe    == {5, 6, 7}
Aside    == {9, 10}
Asked    == {1, 8}

MCQuestions == {Opening, Reworded, Probe, Aside}
MCLearnerQuestions == {Asked, Probe}
MCFewQuestions == {Opening, Probe}

\* One intent per event an open dialogue can meet.
MCEveryEvent == {"substantive_response", "exit_confirmation", "exit_declined",
                 "learner_reasoned_conclusion", "direct_answer_request",
                 "explicit_frustration", "off_topic"}
MCLearner == {Asked}
MCFewIntents == {"substantive_response", "direct_answer_request", "off_topic"}

\* Requests are interchangeable.
MCSymmetry == Permutations(Workers)
=============================================================================
