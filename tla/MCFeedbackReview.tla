--------------------------- MODULE MCFeedbackReview ---------------------------
(***************************************************************************)
(* FeedbackReview on small instances.  Two answers on one topic, a window  *)
(* of two ticks in which both can be rated and out of which both pass, and *)
(* a rule that one thumbs down of two meets exactly.                       *)
(***************************************************************************)
EXTENDS FeedbackReview, TLC

CONSTANTS i1, i2, contracts

MCTopicOf == (i1 :> contracts) @@ (i2 :> contracts)
Symmetry == Permutations(Interactions)

=============================================================================
