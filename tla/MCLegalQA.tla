------------------------------ MODULE MCLegalQA ------------------------------
(***************************************************************************)
(* Values for TLC.  Citing is Neighbour with a citation in it that is as   *)
(* long again: overlap 4/8, below the threshold of 6/10, with Neighbour,   *)
(* 4/7 when the citation is replaced, and 4/11 with itself so replaced.    *)
(***************************************************************************)
EXTENDS LegalQA, TLC

Neighbour == {"harm", "foreseeable", "neighbour", "care"}
Rogue     == {"smith", "jones", "uksc", "under"}
Citing    == Neighbour \cup Rogue

MCPool == {"analogy", "worked_example"}
MCActions == {"another_example"}
MCProse == {Neighbour, Citing}
MCCitations == {Rogue}

\* Requests are interchangeable.
MCSymmetry == Permutations(Workers)
=============================================================================
