--------------------------- MODULE MCQuestionReview ---------------------------
(***************************************************************************)
(* An instance of QuestionReview for TLC.                                  *)
(***************************************************************************)
EXTENDS QuestionReview, TLC

Symmetry == Permutations(People) \cup Permutations(Requests) \cup Permutations(Contents)
=============================================================================
